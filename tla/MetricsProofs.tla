---------------------------- MODULE MetricsProofs ----------------------------
(***************************************************************************)
(* Proofs about the service that keeps metrics, for every origin, clock,   *)
(* window, tier and debounce interval.  First EventIngest: what is         *)
(* remembered of a track is its newest accepted event.  Then the pipeline  *)
(* behind it, whose steps are steps of EventIngest that keep, beside it,   *)
(* the history of the zone and the rows of both tables.                    *)
(*                                                                         *)
(* The inductive invariant has two parts.  HistoryInv relates what was     *)
(* ingested to what happened in the zone; RowsInv says that the rows of a  *)
(* table lie on the grid of its tier, one for each window, and that what a *)
(* row holds is grounded in the events the service has seen.               *)
(*                                                                         *)
(* The two invariants about what a query answers then follow from it       *)
(* without another induction on steps.  The dwell time of a timeline is    *)
(* that of the visits whichever way entries and exits are paired, because  *)
(* only the sum of exit times less the sum of entry times matters.  A row  *)
(* rolled up is the metric of its window, because its parts meet end to    *)
(* end, so every stay lies in one of them.                                 *)
(***************************************************************************)
EXTENDS MetricsLemmas

-----------------------------------------------------------------------------
(***************************************************************************)
(* The debounce filter.                                                    *)
(***************************************************************************)
AcceptedFrom(o, i) == seen[i].event.origin = o /\ seen[i].accepted

\* Nothing is remembered of a track that had no event accepted.
NothingRemembered(o) == \A i \in DOMAIN seen : ~AcceptedFrom(o, i)

\* What is remembered of a track is its latest accepted event.
NewestRemembered(o) ==
    /\ \E i \in DOMAIN seen :
          AcceptedFrom(o, i) /\ seen[i].event.timestamp = lastAcceptedAt[o]
    /\ \A i \in DOMAIN seen :
          AcceptedFrom(o, i) => seen[i].event.timestamp =< lastAcceptedAt[o]

LastIsNewest ==
    \A o \in Origins :
        /\ lastAcceptedAt[o] = NoTime => NothingRemembered(o)
        /\ lastAcceptedAt[o] # NoTime => NewestRemembered(o)

IngestInv == IngestTypeOK /\ LastIsNewest /\ DebounceKeepsPace

\* The type invariant is inductive: what crosses the border, waits on the bus
\* and is handed over is an event of a known track.
LEMMA TypeStep ==
    ASSUME IngestTypeOK, [IngestNext]_ingestVars
    PROVE  IngestTypeOK'
<1> USE BoundsAssumption DEF IngestTypeOK
<1>1. CASE Tick
  BY <1>1 DEF Tick
<1>2. CASE SetRunning
  BY <1>2 DEF SetRunning
<1>3. ASSUME NEW o \in Origins, Cross(o)
      PROVE  IngestTypeOK'
  <2> DEFINE e == [event_type |-> CrossingType(o), origin |-> o, timestamp |-> now]
  <2>1. e \in Event
    BY DEF CrossingType, Event, EventType
  <2>2. crossings' = crossings \cup {e} /\ pending' = pending \cup {e}
    BY <1>3 DEF Cross
  <2> QED
    BY <1>3, <2>1, <2>2 DEF Cross
<1>4. ASSUME NEW e \in pending, Publish(e)
      PROVE  IngestTypeOK'
  <2>1. e \in Event /\ e.origin \in Origins /\ e.timestamp \in 0 .. MaxTime
    BY DEF Event
  <2>2. [event |-> e, accepted |-> ShouldAccept(e)] \in [event : Event, accepted : BOOLEAN]
    BY <2>1 DEF ShouldAccept
  <2>3. RememberedAfter(e) \in (0 .. MaxTime) \cup {NoTime}
    BY <2>1 DEF RememberedAfter
  <2>4. pending' \in SUBSET Event
    BY <1>4 DEF Publish
  <2>5. CASE running
    <3>1. seen' = Append(seen, [event |-> e, accepted |-> ShouldAccept(e)])
      BY <1>4, <2>5 DEF Publish
    <3>2. seen' \in Seq([event : Event, accepted : BOOLEAN])
      BY <2>2, <3>1
    <3>3. lastAcceptedAt' \in [Origins -> (0 .. MaxTime) \cup {NoTime}]
      BY <1>4, <2>1, <2>3, <2>5 DEF Publish
    <3> QED
      BY <1>4, <2>4, <3>2, <3>3 DEF Publish
  <2>6. CASE ~running
    BY <1>4, <2>4, <2>6 DEF Publish
  <2> QED
    BY <2>5, <2>6
<1>5. CASE UNCHANGED ingestVars
  BY <1>5 DEF ingestVars
<1> QED
  BY <1>1, <1>2, <1>3, <1>4, <1>5 DEF IngestNext

\* The two other parts only read what the handler got and what the filter
\* remembers.
LEMMA UnseenStep ==
    ASSUME LastIsNewest, DebounceKeepsPace, UNCHANGED <<seen, lastAcceptedAt>>
    PROVE  LastIsNewest' /\ DebounceKeepsPace'
  BY DEF LastIsNewest, NothingRemembered, NewestRemembered, AcceptedFrom,
         DebounceKeepsPace, SameOrigin, Elapsed

\* An event handed over is the last of those seen, which stay what they were.
LEMMA SeenAfterPublish ==
    ASSUME IngestTypeOK, NEW e \in pending, Publish(e), running
    PROVE  /\ e.origin \in Origins /\ e.timestamp \in Int
           /\ DOMAIN seen = 1 .. Len(seen) /\ Len(seen) \in Nat
           /\ DOMAIN seen' = 1 .. Len(seen) + 1
           /\ \A i \in 1 .. Len(seen) :
                 seen'[i] = seen[i] /\ seen[i].event.timestamp \in Int
           /\ seen'[Len(seen) + 1] = [event |-> e, accepted |-> ShouldAccept(e)]
           /\ lastAcceptedAt'[e.origin] = RememberedAfter(e)
           /\ \A o \in Origins \ {e.origin} : lastAcceptedAt'[o] = lastAcceptedAt[o]
<1>1. e \in Event /\ e.origin \in Origins /\ e.timestamp \in 0 .. MaxTime
  BY DEF IngestTypeOK, Event
<1>2. seen \in Seq([event : Event, accepted : BOOLEAN])
  BY DEF IngestTypeOK
<1>3. \A i \in 1 .. Len(seen) : seen[i].event.timestamp \in Int
  <2>1. \A i \in 1 .. Len(seen) : seen[i].event \in Event
    <3> DEFINE R == [event : Event, accepted : BOOLEAN]
    <3>1. \A r \in R : r.event \in Event
      OBVIOUS
    <3>2. seen \in Seq(R)
      BY <1>2
    <3> HIDE DEF R
    <3> QED
      BY <3>1, <3>2
  <2>2. \A f \in Event : f.timestamp \in Int
    BY BoundsAssumption DEF Event
  <2> QED
    BY <2>1, <2>2
<1>4. seen' = Append(seen, [event |-> e, accepted |-> ShouldAccept(e)])
  BY DEF Publish
<1>5. lastAcceptedAt' = [lastAcceptedAt EXCEPT ![e.origin] = RememberedAfter(e)]
  BY DEF Publish
<1> QED
  BY <1>1, <1>2, <1>3, <1>4, <1>5, BoundsAssumption DEF IngestTypeOK

\* An event that is accepted becomes the newest of its track, and one that is
\* rejected leaves what was remembered in place.
LEMMA PublishKeepsNewest ==
    ASSUME IngestTypeOK, LastIsNewest, NEW e \in pending, Publish(e), running
    PROVE  LastIsNewest'
<1>0. PICK n \in Nat : n = Len(seen) + 1
  BY DEF IngestTypeOK
<1>1. /\ e.origin \in Origins /\ e.timestamp \in Int
      /\ DOMAIN seen = 1 .. Len(seen) /\ Len(seen) \in Nat
      /\ DOMAIN seen' = 1 .. n
      /\ \A i \in 1 .. Len(seen) :
            seen'[i] = seen[i] /\ seen[i].event.timestamp \in Int
      /\ seen'[n] = [event |-> e, accepted |-> ShouldAccept(e)]
      /\ lastAcceptedAt'[e.origin] = RememberedAfter(e)
      /\ \A o \in Origins \ {e.origin} : lastAcceptedAt'[o] = lastAcceptedAt[o]
  BY <1>0, SeenAfterPublish
<1>2. \A i \in 1 .. Len(seen), o \in Origins : AcceptedFrom(o, i)' <=> AcceptedFrom(o, i)
  BY <1>1 DEF AcceptedFrom
<1>3. \A o \in Origins :
         AcceptedFrom(o, n)' <=> (o = e.origin /\ ShouldAccept(e))
  BY <1>1 DEF AcceptedFrom
<1>4. seen'[n].event.timestamp = e.timestamp
  BY <1>1
<1> SUFFICES ASSUME NEW o \in Origins
             PROVE  /\ lastAcceptedAt'[o] = NoTime => NothingRemembered(o)'
                    /\ lastAcceptedAt'[o] # NoTime => NewestRemembered(o)'
  BY DEF LastIsNewest
<1>5. CASE o = e.origin /\ ShouldAccept(e)
  <2>1. lastAcceptedAt'[o] = e.timestamp /\ e.timestamp # NoTime
    BY <1>1, <1>5, NoTimeAssumption DEF RememberedAfter
  <2>2. \A i \in 1 .. Len(seen) :
           AcceptedFrom(o, i) => seen[i].event.timestamp =< e.timestamp
    <3>1. CASE lastAcceptedAt[o] = NoTime
      BY <1>1, <3>1 DEF LastIsNewest, NothingRemembered
    <3>2. CASE lastAcceptedAt[o] # NoTime
      <4>1. lastAcceptedAt[o] \in Int /\ MinInterval \in Nat
        BY <3>2, IntervalAssumption, BoundsAssumption DEF IngestTypeOK
      <4>2. e.timestamp - lastAcceptedAt[o] >= MinInterval
        BY <1>5, <3>2 DEF ShouldAccept
      <4>3. \A i \in 1 .. Len(seen) :
               AcceptedFrom(o, i) => seen[i].event.timestamp =< lastAcceptedAt[o]
        BY <1>1, <3>2 DEF LastIsNewest, NewestRemembered
      <4> QED
        BY <1>1, <4>1, <4>2, <4>3
    <3> QED
      BY <3>1, <3>2
  <2>3. \A i \in 1 .. n :
           AcceptedFrom(o, i)' => seen'[i].event.timestamp =< e.timestamp
    <3>1. ASSUME NEW i \in 1 .. Len(seen), AcceptedFrom(o, i)'
          PROVE  seen'[i].event.timestamp =< e.timestamp
      <4>1. AcceptedFrom(o, i) /\ seen'[i] = seen[i]
        BY <1>1, <1>2, <3>1
      <4> QED
        BY <2>2, <4>1
    <3>2. seen'[n].event.timestamp =< e.timestamp
      BY <1>1, <1>4
    <3>3. \A i \in 1 .. n : i = n \/ i \in 1 .. Len(seen)
      BY <1>0, <1>1
    <3> QED
      BY <3>1, <3>2, <3>3
  <2>4. n \in 1 .. n /\ AcceptedFrom(o, n)'
    BY <1>0, <1>1, <1>3, <1>5
  <2> QED
    BY <1>1, <1>4, <2>1, <2>3, <2>4 DEF NewestRemembered
<1>6. CASE ~(o = e.origin /\ ShouldAccept(e))
  <2>1. lastAcceptedAt'[o] = lastAcceptedAt[o]
    BY <1>1, <1>6 DEF RememberedAfter
  <2>2. \A i \in 1 .. n : AcceptedFrom(o, i)' => i \in 1 .. Len(seen)
    BY <1>0, <1>1, <1>3, <1>6
  <2>3. 1 .. Len(seen) \subseteq 1 .. n
    BY <1>0, <1>1
  <2>4. NothingRemembered(o) => NothingRemembered(o)'
    BY <1>1, <1>2, <2>2 DEF NothingRemembered
  <2>5. NewestRemembered(o) => NewestRemembered(o)'
    BY <1>1, <1>2, <2>1, <2>2, <2>3 DEF NewestRemembered
  <2> QED
    BY <2>1, <2>4, <2>5 DEF LastIsNewest
<1> QED
  BY <1>5, <1>6

\* What the filter decides about an event is right because of what it
\* remembers: the newest accepted event is the one closest to it.
LEMMA PublishKeepsPace ==
    ASSUME IngestTypeOK, LastIsNewest, DebounceKeepsPace,
           NEW e \in pending, Publish(e), running
    PROVE  DebounceKeepsPace'
<1>0. PICK n \in Nat : n = Len(seen) + 1
  BY DEF IngestTypeOK
<1>1. /\ e.origin \in Origins /\ e.timestamp \in Int
      /\ DOMAIN seen = 1 .. Len(seen) /\ Len(seen) \in Nat
      /\ DOMAIN seen' = 1 .. n
      /\ \A i \in 1 .. Len(seen) :
            seen'[i] = seen[i] /\ seen[i].event.timestamp \in Int
      /\ seen'[n] = [event |-> e, accepted |-> ShouldAccept(e)]
  BY <1>0, SeenAfterPublish
<1>2. n - 1 = Len(seen)
  BY <1>0, <1>1
<1>3. ASSUME NEW j \in 1 .. Len(seen)
      PROVE  IF seen'[j].accepted
             THEN \A i \in 1 .. j - 1 :
                     SameOrigin(i, j)' /\ seen'[i].accepted => Elapsed(i, j)' >= MinInterval
             ELSE \E i \in 1 .. j - 1 :
                     SameOrigin(i, j)' /\ seen'[i].accepted /\ Elapsed(i, j)' < MinInterval
  <2>1. \A i \in 1 .. j - 1 : i \in 1 .. Len(seen)
    BY <1>1
  <2>2. /\ seen'[j] = seen[j]
        /\ \A i \in 1 .. j - 1 : /\ seen'[i] = seen[i]
                                 /\ SameOrigin(i, j)' <=> SameOrigin(i, j)
                                 /\ Elapsed(i, j)' = Elapsed(i, j)
    BY <1>1, <2>1 DEF SameOrigin, Elapsed
  <2>3. IF seen[j].accepted
        THEN \A i \in 1 .. j - 1 :
                SameOrigin(i, j) /\ seen[i].accepted => Elapsed(i, j) >= MinInterval
        ELSE \E i \in 1 .. j - 1 :
                SameOrigin(i, j) /\ seen[i].accepted /\ Elapsed(i, j) < MinInterval
    BY <1>1 DEF DebounceKeepsPace
  <2> QED
    BY <2>2, <2>3
<1>4. \A i \in 1 .. Len(seen) :
         /\ SameOrigin(i, n)' /\ seen'[i].accepted <=> AcceptedFrom(e.origin, i)
         /\ Elapsed(i, n)' = e.timestamp - seen[i].event.timestamp
  BY <1>1 DEF SameOrigin, Elapsed, AcceptedFrom
<1>5. CASE ShouldAccept(e)
  <2>1. \A i \in 1 .. Len(seen) :
           AcceptedFrom(e.origin, i) => e.timestamp - seen[i].event.timestamp >= MinInterval
    <3>1. CASE lastAcceptedAt[e.origin] = NoTime
      BY <1>1, <3>1 DEF LastIsNewest, NothingRemembered
    <3>2. CASE lastAcceptedAt[e.origin] # NoTime
      <4>1. lastAcceptedAt[e.origin] \in Int /\ MinInterval \in Nat
        BY <1>1, <3>2, IntervalAssumption, BoundsAssumption DEF IngestTypeOK
      <4>2. e.timestamp - lastAcceptedAt[e.origin] >= MinInterval
        BY <1>5, <3>2 DEF ShouldAccept
      <4>3. \A i \in 1 .. Len(seen) :
               AcceptedFrom(e.origin, i) =>
                   seen[i].event.timestamp =< lastAcceptedAt[e.origin]
        BY <1>1, <3>2 DEF LastIsNewest, NewestRemembered
      <4> QED
        BY <1>1, <4>1, <4>2, <4>3
    <3> QED
      BY <3>1, <3>2
  <2>2. seen'[n].accepted
    BY <1>1, <1>5
  <2>3. \A i \in 1 .. n - 1 :
           SameOrigin(i, n)' /\ seen'[i].accepted => Elapsed(i, n)' >= MinInterval
    BY <1>2, <1>4, <2>1
  <2> QED
    BY <1>1, <1>2, <1>3, <2>2, <2>3 DEF DebounceKeepsPace
<1>6. CASE ~ShouldAccept(e)
  <2>1. \E i \in 1 .. Len(seen) :
           AcceptedFrom(e.origin, i) /\ e.timestamp - seen[i].event.timestamp < MinInterval
    <3>1. /\ lastAcceptedAt[e.origin] # NoTime
          /\ ~(e.timestamp - lastAcceptedAt[e.origin] >= MinInterval)
      BY <1>6 DEF ShouldAccept
    <3>2. lastAcceptedAt[e.origin] \in Int /\ MinInterval \in Int
      BY <1>1, <3>1, IntervalAssumption, BoundsAssumption DEF IngestTypeOK
    <3>3. \E i \in 1 .. Len(seen) :
             AcceptedFrom(e.origin, i) /\ seen[i].event.timestamp = lastAcceptedAt[e.origin]
      BY <1>1, <3>1 DEF LastIsNewest, NewestRemembered
    <3> QED
      BY <1>1, <3>1, <3>2, <3>3
  <2>2. ~seen'[n].accepted
    BY <1>1, <1>6
  <2>3. \E i \in 1 .. n - 1 :
           SameOrigin(i, n)' /\ seen'[i].accepted /\ Elapsed(i, n)' < MinInterval
    BY <1>2, <1>4, <2>1
  <2> QED
    BY <1>1, <1>2, <1>3, <2>2, <2>3 DEF DebounceKeepsPace
<1> QED
  BY <1>5, <1>6

\* The three parts hold at the start, when nothing was handed over.
LEMMA InvariantStarts == IngestInit => IngestInv
<1> SUFFICES ASSUME IngestInit PROVE IngestInv
  OBVIOUS
<1>1. seen = <<>> /\ DOMAIN seen = {}
  BY DEF IngestInit
<1>2. IngestTypeOK
  <2>1. now \in 0 .. MaxTime
    BY BoundsAssumption DEF IngestInit
  <2>2. seen \in Seq([event : Event, accepted : BOOLEAN])
    BY <1>1
  <2> QED
    BY <2>1, <2>2 DEF IngestInit, IngestTypeOK
<1>3. LastIsNewest
  BY <1>1 DEF IngestInit, LastIsNewest, NothingRemembered
<1>4. DebounceKeepsPace
  BY <1>1 DEF DebounceKeepsPace
<1> QED
  BY <1>2, <1>3, <1>4 DEF IngestInv

\* Every step keeps them; only an envelope handed over to a running consumer
\* changes what two of them speak of.
LEMMA InvariantStep == IngestInv /\ [IngestNext]_ingestVars => IngestInv'
<1> SUFFICES ASSUME IngestInv, [IngestNext]_ingestVars
             PROVE  IngestInv'
  OBVIOUS
<1> USE DEF IngestInv
<1>1. IngestTypeOK'
  BY TypeStep
<1>2. CASE UNCHANGED <<seen, lastAcceptedAt>>
  BY <1>1, <1>2, UnseenStep
<1>3. ASSUME NEW e \in pending, Publish(e), running
      PROVE  IngestInv'
  BY <1>1, <1>3, PublishKeepsNewest, PublishKeepsPace
<1>4. ASSUME NEW e \in pending, Publish(e), ~running
      PROVE  UNCHANGED <<seen, lastAcceptedAt>>
  BY <1>4 DEF Publish
<1> QED
  BY <1>2, <1>3, <1>4
     DEF IngestNext, ingestVars, Tick, SetRunning, Cross

\* Of the events of one track each that is accepted is at least the interval
\* after every one accepted before it, and each that is rejected is within
\* the interval of one that was accepted; for any tracks, interval and order.
THEOREM DebounceKeepsPaceAlways == IngestSpec => []DebounceKeepsPace
<1>1. IngestInv => DebounceKeepsPace
  BY DEF IngestInv
<1> QED
  BY <1>1, InvariantStarts, InvariantStep, PTL DEF IngestSpec

-----------------------------------------------------------------------------
(***************************************************************************)
(* What the history tells: every visitor comes and goes in turn.           *)
(***************************************************************************)

Enters == Of(crossings, "enter")

\* The crossings of a track take turns, at most one in an instant, and a visitor
\* who leaves has entered before.
CrossingsInv ==
    /\ IsFiniteSet(crossings)
    /\ \A e \in crossings : e.timestamp =< now
    /\ \A e, f \in crossings :
          e.origin = f.origin /\ e.timestamp = f.timestamp => e = f
    /\ \A e, f \in crossings :
          e.origin = f.origin /\ e.event_type = f.event_type /\ e.timestamp < f.timestamp
              => \E g \in crossings :
                    /\ g.origin = e.origin /\ g.event_type # e.event_type
                    /\ e.timestamp < g.timestamp /\ g.timestamp < f.timestamp
    /\ \A f \in crossings :
          f.event_type = "exit" =>
              \E e \in crossings : /\ e.origin = f.origin /\ e.event_type = "enter"
                                   /\ e.timestamp < f.timestamp

\* What is on the bus, or came from it, did happen.
EventsHappened ==
    /\ pending \subseteq crossings
    /\ \A i \in DOMAIN seen : seen[i].event \in crossings

LEMMA CrossingsStart ==
    ASSUME IngestInit
    PROVE  CrossingsInv /\ EventsHappened
<1>1. crossings = {} /\ pending = {} /\ DOMAIN seen = {}
  BY DEF IngestInit
<1> QED
  BY <1>1, FS_EmptySet DEF CrossingsInv, EventsHappened

\* A visitor who crosses now does so after all that he did before.
LEMMA CrossKeepsTurns ==
    ASSUME IngestTypeOK, CrossingsInv, NEW o \in Origins, Cross(o)
    PROVE  CrossingsInv'
<1> DEFINE e == [event_type |-> CrossingType(o), origin |-> o, timestamp |-> now]
<1>1. /\ crossings' = crossings \cup {e} /\ now' = now
      /\ \A f \in crossings : f.origin = o => f.timestamp < now
  BY DEF Cross, Past
<1>2. now \in Int /\ \A f \in crossings : f.timestamp \in Int
  BY BoundsAssumption DEF IngestTypeOK, Event
<1>3. e.event_type \in {"enter", "exit"} /\ e.origin = o /\ e.timestamp = now
  BY DEF CrossingType
<1>4. \A f \in crossings : f.event_type \in {"enter", "exit"}
  BY DEF IngestTypeOK, Event, EventType
<1>5. e.event_type = "exit" =>
         \E g \in crossings : /\ g.origin = o /\ g.event_type = "enter"
                              /\ \A f \in crossings : f.origin = o => f.timestamp =< g.timestamp
  BY DEF CrossingType, Past
<1>6. e.event_type = "enter" =>
         \A g \in crossings : g.origin = o /\ g.event_type = "enter" =>
             \E f \in crossings : f.origin = o /\ ~(f.timestamp =< g.timestamp)
  BY DEF CrossingType, Past
<1> HIDE DEF e
<1>7. IsFiniteSet(crossings')
  BY <1>1, FS_AddElement DEF CrossingsInv
<1>8. \A f \in crossings' : f.timestamp =< now'
  BY <1>1, <1>2, <1>3 DEF CrossingsInv
<1>9. \A f, g \in crossings' :
         f.origin = g.origin /\ f.timestamp = g.timestamp => f = g
  BY <1>1, <1>2, <1>3 DEF CrossingsInv
<1>10. ASSUME NEW f \in crossings', NEW g \in crossings', f.origin = g.origin,
              f.event_type = g.event_type, f.timestamp < g.timestamp
       PROVE  \E h \in crossings' :
                    /\ h.origin = f.origin /\ h.event_type # f.event_type
                    /\ f.timestamp < h.timestamp /\ h.timestamp < g.timestamp
  <2>1. f \in crossings
    BY <1>1, <1>2, <1>3, <1>8, <1>10
  <2>2. CASE g \in crossings
    BY <1>1, <1>10, <2>1, <2>2 DEF CrossingsInv
  <2>3. CASE g = e /\ e.event_type = "exit"
    <3>1. PICK h \in crossings :
             /\ h.origin = o /\ h.event_type = "enter"
             /\ \A x \in crossings : x.origin = o => x.timestamp =< h.timestamp
      BY <1>5, <2>3
    <3>2. f.timestamp =< h.timestamp /\ f.origin = o /\ f.event_type = "exit"
      BY <1>3, <1>10, <2>1, <2>3, <3>1
    <3>3. f.timestamp # h.timestamp
      BY <2>1, <3>1, <3>2 DEF CrossingsInv
    <3>4. h.timestamp < now
      BY <1>1, <3>1
    <3> QED
      BY <1>1, <1>2, <1>3, <2>1, <2>3, <3>1, <3>2, <3>3, <3>4
  <2>4. CASE g = e /\ e.event_type = "enter"
    <3>1. f.origin = o /\ f.event_type = "enter"
      BY <1>3, <1>10, <2>4
    <3>2. PICK x \in crossings : x.origin = o /\ ~(x.timestamp =< f.timestamp)
      BY <1>6, <2>1, <2>4, <3>1
    <3>3. x.timestamp < now /\ f.timestamp < x.timestamp
      BY <1>1, <1>2, <2>1, <3>2
    <3>4. CASE x.event_type = "exit"
      BY <1>1, <1>3, <2>4, <3>1, <3>2, <3>3, <3>4
    <3>5. CASE x.event_type # "exit"
      <4>1. x.event_type = "enter"
        BY <1>4, <3>5
      <4>2. PICK h \in crossings :
               /\ h.origin = f.origin /\ h.event_type # f.event_type
               /\ f.timestamp < h.timestamp /\ h.timestamp < x.timestamp
        BY <2>1, <3>1, <3>2, <3>3, <4>1 DEF CrossingsInv
      <4> QED
        BY <1>1, <1>2, <1>3, <2>1, <2>4, <3>3, <4>2
    <3> QED
      BY <3>4, <3>5
  <2> QED
    BY <1>1, <1>3, <2>2, <2>3, <2>4
<1>11. ASSUME NEW f \in crossings', f.event_type = "exit"
       PROVE  \E g \in crossings' : /\ g.origin = f.origin /\ g.event_type = "enter"
                                    /\ g.timestamp < f.timestamp
  <2>1. CASE f \in crossings
    BY <1>1, <1>11, <2>1 DEF CrossingsInv
  <2>2. CASE f = e
    <3>1. PICK g \in crossings : g.origin = o /\ g.event_type = "enter"
      BY <1>5, <1>11, <2>2
    <3> QED
      BY <1>1, <1>3, <2>2, <3>1
  <2> QED
    BY <1>1, <2>1, <2>2
<1> QED
  BY <1>7, <1>8, <1>9, <1>10, <1>11 DEF CrossingsInv

LEMMA CrossingsStep ==
    ASSUME IngestTypeOK, CrossingsInv, EventsHappened, [IngestNext]_ingestVars
    PROVE  CrossingsInv' /\ EventsHappened'
<1>1. CASE Tick
  <2>1. now \in Int /\ \A f \in crossings : f.timestamp \in Int
    BY BoundsAssumption DEF IngestTypeOK, Event
  <2>2. now' = now + 1 /\ crossings' = crossings /\ pending' = pending /\ seen' = seen
    BY <1>1 DEF Tick
  <2>3. \A f \in crossings' : f.timestamp =< now'
    BY <2>1, <2>2 DEF CrossingsInv
  <2>4. CrossingsInv'
    BY <2>2, <2>3 DEF CrossingsInv
  <2> QED
    BY <2>2, <2>4 DEF EventsHappened
<1>2. CASE SetRunning
  BY <1>2 DEF SetRunning, CrossingsInv, EventsHappened
<1>3. ASSUME NEW o \in Origins, Cross(o)
      PROVE  CrossingsInv' /\ EventsHappened'
  <2>1. CrossingsInv'
    BY <1>3, CrossKeepsTurns
  <2>2. EventsHappened'
    BY <1>3 DEF Cross, EventsHappened
  <2> QED
    BY <2>1, <2>2
<1>4. ASSUME NEW e \in pending, Publish(e)
      PROVE  CrossingsInv' /\ EventsHappened'
  <2>1. crossings' = crossings /\ now' = now /\ pending' = pending \ {e}
    BY <1>4 DEF Publish
  <2>2. \A i \in DOMAIN seen' : seen'[i].event \in crossings
    <3>1. CASE running
      <4>1. /\ DOMAIN seen = 1 .. Len(seen) /\ Len(seen) \in Nat
            /\ DOMAIN seen' = 1 .. Len(seen) + 1
            /\ \A i \in 1 .. Len(seen) : seen'[i] = seen[i]
            /\ seen'[Len(seen) + 1] = [event |-> e, accepted |-> ShouldAccept(e)]
        BY <1>4, <3>1, SeenAfterPublish
      <4>2. ASSUME NEW i \in DOMAIN seen' PROVE seen'[i].event \in crossings
        <5>1. i = Len(seen) + 1 \/ i \in 1 .. Len(seen)
          BY <4>1
        <5> QED
          BY <4>1, <5>1 DEF EventsHappened
      <4> QED
        BY <4>2
    <3>2. CASE ~running
      BY <1>4, <3>2 DEF Publish, EventsHappened
    <3> QED
      BY <3>1, <3>2
  <2>3. CrossingsInv'
    BY <2>1 DEF CrossingsInv
  <2> QED
    BY <2>1, <2>2, <2>3 DEF EventsHappened
<1>5. CASE UNCHANGED ingestVars
  BY <1>5 DEF ingestVars, CrossingsInv, EventsHappened
<1> QED
  BY <1>1, <1>2, <1>3, <1>4, <1>5 DEF IngestNext

LEMMA EventFacts ==
    ASSUME IngestTypeOK, CrossingsInv
    PROVE  /\ now \in Nat
           /\ \A e \in crossings :
                 /\ e.timestamp \in Nat /\ e.timestamp =< now
                 /\ e.event_type \in {"enter", "exit"} /\ e.origin \in Origins
           /\ \A e \in Enters : e \in crossings /\ e.event_type = "enter"
  BY BoundsAssumption DEF IngestTypeOK, CrossingsInv, Event, EventType, Enters, Of

\* A stay ends with the first exit after its entry, or lasts.
LEMMA StayFacts ==
    ASSUME IngestTypeOK, CrossingsInv, NEW e \in Enters
    PROVE  /\ StayOf(e).origin = e.origin /\ StayOf(e).from = e.timestamp
           /\ StayOf(e).to \in Int /\ StayOf(e).from =< StayOf(e).to
           /\ StayOf(e).to =< now
<1>0. /\ now \in Int /\ e \in crossings /\ e.timestamp \in Int /\ e.timestamp =< now
      /\ \A f \in crossings : f.timestamp \in Int /\ f.timestamp =< now
  BY EventFacts
<1>1. CASE ExitsAfter(e) = {}
  BY <1>0, <1>1 DEF StayOf
<1>2. CASE ExitsAfter(e) # {}
  <2>1. /\ ExitsAfter(e) \in SUBSET Int
        /\ \A t \in ExitsAfter(e) : e.timestamp =< t /\ t =< now
    BY <1>0 DEF ExitsAfter, Past
  <2>2. Min(ExitsAfter(e)) \in ExitsAfter(e)
    BY <1>0, <1>2, <2>1, LeastOf
  <2>3. StayOf(e).to = Min(ExitsAfter(e))
    BY <1>2 DEF StayOf
  <2> QED
    BY <1>0, <2>1, <2>2, <2>3 DEF StayOf
<1> QED
  BY <1>1, <1>2

\* The exit that ended a stay, if one did.
LEMMA EndOfStay ==
    ASSUME IngestTypeOK, CrossingsInv, NEW e \in Enters, ExitsAfter(e) # {}
    PROVE  \E g \in crossings :
              /\ g.event_type = "exit" /\ g.origin = e.origin
              /\ e.timestamp < g.timestamp /\ g.timestamp = StayOf(e).to
              /\ \A h \in crossings :
                    h.event_type = "exit" /\ h.origin = e.origin
                        /\ e.timestamp < h.timestamp => g.timestamp =< h.timestamp
<1>0. /\ now \in Int /\ e.timestamp \in Int
      /\ \A f \in crossings : f.timestamp \in Int /\ f.timestamp =< now
  BY EventFacts
<1>1. /\ ExitsAfter(e) \in SUBSET Int
      /\ \A t \in ExitsAfter(e) : e.timestamp =< t
  BY <1>0 DEF ExitsAfter, Past
<1>2. /\ Min(ExitsAfter(e)) \in ExitsAfter(e)
      /\ \A t \in ExitsAfter(e) : Min(ExitsAfter(e)) =< t
  BY <1>0, <1>1, LeastOf
<1>3. PICK g \in crossings : /\ g.event_type = "exit" /\ g.origin = e.origin
                             /\ g.timestamp > e.timestamp
                             /\ g.timestamp = Min(ExitsAfter(e))
  BY <1>2 DEF ExitsAfter, Past
<1>4. \A h \in crossings :
         h.event_type = "exit" /\ h.origin = e.origin /\ e.timestamp < h.timestamp
             => h.timestamp \in ExitsAfter(e)
  BY <1>0 DEF ExitsAfter, Past
<1>5. StayOf(e).to = Min(ExitsAfter(e))
  BY DEF StayOf
<1> QED
  BY <1>0, <1>2, <1>3, <1>4, <1>5

\* A stay is known by its visitor and its start.
LEMMA StaysAreStays ==
    ASSUME IngestTypeOK, CrossingsInv
    PROVE  /\ IsStays(Stays)
           /\ \A s, z \in Stays : s.origin = z.origin /\ s.from = z.from => s = z
<1>1. IsFiniteSet(Enters)
  <2>1. Enters \in SUBSET crossings
    BY EventFacts
  <2> QED
    BY <2>1, FS_Subset DEF CrossingsInv
<1> DEFINE f == [e \in Enters |-> StayOf(e)]
<1>2. Stays = {StayOf(e) : e \in Enters}
  BY DEF Stays, Enters
<1>3. f \in Surjection(Enters, Stays)
  BY <1>2 DEF Surjection
<1>4. IsFiniteSet(Stays)
  BY <1>1, <1>3, FS_Surjection
<1>5. \A s \in Stays : s.from \in Int /\ s.to \in Int
  <2> SUFFICES ASSUME NEW e \in Enters PROVE StayOf(e).from \in Int /\ StayOf(e).to \in Int
    BY <1>2
  <2> QED
    BY EventFacts, StayFacts
<1>6. ASSUME NEW s \in Stays, NEW z \in Stays, s.origin = z.origin, s.from = z.from
      PROVE  s = z
  <2>1. PICK e \in Enters : s = StayOf(e)
    BY <1>2
  <2>2. PICK d \in Enters : z = StayOf(d)
    BY <1>2
  <2>3. e.origin = d.origin /\ e.timestamp = d.timestamp
    BY <1>6, <2>1, <2>2, StayFacts
  <2>4. e \in crossings /\ d \in crossings
    BY EventFacts
  <2>5. e = d
    BY <2>3, <2>4 DEF CrossingsInv
  <2> QED
    BY <2>1, <2>2, <2>5
<1> QED
  BY <1>4, <1>5, <1>6 DEF IsStays

LEMMA StaysThen == IngestTypeOK' /\ CrossingsInv' => IsStays(Stays)'
<1>1. IngestTypeOK /\ CrossingsInv => IsStays(Stays)
  BY StaysAreStays
<1> QED
  BY <1>1, PTL

\* A step keeps every entry and its stay, which it may make longer, but does
\* not end before now.
LEMMA StaysGrow ==
    ASSUME IngestTypeOK, CrossingsInv, [IngestNext]_ingestVars, NEW e \in Enters
    PROVE  /\ e \in Enters' /\ StayOf(e)'.origin = StayOf(e).origin
           /\ StayOf(e)'.from = StayOf(e).from /\ StayOf(e).to =< StayOf(e)'.to
<1>0. /\ now \in Int /\ e \in crossings /\ e.timestamp \in Int /\ e.timestamp =< now
      /\ e.event_type = "enter"
      /\ \A f \in crossings : f.timestamp \in Int /\ f.timestamp =< now
  BY EventFacts
<1>1. StayOf(e).to \in Int /\ StayOf(e).to =< now
  BY StayFacts
<1>2. CASE now' = now + 1 /\ crossings' = crossings
  <2>1. e \in Enters' /\ ExitsAfter(e)' = ExitsAfter(e)
    BY <1>0, <1>2 DEF Enters, Of, ExitsAfter, Past
  <2> QED
    BY <1>0, <1>1, <1>2, <2>1 DEF StayOf
<1>3. CASE now' = now /\ crossings' = crossings
  <2>1. e \in Enters' /\ StayOf(e)' = StayOf(e)
    BY <1>0, <1>3 DEF Enters, Of, StayOf, ExitsAfter, Past
  <2> QED
    BY <1>1, <2>1
<1>4. ASSUME NEW o \in Origins, Cross(o)
      PROVE  /\ e \in Enters' /\ StayOf(e)'.origin = StayOf(e).origin
             /\ StayOf(e)'.from = StayOf(e).from /\ StayOf(e).to =< StayOf(e)'.to
  <2> DEFINE c == [event_type |-> CrossingType(o), origin |-> o, timestamp |-> now]
  <2>1. crossings' = crossings \cup {c} /\ now' = now
    BY <1>4 DEF Cross
  <2>2. c.timestamp = now
    OBVIOUS
  <2> HIDE DEF c
  <2>3. e \in Enters'
    BY <1>0, <2>1 DEF Enters, Of
  <2>4. ExitsAfter(e)' = ExitsAfter(e) \/ ExitsAfter(e)' = ExitsAfter(e) \cup {now}
    BY <2>1, <2>2 DEF ExitsAfter, Past
  <2>5. CASE ExitsAfter(e)' = ExitsAfter(e)
    BY <1>1, <2>1, <2>3, <2>5 DEF StayOf
  <2>6. CASE ExitsAfter(e)' = ExitsAfter(e) \cup {now}
    <3>1. /\ ExitsAfter(e)' \in SUBSET Int /\ ExitsAfter(e)' # {}
          /\ \A t \in ExitsAfter(e)' : e.timestamp =< t
      <4>1. \A t \in ExitsAfter(e) : t \in Int /\ e.timestamp =< t
        BY <1>0 DEF ExitsAfter, Past
      <4> QED
        BY <1>0, <2>6, <4>1
    <3>2. Min(ExitsAfter(e)') \in ExitsAfter(e)'
      BY <1>0, <3>1, LeastOf
    <3>3. StayOf(e)'.to = Min(ExitsAfter(e)')
      BY <3>1 DEF StayOf
    <3>4. CASE ExitsAfter(e) = {}
      <4>1. StayOf(e)'.to = now
        BY <2>6, <3>2, <3>3, <3>4
      <4> QED
        BY <1>0, <1>1, <2>3, <4>1 DEF StayOf
    <3>5. CASE ExitsAfter(e) # {}
      <4>1. \A t \in ExitsAfter(e) : t \in Int /\ e.timestamp =< t /\ t =< now
        BY <1>0 DEF ExitsAfter, Past
      <4>2. ExitsAfter(e) \in SUBSET Int /\ \A t \in ExitsAfter(e) : e.timestamp =< t
        BY <4>1
      <4>3. \A t \in ExitsAfter(e) : Min(ExitsAfter(e)) =< t
        BY <1>0, <3>5, <4>2, LeastOf
      <4>4. StayOf(e).to = Min(ExitsAfter(e))
        BY <3>5 DEF StayOf
      <4>5. \A t \in ExitsAfter(e)' : StayOf(e).to =< t
        BY <1>1, <2>6, <4>3, <4>4
      <4> QED
        BY <2>3, <3>2, <3>3, <4>5 DEF StayOf
    <3> QED
      BY <3>4, <3>5
  <2> QED
    BY <2>4, <2>5, <2>6
<1> QED
  BY <1>2, <1>3, <1>4 DEF IngestNext, ingestVars, Tick, SetRunning, Publish

\* So the peak of what took place in a window only rises.
LEMMA PeaksRise ==
    ASSUME IngestTypeOK, CrossingsInv, IngestTypeOK', CrossingsInv',
           [IngestNext]_ingestVars, NEW r, r.start \in Int, r.end \in Int
    PROVE  PeakOf(StaysIn(r)) \in Nat /\ PeakOf(StaysIn(r))' \in Nat
           /\ PeakOf(StaysIn(r)) =< PeakOf(StaysIn(r))'
<1> DEFINE S == StaysIn(r)
           T == StaysIn(r)'
<1>1. IsStays(Stays) /\ \A s, z \in Stays : s.origin = z.origin /\ s.from = z.from => s = z
  BY StaysAreStays
<1>2. IsStays(Stays)'
  BY StaysThen
<1>3. S \in SUBSET Stays /\ T \in SUBSET Stays'
  BY DEF StaysIn
<1>4. IsStays(S)
  BY <1>1, <1>3, PeakOfMore
<1>5. IsStays(T)
  BY <1>2, <1>3, PeakOfMore
<1>6. ASSUME NEW s \in S
      PROVE  \E z \in T : z.origin = s.origin /\ z.from = s.from /\ s.to =< z.to
  <2>1. PICK e \in Enters : s = StayOf(e)
    BY <1>3 DEF Stays, Enters
  <2>2. /\ e \in Enters' /\ StayOf(e)'.origin = s.origin
        /\ StayOf(e)'.from = s.from /\ s.to =< StayOf(e)'.to
    BY <2>1, StaysGrow
  <2>3. StayOf(e)' \in Stays'
    BY <2>2 DEF Stays, Enters
  <2>4. StayOf(e)'.to \in Int
    BY <1>2, <2>3 DEF IsStays
  <2>5. s.from \in Int /\ s.to \in Int /\ s.from =< r.end /\ r.start =< s.to
    BY <1>4 DEF IsStays, StaysIn
  <2>6. StayOf(e)'.from =< r.end /\ r.start =< StayOf(e)'.to
    BY <2>2, <2>4, <2>5
  <2>7. StayOf(e)' \in T
    BY <2>3, <2>6 DEF StaysIn
  <2> QED
    BY <2>2, <2>7
<1> DEFINE f == [s \in S |-> CHOOSE z \in T :
                    z.origin = s.origin /\ z.from = s.from /\ s.to =< z.to]
<1>7. \A s \in S : /\ f[s] \in T /\ f[s].origin = s.origin
                   /\ f[s].from = s.from /\ s.to =< f[s].to
  <2> HIDE DEF S, T
  <2> QED
    BY <1>6
<1>8. f \in [S -> T] /\ \A s \in S : f[s].from = s.from /\ s.to =< f[s].to
  BY <1>7
<1>9. \A x, y \in S : f[x] = f[y] => x = y
  <2> HIDE DEF f
  <2> QED
    BY <1>1, <1>3, <1>7
<1> HIDE DEF f, S, T
<1>10. PeakOf(S) =< PeakOf(T) /\ PeakOf(S) \in Nat /\ PeakOf(T) \in Nat
  BY <1>4, <1>5, <1>8, <1>9, PeakGrows, PeakIsAtAStart
<1>11. PeakOf(StaysIn(r))' = PeakOf(StaysIn(r)')
  BY DEF PeakOf, Together
<1> QED
  BY <1>10, <1>11 DEF S, T

-----------------------------------------------------------------------------
(***************************************************************************)
(* What is measured of a window.                                           *)
(***************************************************************************)

\* The invariant of the history, and of what is made of it.
HistoryInv == IngestTypeOK /\ CrossingsInv /\ EventsHappened

\* The events of a window happened, and within the window.
LEMMA EventsInFacts ==
    ASSUME HistoryInv, NEW w, w.start \in Int, w.end \in Int
    PROVE  /\ EventsIn(w) \in SUBSET crossings
           /\ AreEvents(EventsIn(w), now)
           /\ \A e \in EventsIn(w) : w.start =< e.timestamp /\ e.timestamp =< w.end
<1>1. EventsIn(w) \in SUBSET crossings
  <2> SUFFICES ASSUME NEW e \in Accepted PROVE e \in crossings
    BY DEF EventsIn
  <2>1. PICK s \in ToSet(seen) : e = s.event
    BY DEF Accepted
  <2>2. PICK i \in DOMAIN seen : s = seen[i]
    BY <2>1 DEF ToSet
  <2> QED
    BY <2>1, <2>2 DEF HistoryInv, EventsHappened
<1>2. IsFiniteSet(EventsIn(w))
  BY <1>1, FS_Subset DEF HistoryInv, CrossingsInv
<1>3. AreEvents(EventsIn(w), now)
  BY <1>1, <1>2, EventFacts DEF HistoryInv, AreEvents
<1> QED
  BY <1>1, <1>3 DEF EventsIn

\* What is paired is no longer than the window, and there are as many pairs as
\* entries and exits allow.
LEMMA DurationsFacts ==
    ASSUME HistoryInv, NEW w, w.start \in Int, w.end \in Int
    PROVE  \E k \in Nat :
              /\ Durations(EventsIn(w)) \in [1 .. k -> Int]
              /\ Len(Durations(EventsIn(w))) = k
              /\ \A i \in 1 .. k : Durations(EventsIn(w))[i] =< w.end - w.start
<1> DEFINE E == EventsIn(w)
           N == Of(E, "enter")
           X == Of(E, "exit")
<1>1. /\ AreEvents(E, now) /\ now \in Int
      /\ \A e \in E : w.start =< e.timestamp /\ e.timestamp =< w.end
  BY EventsInFacts, EventFacts DEF HistoryInv
<1>2. AreEvents(N, now) /\ AreEvents(X, now) /\ N \in SUBSET E /\ X \in SUBSET E
  BY <1>1, OfFacts
<1> DEFINE n == Cardinality(N)
           x == Cardinality(X)
           s == Sorted(N)
           z == Sorted(X)
<1>3. n \in Nat /\ s \in [1 .. n -> N]
  BY <1>1, <1>2, SortedFacts
<1>4. x \in Nat /\ z \in [1 .. x -> X]
  BY <1>1, <1>2, SortedFacts
<1>5. Durations(E) = [i \in DOMAIN s \cap DOMAIN z |-> z[i].timestamp - s[i].timestamp]
  BY DEF Durations
<1> HIDE DEF n, x, s, z, N, X
<1>6. PICK k \in Nat : DOMAIN s \cap DOMAIN z = 1 .. k
  <2>1. CASE n =< x
    <3>1. (1 .. n) \cap (1 .. x) = 1 .. n
      BY <1>3, <1>4, <2>1
    <3> QED
      BY <1>3, <1>4, <3>1
  <2>2. CASE x =< n
    <3>1. (1 .. n) \cap (1 .. x) = 1 .. x
      BY <1>3, <1>4, <2>2
    <3> QED
      BY <1>3, <1>4, <3>1
  <2> QED
    BY <1>3, <1>4, <2>1, <2>2
<1>7. ASSUME NEW i \in 1 .. k
      PROVE  /\ z[i].timestamp - s[i].timestamp \in Int
             /\ z[i].timestamp - s[i].timestamp =< w.end - w.start
  <2>1. i \in 1 .. n /\ i \in 1 .. x
    BY <1>3, <1>4, <1>6
  <2>2. s[i] \in E /\ z[i] \in E
    BY <1>2, <1>3, <1>4, <2>1
  <2>3. /\ s[i].timestamp \in Int /\ z[i].timestamp \in Int
        /\ w.start =< s[i].timestamp /\ z[i].timestamp =< w.end
    BY <1>1, <2>2 DEF AreEvents
  <2> QED
    BY <2>3
<1>8. Durations(E) = [i \in 1 .. k |-> z[i].timestamp - s[i].timestamp]
  BY <1>5, <1>6
<1>9. Durations(E) \in [1 .. k -> Int]
      /\ \A i \in 1 .. k : Durations(E)[i] =< w.end - w.start
  BY <1>7, <1>8
<1>10. Len(Durations(E)) = k
  BY <1>9, LenProperties
<1> QED
  BY <1>9, <1>10

\* An average that does not raise is within the length of its window.
LEMMA AverageWithin ==
    ASSUME HistoryInv, NEW w, w.start \in Int, w.end \in Int, w.start =< w.end, ~Raises(w)
    PROVE  Metric(w).avg \in Fraction /\ Within(Metric(w).avg, w.end - w.start)
<1> DEFINE d == Durations(EventsIn(w))
<1>1. PICK k \in Nat :
         /\ d \in [1 .. k -> Int] /\ Len(d) = k
         /\ \A i \in 1 .. k : d[i] =< w.end - w.start
  BY DurationsFacts
<1>2. Total(d) \in Int /\ Total(d) =< k * (w.end - w.start)
  <2> HIDE DEF d
  <2>1. w.end - w.start \in Int
    OBVIOUS
  <2> QED
    BY <1>1, <2>1, TotalAtMost
<1>3. Total(d) >= 0
  BY <1>2 DEF Raises, DwellSum
<1>4. Metric(w).avg = IF k = 0 THEN Zero ELSE [num |-> Total(d), den |-> k]
  BY <1>1 DEF Metric, DwellSum
<1>5. k * (w.end - w.start) = (w.end - w.start) * k
  OBVIOUS
<1>6. CASE k = 0
  BY <1>4, <1>6 DEF Zero, Fraction, Within
<1>7. CASE k # 0
  BY <1>1, <1>2, <1>3, <1>4, <1>5, <1>7 DEF Fraction, Within
<1> QED
  BY <1>6, <1>7

-----------------------------------------------------------------------------
(***************************************************************************)
(* The peak of a timeline, and that of the visitors.                       *)
(***************************************************************************)

LEMMA EntersApart ==
    ASSUME HistoryInv, NEW e \in Enters, NEW d \in Enters, e.origin = d.origin,
           e.timestamp < d.timestamp
    PROVE  ExitsAfter(e) # {} /\ StayOf(e).to < d.timestamp
<1>1. /\ e \in crossings /\ d \in crossings /\ e.event_type = d.event_type
      /\ e.event_type = "enter"
      /\ \A f \in crossings : f.timestamp \in Int /\ f.event_type \in {"enter", "exit"}
  BY EventFacts DEF HistoryInv
<1>2. PICK g \in crossings :
         /\ g.origin = e.origin /\ g.event_type # e.event_type
         /\ e.timestamp < g.timestamp /\ g.timestamp < d.timestamp
  BY <1>1 DEF HistoryInv, CrossingsInv
<1>3. g.event_type = "exit" /\ g.timestamp > e.timestamp
  BY <1>1, <1>2
<1>4. g.timestamp \in ExitsAfter(e)
  BY <1>2, <1>3 DEF ExitsAfter, Past
<1>5. ExitsAfter(e) # {}
  BY <1>4
<1>6. PICK x \in crossings :
         /\ x.timestamp = StayOf(e).to
         /\ \A h \in crossings :
               h.event_type = "exit" /\ h.origin = e.origin
                   /\ e.timestamp < h.timestamp => x.timestamp =< h.timestamp
  BY <1>5, EndOfStay DEF HistoryInv
<1>7. x.timestamp =< g.timestamp
  BY <1>2, <1>3, <1>6
<1> QED
  BY <1>1, <1>2, <1>5, <1>6, <1>7

\* The stays of S account for the events E: each entry starts one of them, and
\* the exit that ends it is there too, if it is not the last that there is.
Accounts(S, E) ==
    /\ \A e \in E : e.event_type = "enter" => StayOf(e) \in S
    /\ \A e, y \in E, x \in crossings :
          e.event_type = "enter" /\ x.event_type = "exit" /\ x.origin = e.origin
            /\ e.timestamp < x.timestamp /\ x.timestamp = StayOf(e).to
            /\ x.timestamp < y.timestamp
          => x \in E

LEMMA EventsOf ==
    ASSUME HistoryInv, NEW E \in SUBSET crossings
    PROVE  AreEvents(E, now) /\ now \in Int
<1>1. IsFiniteSet(E)
  BY FS_Subset DEF HistoryInv, CrossingsInv
<1> QED
  BY <1>1, EventFacts DEF HistoryInv, AreEvents

\* The balance after an event of a timeline is no more than the visitors who
\* were there at its time: whoever has entered before and is no longer there
\* has left within the timeline.
LEMMA BalanceIsGrounded ==
    ASSUME HistoryInv, NEW E \in SUBSET crossings, NEW S \in SUBSET Stays, Accounts(S, E),
           NEW i \in 1 .. Cardinality(E)
    PROVE  Inside(Sorted(E), i) =< PeakOf(S)
<1> DEFINE t == Sorted(E)
<1>1. AreEvents(E, now) /\ now \in Int
  BY EventsOf
<1>0. PICK n \in Nat : n = Cardinality(E)
  BY <1>1, FS_CardinalityType DEF AreEvents
<1>2. /\ \A j \in 1 .. n : t[j] \in E
      /\ \A j, k \in 1 .. n : j < k => Before(t[j], t[k])
      /\ \A j, k \in 1 .. n : t[j] = t[k] => j = k
      /\ \A e \in E : \E j \in 1 .. n : t[j] = e
  BY <1>0, <1>1, SortedFacts
<1>3. i \in 1 .. n
  BY <1>0
<1>4. /\ \A e \in crossings : /\ e.timestamp \in Int /\ e.timestamp =< now
                              /\ e.event_type \in {"enter", "exit"}
      /\ \A e \in crossings : e.event_type = "enter" => e \in Enters
  BY EventFacts DEF HistoryInv, Enters, Of
<1>5. \A j, k \in 1 .. n : j =< k => t[j].timestamp =< t[k].timestamp
  <2> TAKE j, k \in 1 .. n
  <2>1. t[j].timestamp \in Int /\ t[k].timestamp \in Int
    BY <1>1, <1>2, <1>4
  <2>2. j < k => t[j].timestamp =< t[k].timestamp
    BY <1>2, <2>1 DEF Before
  <2> QED
    BY <2>1, <2>2
<1> DEFINE at == t[i].timestamp
           A == {j \in 1 .. i : t[j].event_type = "enter"}
           B == {j \in 1 .. i : t[j].event_type = "exit"}
           There == {j \in A : at =< StayOf(t[j]).to}
           Gone == {j \in A : ~(at =< StayOf(t[j]).to)}
           U == {s \in S : s.from =< at /\ at =< s.to}
<1>6. at \in Int /\ at =< now /\ t[i] \in E
  BY <1>1, <1>2, <1>3, <1>4
<1>7. ASSUME NEW j \in A
      PROVE  /\ j \in 1 .. n /\ t[j] \in E /\ t[j] \in Enters
             /\ t[j].timestamp =< at /\ t[j].timestamp \in Int
             /\ StayOf(t[j]).origin = t[j].origin /\ StayOf(t[j]).from = t[j].timestamp
             /\ StayOf(t[j]).to \in Int
  <2>1. j \in 1 .. n /\ j =< i /\ t[j].event_type = "enter"
    BY <1>3
  <2>2. t[j] \in E /\ t[j].timestamp =< at
    BY <1>2, <1>3, <1>5, <2>1
  <2>3. t[j] \in Enters /\ t[j].timestamp \in Int
    BY <1>1, <1>4, <2>1, <2>2
  <2> QED
    BY <2>1, <2>2, <2>3, StayFacts DEF HistoryInv
<1>8. IsFiniteSet(A) /\ IsFiniteSet(B) /\ Cardinality(B) \in Nat
  <2>1. A \in SUBSET (1 .. i) /\ B \in SUBSET (1 .. i) /\ IsFiniteSet(1 .. i)
    BY <1>3, Positions
  <2>2. IsFiniteSet(A) /\ IsFiniteSet(B)
    BY <2>1, FS_Subset
  <2> QED
    BY <2>2, FS_CardinalityType
<1>9. Cardinality(There) =< PeakOf(S) /\ Cardinality(There) \in Nat
      /\ PeakOf(S) \in Nat
  <2> DEFINE f == [j \in There |-> StayOf(t[j])]
  <2>1. ASSUME NEW j \in There PROVE f[j] \in U
    <3>1. StayOf(t[j]) \in S
      BY <1>7 DEF Accounts
    <3>2. StayOf(t[j]).from =< at /\ at =< StayOf(t[j]).to
      BY <1>7
    <3> QED
      BY <3>1, <3>2
  <2>2. f \in [There -> U]
    <3> HIDE DEF U
    <3> QED
      BY <2>1
  <2>3. ASSUME NEW j \in There, NEW k \in There, f[j] = f[k] PROVE j = k
    <3>1. j \in A /\ k \in A
      OBVIOUS
    <3>2. t[j].origin = t[k].origin /\ t[j].timestamp = t[k].timestamp
      BY <1>7, <2>3, <3>1
    <3>3. t[j] = t[k]
      BY <1>1, <1>7, <3>1, <3>2 DEF HistoryInv, CrossingsInv
    <3> QED
      BY <1>2, <1>7, <3>1, <3>3
  <2>4. IsStays(S)
    BY StaysAreStays, PeakOfMore DEF HistoryInv
  <2>5. Cardinality(U) \in Nat /\ Cardinality(U) =< PeakOf(S)
    BY <1>6, <2>4, PeakIsHighest DEF Together
  <2>6. PeakOf(S) \in Nat
    BY <2>4, PeakIsAtAStart
  <2>7. IsFiniteSet(U)
    <3>1. U \in SUBSET S
      OBVIOUS
    <3> QED
      BY <2>4, <3>1, FS_Subset DEF IsStays
  <2>8. Cardinality(There) \in Nat /\ Cardinality(There) =< Cardinality(U)
    <3> HIDE DEF There, U, f
    <3> QED
      BY <2>2, <2>3, <2>7, NoLarger
  <2> HIDE DEF There, U
  <2> QED
    BY <2>5, <2>6, <2>8
<1>10. Cardinality(Gone) =< Cardinality(B) /\ Cardinality(Gone) \in Nat
  <2> DEFINE Left(j, k) == /\ t[k].origin = t[j].origin
                           /\ t[k].timestamp = StayOf(t[j]).to
  <2>1. ASSUME NEW j \in Gone PROVE \E k \in B : Left(j, k)
    <3>1. /\ j \in A /\ StayOf(t[j]).to < at
      BY <1>6, <1>7
    <3>2. StayOf(t[j]).to # now
      BY <1>1, <1>6, <1>7, <3>1
    <3>3. ExitsAfter(t[j]) # {}
      BY <3>2 DEF StayOf
    <3>4. PICK x \in crossings : /\ x.event_type = "exit" /\ x.origin = t[j].origin
                                 /\ t[j].timestamp < x.timestamp
                                 /\ x.timestamp = StayOf(t[j]).to
      BY <1>7, <3>1, <3>3, EndOfStay DEF HistoryInv
    <3>5. x.timestamp \in Int /\ x.timestamp < at
      BY <1>4, <3>1, <3>4
    <3>7. x \in E
      BY <1>6, <1>7, <3>1, <3>4, <3>5 DEF Accounts
    <3>8. PICK k \in 1 .. n : t[k] = x
      BY <1>2, <3>7
    <3>9. k \in 1 .. i
      <4>1. ~(i =< k)
        BY <1>3, <1>5, <1>6, <3>5, <3>8
      <4> QED
        BY <1>3, <4>1
    <3> QED
      BY <3>4, <3>8, <3>9
  <2> DEFINE g == [j \in Gone |-> CHOOSE k \in B : Left(j, k)]
  <2>2. \A j \in Gone : g[j] \in B /\ Left(j, g[j])
    <3> HIDE DEF Gone, B, Left
    <3> QED
      BY <2>1
  <2>3. g \in [Gone -> B]
    BY <2>2
  <2>4. ASSUME NEW j \in Gone, NEW k \in Gone, g[j] = g[k] PROVE j = k
    <3>1. j \in A /\ k \in A
      OBVIOUS
    <3>2. t[j].origin = t[k].origin /\ StayOf(t[j]).to = StayOf(t[k]).to
      <4> HIDE DEF g, Gone, t
      <4> QED
        BY <2>2, <2>4
    <3>3. /\ t[j] \in Enters /\ t[k] \in Enters
          /\ t[j].timestamp \in Int /\ t[k].timestamp \in Int
          /\ StayOf(t[j]).to \in Int /\ StayOf(t[k]).to \in Int
          /\ t[j].timestamp =< StayOf(t[j]).to /\ t[k].timestamp =< StayOf(t[k]).to
      BY <1>7, <3>1, StayFacts DEF HistoryInv
    <3>4. ~(t[j].timestamp < t[k].timestamp)
      <4>1. t[j].timestamp < t[k].timestamp => StayOf(t[j]).to < t[k].timestamp
        BY <3>2, <3>3, EntersApart
      <4> QED
        BY <3>2, <3>3, <4>1
    <3>5. ~(t[k].timestamp < t[j].timestamp)
      <4>1. t[k].timestamp < t[j].timestamp => StayOf(t[k]).to < t[j].timestamp
        BY <3>2, <3>3, EntersApart
      <4> QED
        BY <3>2, <3>3, <4>1
    <3>6. t[j].timestamp = t[k].timestamp
      BY <3>3, <3>4, <3>5
    <3>7. t[j] = t[k]
      BY <1>1, <1>7, <3>1, <3>2, <3>6 DEF HistoryInv, CrossingsInv
    <3> QED
      BY <1>2, <1>7, <3>1, <3>7
  <2> HIDE DEF Gone, B, g
  <2> QED
    BY <1>8, <2>3, <2>4, NoLarger
<1>11. Cardinality(A) =< Cardinality(There) + Cardinality(Gone) /\ Cardinality(A) \in Nat
  <2>1. A = There \cup Gone /\ There \cap Gone = {}
    OBVIOUS
  <2>2. There \in SUBSET A /\ Gone \in SUBSET A
    OBVIOUS
  <2>3. IsFiniteSet(There) /\ IsFiniteSet(Gone)
    BY <1>8, <2>2, FS_Subset
  <2> HIDE DEF There, Gone, A
  <2>4. Cardinality(A) = Cardinality(There) + Cardinality(Gone) - Cardinality({})
    BY <2>1, <2>3, FS_Union
  <2>5. Cardinality({}) = 0
    BY FS_EmptySet
  <2> QED
    BY <1>9, <1>10, <2>4, <2>5
<1>12. Inside(t, i) = Cardinality(A) - Cardinality(B)
  BY DEF Inside
<1>13. Inside(t, i) =< PeakOf(S)
  <2> HIDE DEF A, B, There, Gone, t
  <2> QED
    BY <1>8, <1>9, <1>10, <1>11, <1>12
<1> QED
  BY <1>13

LEMMA PeakIsAccounted ==
    ASSUME HistoryInv, NEW E \in SUBSET crossings, NEW S \in SUBSET Stays, Accounts(S, E)
    PROVE  PeakConcurrency(E) =< PeakOf(S) /\ PeakOf(S) \in Nat
<1>1. AreEvents(E, now) /\ now \in Int
  BY EventsOf
<1>2. PeakOf(S) \in Nat
  <2>1. IsStays(S)
    BY StaysAreStays, PeakOfMore DEF HistoryInv
  <2> QED
    BY <2>1, PeakIsAtAStart
<1>3. \/ PeakConcurrency(E) = 0
      \/ \E i \in 1 .. Cardinality(E) : PeakConcurrency(E) = Inside(Sorted(E), i)
  BY <1>1, PeakOfTimeline
<1> QED
  BY <1>2, <1>3, BalanceIsGrounded

\* The peak of a window is never above the visitors there really were, if no exit
\* is missing.
LEMMA PeakIsGrounded ==
    ASSUME HistoryInv, ~MissingExit, NEW w, w.start \in Int, w.end \in Int
    PROVE  PeakConcurrency(EventsIn(w)) =< PeakOf(StaysIn(w))
<1> DEFINE E == EventsIn(w)
<1>1. /\ E \in SUBSET crossings
      /\ \A e \in E : w.start =< e.timestamp /\ e.timestamp =< w.end
  BY EventsInFacts
<1>2. StaysIn(w) \in SUBSET Stays
  BY DEF StaysIn
<1>3. \A e \in crossings : e.timestamp \in Int /\ (e.event_type = "enter" => e \in Enters)
  BY EventFacts DEF HistoryInv, Enters, Of
<1>4. ASSUME NEW e \in E, e.event_type = "enter"
      PROVE  StayOf(e) \in StaysIn(w)
  <2>1. e \in Enters /\ e.timestamp \in Int
    BY <1>1, <1>3, <1>4
  <2>2. /\ StayOf(e) \in Stays /\ StayOf(e).from = e.timestamp
        /\ StayOf(e).to \in Int /\ StayOf(e).from =< StayOf(e).to
    BY <2>1, StayFacts DEF HistoryInv, Stays, Enters
  <2>3. StayOf(e).from =< w.end /\ w.start =< StayOf(e).to
    BY <1>1, <2>1, <2>2
  <2> QED
    BY <2>2, <2>3 DEF StaysIn
<1>5. ASSUME NEW e \in E, NEW y \in E, NEW x \in crossings, x.event_type = "exit",
             e.timestamp < x.timestamp, x.timestamp < y.timestamp
      PROVE  x \in E
  <2>1. x \in Accepted
    BY <1>5 DEF MissingExit
  <2>2. /\ e.timestamp \in Int /\ x.timestamp \in Int /\ y.timestamp \in Int
        /\ w.start =< e.timestamp /\ y.timestamp =< w.end
    BY <1>1, <1>3
  <2>3. w.start =< x.timestamp /\ x.timestamp =< w.end
    BY <1>5, <2>2
  <2> QED
    BY <2>1, <2>3 DEF EventsIn
<1> HIDE DEF E
<1>6. Accounts(StaysIn(w), E)
  <2>1. \A e \in E : e.event_type = "enter" => StayOf(e) \in StaysIn(w)
    BY <1>4
  <2>2. \A e, y \in E, x \in crossings :
           x.event_type = "exit" /\ e.timestamp < x.timestamp /\ x.timestamp < y.timestamp
               => x \in E
    BY <1>5
  <2> QED
    BY <2>1, <2>2 DEF Accounts
<1>7. PeakConcurrency(E) =< PeakOf(StaysIn(w))
  BY <1>1, <1>2, <1>6, PeakIsAccounted
<1> QED
  BY <1>7 DEF E

-----------------------------------------------------------------------------
(***************************************************************************)
(* The rows of the table, and the invariant.                               *)
(***************************************************************************)

\* What a row says that was measured or rolled up.
Labels == Range(LabelOf) \cup {Chain[k].to : k \in DOMAIN Chain}

RowRecord ==
    [granularity : Labels, start : Int, end : Int,
     avg : Fraction, peak : Nat, count : Nat]

Plausible(r) ==
    r.start < r.end /\ Within(r.avg, r.end - r.start) /\ r.peak =< r.count

GroundedRows ==
    {r \in RowRecord : Plausible(r) /\ (~blind => r.peak =< PeakOf(StaysIn(r)))}

RowsInv == rows \in Seq(GroundedRows)

MetricsInv == HistoryInv /\ RowsInv

LEMMA RowIsRecord ==
    ASSUME NEW label \in Labels, NEW m,
           m.start \in Int, m.end \in Int, m.avg \in Fraction, m.peak \in Nat, m.count \in Nat
    PROVE  /\ Row(label, m) \in RowRecord
           /\ Row(label, m).start = m.start /\ Row(label, m).end = m.end
           /\ Row(label, m).avg = m.avg /\ Row(label, m).peak = m.peak
           /\ Row(label, m).count = m.count
  BY DEF Row, RowRecord

\* StaysIn sees only when a window starts and ends.
LEMMA SameWindowSameStays ==
    ASSUME NEW w, NEW r, r.start = w.start, r.end = w.end
    PROVE  StaysIn(r) = StaysIn(w)
  BY DEF StaysIn

\* What execute() measures.
LEMMA MeasuredRow ==
    ASSUME HistoryInv, NEW size \in Nat \ {0}, size \in DOMAIN LabelOf,
           ~Raises(WindowAt(now, size))
    PROVE  LET r == Row(LabelOf[size], Metric(WindowAt(now, size)))
           IN  /\ r \in RowRecord /\ Plausible(r)
               /\ ~MissingExit => r.peak =< PeakOf(StaysIn(r))
<1> DEFINE w == WindowAt(now, size)
           m == Metric(w)
           r == Row(LabelOf[size], m)
<1>1. now \in Int
  BY EventFacts DEF HistoryInv
<1>2. w.start \in Int /\ w.end \in Int /\ w.start < w.end /\ w.start = now - size /\ w.end = now
  BY <1>1 DEF WindowAt
<1>3. /\ m.start = w.start /\ m.end = w.end
      /\ m.peak = PeakConcurrency(EventsIn(w))
      /\ m.count = Cardinality(Of(EventsIn(w), "enter"))
  BY DEF Metric
<1>4. LabelOf[size] \in Labels
  BY DEF Labels, Range
<1> HIDE DEF w, m
<1>5. ~Raises(w)
  BY DEF w
<1>6. m.avg \in Fraction /\ Within(m.avg, w.end - w.start)
  BY <1>2, <1>5, AverageWithin DEF m
<1>7. AreEvents(EventsIn(w), now)
  BY <1>2, EventsInFacts
<1>8. m.peak \in Nat /\ m.count \in Nat /\ m.peak =< m.count
  BY <1>1, <1>3, <1>7, PeakOfTimeline, PeakIsCounted
<1>9. /\ r \in RowRecord /\ r.start = m.start /\ r.end = m.end
      /\ r.avg = m.avg /\ r.peak = m.peak /\ r.count = m.count
  BY <1>2, <1>3, <1>4, <1>6, <1>8, RowIsRecord
<1> HIDE DEF r
<1>10. Plausible(r)
  BY <1>2, <1>3, <1>6, <1>8, <1>9 DEF Plausible
<1>11. ~MissingExit => r.peak =< PeakOf(StaysIn(r))
  <2>1. StaysIn(r) = StaysIn(w)
    BY <1>3, <1>9, SameWindowSameStays
  <2> QED
    BY <1>2, <1>3, <1>9, <2>1, PeakIsGrounded
<1> QED
  BY <1>9, <1>10, <1>11 DEF r, m, w

\* A window has room for the stays of each window in it.
LEMMA WiderWindow ==
    ASSUME HistoryInv, NEW w, NEW r, w.start \in Int, w.end \in Int,
           r.start \in Int, r.end \in Int, w.start =< r.start, r.end =< w.end
    PROVE  /\ PeakOf(StaysIn(r)) \in Nat /\ PeakOf(StaysIn(w)) \in Nat
           /\ PeakOf(StaysIn(r)) =< PeakOf(StaysIn(w))
<1>1. IsStays(Stays)
  BY StaysAreStays DEF HistoryInv
<1>2. StaysIn(w) \in SUBSET Stays
  BY DEF StaysIn
<1>3. IsStays(StaysIn(w))
  BY <1>1, <1>2, PeakOfMore
<1>4. StaysIn(r) \in SUBSET StaysIn(w)
  <2> SUFFICES ASSUME NEW s \in Stays, s.from =< r.end, r.start =< s.to
               PROVE  s.from =< w.end /\ w.start =< s.to
    BY DEF StaysIn
  <2>1. s.from \in Int /\ s.to \in Int
    BY <1>1 DEF IsStays
  <2> QED
    BY <2>1
<1>5. IsStays(StaysIn(r)) /\ PeakOf(StaysIn(r)) =< PeakOf(StaysIn(w))
  BY <1>3, <1>4, PeakOfMore
<1> QED
  BY <1>3, <1>5, PeakIsAtAStart

\* What fine rows of a window are rolled up to.
LEMMA RolledUpRow ==
    ASSUME HistoryInv, NEW w, w.start \in Int, w.end \in Int, w.start < w.end,
           NEW label \in Labels,
           NEW fine \in Seq({r \in GroundedRows : w.start =< r.start /\ r.end =< w.end}),
           fine # <<>>
    PROVE  Row(label, Rollup(fine, w)) \in GroundedRows
<1>1. PICK n \in Nat \ {0} : n = Len(fine) /\ DOMAIN fine = 1 .. n
  BY LenProperties, EmptySeq
<1>2. ASSUME NEW i \in 1 .. n
      PROVE  /\ fine[i] \in RowRecord /\ Plausible(fine[i])
             /\ ~blind => fine[i].peak =< PeakOf(StaysIn(fine[i]))
             /\ w.start =< fine[i].start /\ fine[i].end =< w.end
  <2>1. fine[i] \in {r \in GroundedRows : w.start =< r.start /\ r.end =< w.end}
    BY <1>1, ElementOfSeq
  <2> QED
    BY <2>1 DEF GroundedRows
<1>3. ASSUME NEW i \in 1 .. n
      PROVE  /\ fine[i].start \in Int /\ fine[i].end \in Int /\ fine[i].avg \in Fraction
             /\ fine[i].peak \in Nat /\ fine[i].count \in Nat
             /\ fine[i].start < fine[i].end /\ fine[i].peak =< fine[i].count
             /\ Within(fine[i].avg, fine[i].end - fine[i].start)
  BY <1>2 DEF RowRecord, Plausible
<1> DEFINE c == w.end - w.start
           counts == Counts(fine)
           ones == [i \in DOMAIN fine |-> 1]
<1>4. c \in Int
  OBVIOUS
<1>5. \A i \in 1 .. n : fine[i].avg \in Fraction /\ Within(fine[i].avg, c)
  <2> TAKE i \in 1 .. n
  <2>1. fine[i].end - fine[i].start =< c /\ fine[i].end - fine[i].start \in Int
    BY <1>2, <1>3
  <2> HIDE DEF c
  <2> QED
    BY <1>3, <1>4, <2>1, WithinMore
<1>6. counts \in [1 .. n -> Nat] /\ \A i \in 1 .. n : counts[i] = fine[i].count
  BY <1>1, <1>3 DEF Counts
<1>7. Total(counts) \in Nat /\ \A i \in 1 .. n : fine[i].count =< Total(counts)
  <2>1. Total(counts) \in Nat /\ \A i \in 1 .. n : counts[i] =< Total(counts)
    <3> HIDE DEF counts
    <3> QED
      BY <1>6, TotalAtLeast
  <2> HIDE DEF counts
  <2> QED
    BY <1>6, <2>1
<1>8. ones \in [1 .. n -> Nat] /\ Total(ones) # 0
  <2>1. ones \in [1 .. n -> Nat] /\ 1 \in 1 .. n
    BY <1>1
  <2>2. ones[1] = 1
    BY <1>1
  <2> HIDE DEF ones
  <2>3. ones[1] =< Total(ones) /\ Total(ones) \in Nat
    BY <2>1, TotalAtLeast
  <2> QED
    BY <2>1, <2>2, <2>3
<1>9. WeightedDwell(fine) \in Fraction /\ Within(WeightedDwell(fine), c)
  <2>1. CASE Total(counts) = 0
    <3>1. WeightedDwell(fine) = WeightedMean(fine, ones)
      BY <2>1 DEF WeightedDwell, TotalCount, MeanDwell
    <3> HIDE DEF c, ones
    <3> QED
      BY <1>1, <1>4, <1>5, <1>8, <3>1, MeanWithin
  <2>2. CASE Total(counts) # 0
    <3>1. WeightedDwell(fine) = WeightedMean(fine, counts)
      BY <2>2 DEF WeightedDwell, TotalCount
    <3> HIDE DEF c, counts
    <3> QED
      BY <1>1, <1>4, <1>5, <1>6, <2>2, <3>1, MeanWithin
  <2> QED
    BY <2>1, <2>2
<1>10. PICK most \in Int : most = Total(counts)
  BY <1>7
<1>16. \A i \in 1 .. n : fine[i].peak \in Int /\ fine[i].peak =< most
  <2> TAKE i \in 1 .. n
  <2>1. fine[i].peak \in Nat /\ fine[i].count \in Nat /\ fine[i].peak =< fine[i].count
    BY <1>3
  <2>2. fine[i].count =< most
    BY <1>7, <1>10
  <2> HIDE DEF counts
  <2> QED
    BY <2>1, <2>2
<1>11. PICK i \in 1 .. n : HighestPeak(fine) = fine[i].peak
  BY <1>1, <1>16, HighestOfRows
<1> DEFINE m == Rollup(fine, w)
           r == Row(label, m)
<1>12. /\ m.start = w.start /\ m.end = w.end /\ m.avg = WeightedDwell(fine)
       /\ m.peak = fine[i].peak /\ m.count = Total(counts)
  BY <1>11 DEF Rollup, TotalCount
<1> HIDE DEF m, counts
<1>13. /\ r \in RowRecord /\ r.start = w.start /\ r.end = w.end
       /\ r.avg = WeightedDwell(fine) /\ r.peak = fine[i].peak /\ r.count = Total(counts)
  <2>1. /\ m.start \in Int /\ m.end \in Int /\ m.avg \in Fraction
        /\ m.peak \in Nat /\ m.count \in Nat
    BY <1>3, <1>7, <1>9, <1>12
  <2> QED
    BY <1>12, <2>1, RowIsRecord
<1> HIDE DEF r
<1>14. Plausible(r)
  BY <1>3, <1>4, <1>7, <1>9, <1>13, SMTT(30) DEF Plausible
<1>15. ASSUME ~blind PROVE r.peak =< PeakOf(StaysIn(r))
  <2>1. StaysIn(r) = StaysIn(w)
    BY <1>13, SameWindowSameStays
  <2>2. /\ PeakOf(StaysIn(fine[i])) \in Nat /\ PeakOf(StaysIn(w)) \in Nat
        /\ PeakOf(StaysIn(fine[i])) =< PeakOf(StaysIn(w))
    BY <1>2, <1>3, WiderWindow
  <2> QED
    BY <1>2, <1>3, <1>13, <1>15, <2>1, <2>2
<1> QED
  BY <1>13, <1>14, <1>15 DEF GroundedRows, r, m

\* A run of the worker leaves a table of grounded rows, wherever it stops.
Runs == [table : Seq(GroundedRows), raised : BOOLEAN]

LEMMA LinkKeepsRuns ==
    ASSUME HistoryInv, NEW k \in DOMAIN Chain, NEW run \in Runs
    PROVE  Linked(run, Chain[k]) \in Runs
<1> DEFINE link == Chain[k]
           w == WindowAt(now, link.size)
           fine == Query(run.table, link.from, w)
<1>1. /\ run.table \in Seq(GroundedRows) /\ run.raised \in BOOLEAN
      /\ run = [table |-> run.table, raised |-> run.raised]
  BY DEF Runs
<1>2. link.size \in Nat \ {0} /\ link.to \in Labels
  <2>1. link \in Range(Chain) /\ link.to \in Labels
    BY DEF Range, Labels
  <2> QED
    BY <2>1, ChainAssumption
<1>3. now \in Int
  BY EventFacts DEF HistoryInv
<1>4. w.start \in Int /\ w.end \in Int /\ w.start < w.end
  BY <1>2, <1>3 DEF WindowAt
<1>5. fine \in Seq({r \in GroundedRows : w.start =< r.start /\ r.end =< w.end})
  <2> HIDE DEF w
  <2> QED
    BY <1>1, QueryFinds
<1>6. CASE run.raised \/ fine = <<>>
  <2>1. Linked(run, link) = [run EXCEPT !.raised = TRUE]
    BY <1>6 DEF Linked
  <2> QED
    BY <1>1, <2>1 DEF Runs
<1>7. CASE ~(run.raised \/ fine = <<>>)
  <2>1. Linked(run, link) =
            [run EXCEPT !.table = Append(run.table, Row(link.to, Rollup(fine, w)))]
    BY <1>1, <1>7 DEF Linked
  <2>2. Row(link.to, Rollup(fine, w)) \in GroundedRows
    <3> HIDE DEF w, fine, link
    <3> QED
      BY <1>2, <1>4, <1>5, <1>7, RolledUpRow
  <2>3. Append(run.table, Row(link.to, Rollup(fine, w))) \in Seq(GroundedRows)
    <3> HIDE DEF w, fine, link
    <3> QED
      BY <1>1, <2>2, AppendProperties
  <2> HIDE DEF w, fine, link
  <2> QED
    BY <1>1, <2>1, <2>3 DEF Runs, link
<1> QED
  BY <1>6, <1>7

LEMMA WorkerKeepsRows ==
    ASSUME MetricsInv
    PROVE  AfterLinks.table \in Seq(GroundedRows)
<1> DEFINE n == Len(Chain)
           V == Runs
           start == [table |-> rows, raised |-> FALSE]
           g == [x \in (1 .. n) \X V |-> Linked(x[2], Chain[x[1]])]
           IsAfter(f) == f = [k \in 0 .. n |-> IF k = 0 THEN start
                                               ELSE Linked(f[k - 1], Chain[k])]
<1>1. n \in Nat /\ DOMAIN Chain = 1 .. n
  BY ChainAssumption, LenProperties
<1>2. start \in V
  BY DEF MetricsInv, RowsInv, Runs
<1>3. \A k \in 1 .. n, run \in V : Linked(run, Chain[k]) \in V
  BY <1>1, LinkKeepsRuns DEF MetricsInv
<1>4. g \in [(1 .. n) \X V -> V]
  <2> HIDE DEF V, n
  <2> QED
    BY <1>3
<1>5. \E f : IsAfter(f)
  <2>1. PICK f : IsRun(f, V, start, g, n)
    <3> HIDE DEF V, g, n, start
    <3> QED
      BY <1>1, <1>2, <1>4, RecursionRuns
  <2>2. ASSUME NEW k \in 1 .. n PROVE f[k] = Linked(f[k - 1], Chain[k])
    <3> HIDE DEF V, n, start
    <3>1. <<k, f[k - 1]>> \in (1 .. n) \X V
      BY <1>1, <2>1 DEF IsRun
    <3> QED
      BY <2>1, <3>1 DEF IsRun
  <2> HIDE DEF V, g, n, start
  <2>3. \A k \in 0 .. n : f[k] = IF k = 0 THEN start ELSE Linked(f[k - 1], Chain[k])
    BY <1>1, <2>1, <2>2 DEF IsRun
  <2>4. f = [k \in 0 .. n |-> f[k]]
    BY <2>1 DEF IsRun
  <2>5. IsAfter(f)
    BY <2>3, <2>4
  <2> QED
    BY <2>5
<1> DEFINE f == CHOOSE f : IsAfter(f)
<1>6. IsAfter(f)
  BY <1>5
<1>7. AfterLinks = f[n]
  BY DEF AfterLinks
<1> HIDE DEF f, g, V, n, start
<1>8. f[0] = start /\ \A k \in 1 .. n : f[k] = Linked(f[k - 1], Chain[k])
  <2>1. \A k \in 0 .. n : f[k] = IF k = 0 THEN start ELSE Linked(f[k - 1], Chain[k])
    BY <1>6
  <2>2. n \in Nat
    BY <1>1
  <2>3. 0 \in 0 .. n
    BY <2>2
  <2>4. f[0] = start
    BY <2>1, <2>3
  <2>5. ASSUME NEW k \in 1 .. n PROVE f[k] = Linked(f[k - 1], Chain[k])
    <3>1. k \in 0 .. n /\ k # 0
      BY <2>2
    <3> QED
      BY <2>1, <3>1
  <2> QED
    BY <2>4, <2>5
<1> DEFINE bad == {k \in 0 .. n : f[k] \notin V}
<1>9. 0 \notin bad
  BY <1>2, <1>8
<1>10. ASSUME NEW k \in 1 .. n, k - 1 \notin bad PROVE k \notin bad
  <2>1. k - 1 \in 0 .. n
    BY <1>1
  <2>2. f[k - 1] \in V
    BY <1>10, <2>1
  <2>3. f[k] \in V
    BY <1>3, <1>8, <2>2
  <2> QED
    BY <2>3
<1>11. bad = {}
  <2>1. bad \in SUBSET (0 .. n)
    OBVIOUS
  <2> HIDE DEF bad
  <2> QED
    BY <1>1, <1>9, <1>10, <2>1, NoneBad
<1>12. n \in 0 .. n
  BY <1>1
<1>13. AfterLinks \in Runs
  BY <1>7, <1>11, <1>12 DEF V
<1> QED
  BY <1>13 DEF Runs

\* What is measured and rolled up only watches the events: every step is one of
\* the ingestion, or leaves it alone.
LEMMA NextWatches == [Next]_vars => [IngestNext]_ingestVars
  BY DEF Next, vars, IngestNext, ingestVars, Aggregate, RunWorker

THEOREM MetricsWatchIngest == Spec => IngestSpec
<1>1. Init => IngestInit
  BY DEF Init
<1> QED
  BY <1>1, NextWatches, PTL DEF Spec, IngestSpec

LEMMA HistoryStep ==
    ASSUME HistoryInv, [IngestNext]_ingestVars
    PROVE  HistoryInv'
  BY TypeStep, CrossingsStep DEF HistoryInv

\* What grounds a row stays there: peaks of the past only rise.
LEMMA GroundStays ==
    ASSUME HistoryInv, [IngestNext]_ingestVars, ~blind' => ~blind
    PROVE  GroundedRows \subseteq GroundedRows'
<1>1. HistoryInv'
  BY HistoryStep
<1> SUFFICES ASSUME NEW r \in RowRecord, Plausible(r),
                    ~blind => r.peak =< PeakOf(StaysIn(r)), ~blind'
             PROVE  r.peak =< PeakOf(StaysIn(r))'
  BY DEF GroundedRows, RowRecord, Labels, Plausible, Within, Fraction
<1>2. r.start \in Int /\ r.end \in Int /\ r.peak \in Nat
  BY DEF RowRecord
<1>3. /\ PeakOf(StaysIn(r)) \in Nat /\ PeakOf(StaysIn(r))' \in Nat
      /\ PeakOf(StaysIn(r)) =< PeakOf(StaysIn(r))'
  BY <1>1, <1>2, PeaksRise DEF HistoryInv
<1>4. r.peak =< PeakOf(StaysIn(r))
  OBVIOUS
<1> QED
  BY <1>2, <1>3, <1>4

\* execute() saves the windows before the first that raises.
LEMMA SavedAreGrounded ==
    ASSUME HistoryInv, UNCHANGED ingestVars, blind' = (blind \/ MissingExit),
           NEW call \in Calls
    PROVE  SavedBy(call.sizes) \in Seq(GroundedRows')
<1> DEFINE sizes == call.sizes
           n == Len(sizes)
           Bad(i) == Raises(WindowAt(now, sizes[i]))
           saved == {i \in DOMAIN sizes : \A j \in 1 .. i : ~Bad(j)}
           Saving(i) == Row(LabelOf[sizes[i]], Metric(WindowAt(now, sizes[i])))
<1>1. /\ n \in Nat /\ DOMAIN sizes = 1 .. n
      /\ \A i \in 1 .. n : sizes[i] \in Nat \ {0} /\ sizes[i] \in DOMAIN LabelOf
  <2> DEFINE S == {size \in DOMAIN LabelOf : size \in Nat \ {0}}
  <2>1. sizes \in Seq(S)
    BY CallsAssumption
  <2>2. \A x \in S : x \in Nat \ {0} /\ x \in DOMAIN LabelOf
    OBVIOUS
  <2> HIDE DEF S
  <2> QED
    BY <2>1, <2>2, LenProperties, ElementOfSeq
<1>2. SavedBy(sizes) = [i \in saved |-> Saving(i)]
  BY DEF SavedBy
<1> HIDE DEF Saving, Bad, n, sizes
<1>3. PICK k \in Nat : saved = 1 .. k /\ k =< n
  <2> DEFINE T == {i \in 1 .. n : Bad(i)}
  <2>1. CASE T = {}
    <3>1. saved = 1 .. n
      BY <1>1, <2>1
    <3> QED
      BY <1>1, <3>1
  <2>2. CASE T # {}
    <3>1. T \in SUBSET Nat
      BY <1>1
    <3>2. PICK m \in T : \A i \in T : m =< i
      <4> HIDE DEF T
      <4> QED
        BY <2>2, <3>1, LeastNatural
    <3>3. m \in 1 .. n /\ Bad(m) /\ m - 1 \in Nat /\ m - 1 =< n
      BY <1>1, <3>2
    <3>4. \A j \in 1 .. m - 1 : j \in 1 .. n /\ ~Bad(j)
      BY <1>1, <3>2, <3>3
    <3>5. \A i \in saved : i \in 1 .. m - 1
      <4> TAKE i \in saved
      <4>1. i \in 1 .. n /\ (m \in 1 .. i => ~Bad(m))
        BY <1>1
      <4>2. m \notin 1 .. i
        BY <3>3, <4>1
      <4> QED
        BY <1>1, <3>3, <4>1, <4>2
    <3>6. \A i \in 1 .. m - 1 : i \in saved
      <4> TAKE i \in 1 .. m - 1
      <4>1. \A j \in 1 .. i : j \in 1 .. m - 1
        BY <3>3
      <4> QED
        BY <1>1, <3>4, <4>1
    <3>7. saved = 1 .. m - 1
      BY <3>5, <3>6
    <3> QED
      BY <3>3, <3>7
  <2> QED
    BY <2>1, <2>2
<1>4. ASSUME NEW i \in 1 .. k PROVE Saving(i) \in GroundedRows'
  <2>1. i \in saved /\ i \in 1 .. n
    BY <1>1, <1>3
  <2>2. ~Bad(i)
    <3>1. i \in 1 .. i
      BY <1>3
    <3> QED
      BY <2>1, <3>1
  <2>0. PICK r : r = Saving(i)
    OBVIOUS
  <2>3. /\ r \in RowRecord /\ Plausible(r)
        /\ ~MissingExit => r.peak =< PeakOf(StaysIn(r))
    BY <1>1, <2>0, <2>1, <2>2, MeasuredRow DEF Bad, Saving
  <2>4. PeakOf(StaysIn(r))' = PeakOf(StaysIn(r))
    BY DEF ingestVars, PeakOf, Together, StaysIn, Stays, StayOf, ExitsAfter, Past, Of
  <2>5. ~blind' => r.peak =< PeakOf(StaysIn(r))'
    BY <2>3, <2>4
  <2>6. r \in GroundedRows'
    BY <2>3, <2>5 DEF GroundedRows, RowRecord, Labels, Plausible, Within, Fraction
  <2> QED
    BY <2>0, <2>6
<1>5. [i \in 1 .. k |-> Saving(i)] \in Seq(GroundedRows')
  <2>1. [i \in 1 .. k |-> Saving(i)] \in [1 .. k -> GroundedRows']
    BY <1>4
  <2> QED
    BY <1>3, <2>1, IsASeq
<1> HIDE DEF saved
<1> QED
  BY <1>2, <1>3, <1>5 DEF sizes

LEMMA MetricsStart == Init => MetricsInv
<1> SUFFICES ASSUME Init PROVE MetricsInv
  OBVIOUS
<1>1. IngestTypeOK /\ CrossingsInv /\ EventsHappened
  BY InvariantStarts, CrossingsStart DEF Init, IngestInv
<1>2. rows \in Seq(GroundedRows)
  BY DEF Init
<1> QED
  BY <1>1, <1>2 DEF MetricsInv, HistoryInv, RowsInv

LEMMA MetricsStep == MetricsInv /\ [Next]_vars => MetricsInv'
<1> SUFFICES ASSUME MetricsInv, [Next]_vars PROVE MetricsInv'
  OBVIOUS
<1>1. HistoryInv /\ rows \in Seq(GroundedRows) /\ [IngestNext]_ingestVars
  BY NextWatches DEF MetricsInv, RowsInv
<1>2. HistoryInv'
  BY <1>1, HistoryStep
<1>3. CASE UNCHANGED metricVars
  <2>1. GroundedRows \subseteq GroundedRows'
    BY <1>1, <1>3, GroundStays DEF metricVars
  <2>2. rows \in Seq(GroundedRows')
    BY <1>1, <2>1, SeqOfMore
  <2> QED
    BY <1>2, <1>3, <2>2 DEF metricVars, MetricsInv, RowsInv
<1>4. ASSUME NEW call \in Calls, Aggregate(call.sizes)
      PROVE  MetricsInv'
  <2>1. /\ UNCHANGED ingestVars /\ blind' = (blind \/ MissingExit)
        /\ rows' = rows \o SavedBy(call.sizes)
    BY <1>4 DEF Aggregate
  <2>2. GroundedRows \subseteq GroundedRows'
    <3>1. ~blind' => ~blind
      BY <2>1
    <3> QED
      BY <1>1, <3>1, GroundStays
  <2>3. rows \in Seq(GroundedRows')
    BY <1>1, <2>2, SeqOfMore
  <2>4. SavedBy(call.sizes) \in Seq(GroundedRows')
    BY <1>1, <2>1, SavedAreGrounded
  <2>5. rows \o SavedBy(call.sizes) \in Seq(GroundedRows')
    BY <2>3, <2>4, ConcatProperties
  <2> QED
    BY <1>2, <2>1, <2>5 DEF MetricsInv, RowsInv
<1>5. CASE RunWorker
  <2>1. UNCHANGED ingestVars /\ blind' = blind /\ rows' = AfterLinks.table
    BY <1>5 DEF RunWorker
  <2>2. GroundedRows \subseteq GroundedRows'
    BY <1>1, <2>1, GroundStays
  <2>3. AfterLinks.table \in Seq(GroundedRows)
    BY WorkerKeepsRows
  <2>4. AfterLinks.table \in Seq(GroundedRows')
    BY <2>2, <2>3, SeqOfMore
  <2> QED
    BY <1>2, <2>1, <2>4 DEF MetricsInv, RowsInv
<1> QED
  BY <1>3, <1>4, <1>5 DEF Next, vars

\* The inductive invariant holds in every reachable state.
THEOREM MetricsInvAlways == Spec => []MetricsInv
  BY MetricsStart, MetricsStep, PTL DEF Spec

\* Whatever was measured and rolled up, whenever and of whatever granularity, an
\* average lies between nothing and the window's length, and a peak is never
\* above the visitors there really were, if no exit was missing.
THEOREM RowsAreGroundedAlways == Spec => []RowsAreGrounded
<1>1. MetricsInv => RowsAreGrounded
  <2> SUFFICES ASSUME rows \in Seq(GroundedRows), NEW r \in ToSet(rows)
               PROVE  /\ 0 =< r.avg.num /\ r.avg.num =< (r.end - r.start) * r.avg.den
                      /\ r.peak =< r.count
                      /\ ~blind => r.peak =< PeakOf(StaysIn(r))
    BY DEF MetricsInv, RowsInv, RowsAreGrounded
  <2>1. PICK i \in DOMAIN rows : r = rows[i]
    BY DEF ToSet
  <2>2. r \in GroundedRows
    BY <2>1, ElementOfSeq, LenProperties
  <2> QED
    BY <2>2 DEF GroundedRows, Plausible, Within
<1> QED
  BY <1>1, MetricsInvAlways, PTL

\* The debounce filter keeps its pace whatever is measured.
THEOREM DebounceKeepsPaceInPipeline == Spec => []DebounceKeepsPace
  BY MetricsWatchIngest, DebounceKeepsPaceAlways, PTL

-----------------------------------------------------------------------------
(***************************************************************************)
(* Windows of whole stays.                                                 *)
(***************************************************************************)

\* The crossings at both ends of a stay, and of stays.
EnterOf(s) == CHOOSE e \in crossings : e.origin = s.origin /\ e.timestamp = s.from

ExitOf(s) == CHOOSE e \in crossings : e.origin = s.origin /\ e.timestamp = s.to

EndsOf(S) == {EnterOf(s) : s \in S} \cup {ExitOf(s) : s \in S}

LEMMA EndsOfStay ==
    ASSUME HistoryInv, NEW s \in CompleteStays
    PROVE  /\ s \in Stays /\ s.from \in Int /\ s.to \in Int /\ s.from < s.to
           /\ EnterOf(s) \in Enters /\ EnterOf(s) \in crossings /\ StayOf(EnterOf(s)) = s
           /\ EnterOf(s).event_type = "enter" /\ EnterOf(s).origin = s.origin
           /\ EnterOf(s).timestamp = s.from
           /\ ExitOf(s) \in crossings /\ ExitOf(s).event_type = "exit"
           /\ ExitOf(s).origin = s.origin /\ ExitOf(s).timestamp = s.to
           /\ {e \in Past(s.origin) : e.timestamp \in {s.from, s.to}} = EndsOf({s})
<1>1. PICK d \in Enters : s = StayOf(d) /\ ExitsAfter(d) # {}
  BY DEF CompleteStays, Enters
<1>2. /\ d \in crossings /\ d.event_type = "enter" /\ d.timestamp \in Int
      /\ \A e \in crossings : e.timestamp \in Int
  BY EventFacts DEF HistoryInv
<1>3. s.origin = d.origin /\ s.from = d.timestamp /\ s.to \in Int
  BY <1>1, StayFacts DEF HistoryInv
<1>4. PICK g \in crossings :
         /\ g.event_type = "exit" /\ g.origin = d.origin
         /\ d.timestamp < g.timestamp /\ g.timestamp = s.to
  BY <1>1, EndOfStay DEF HistoryInv
<1>5. \A e, f \in crossings : e.origin = f.origin /\ e.timestamp = f.timestamp => e = f
  BY DEF HistoryInv, CrossingsInv
<1>6. EnterOf(s) = d
  BY <1>2, <1>3, <1>5 DEF EnterOf
<1>7. ExitOf(s) = g
  BY <1>3, <1>4, <1>5 DEF ExitOf
<1>8. {e \in Past(s.origin) : e.timestamp \in {s.from, s.to}} = {d, g}
  <2>1. \A e \in crossings : e.origin = s.origin /\ e.timestamp = s.from => e = d
    BY <1>2, <1>3, <1>5
  <2>2. \A e \in crossings : e.origin = s.origin /\ e.timestamp = s.to => e = g
    BY <1>3, <1>4, <1>5
  <2> QED
    BY <1>2, <1>3, <1>4, <2>1, <2>2 DEF Past
<1>9. EndsOf({s}) = {d, g}
  BY <1>6, <1>7 DEF EndsOf
<1>10. s \in Stays
  BY <1>1 DEF Stays, Enters
<1> QED
  BY <1>1, <1>2, <1>3, <1>4, <1>6, <1>7, <1>8, <1>9, <1>10

\* Two stays do not start with one crossing, nor end with one.
LEMMA EndsTellStays ==
    ASSUME HistoryInv, NEW s \in CompleteStays, NEW z \in CompleteStays,
           EnterOf(s) = EnterOf(z) \/ ExitOf(s) = ExitOf(z)
    PROVE  s = z
<1>1. CASE EnterOf(s) = EnterOf(z)
  BY <1>1, EndsOfStay
<1>2. CASE ExitOf(s) = ExitOf(z)
  <2>5. /\ EnterOf(s) \in Enters /\ StayOf(EnterOf(s)) = s
        /\ EnterOf(s).timestamp = s.from /\ EnterOf(s).origin = s.origin
        /\ s.from \in Int /\ s.to \in Int /\ s.from < s.to /\ s \in Stays
        /\ ExitOf(s).origin = s.origin /\ ExitOf(s).timestamp = s.to
    BY EndsOfStay
  <2>6. /\ EnterOf(z) \in Enters /\ StayOf(EnterOf(z)) = z
        /\ EnterOf(z).timestamp = z.from /\ EnterOf(z).origin = z.origin
        /\ z.from \in Int /\ z.to \in Int /\ z.from < z.to /\ z \in Stays
        /\ ExitOf(z).origin = z.origin /\ ExitOf(z).timestamp = z.to
    BY EndsOfStay
  <2>1. /\ EnterOf(s) \in Enters /\ EnterOf(z) \in Enters
        /\ EnterOf(s).origin = EnterOf(z).origin
        /\ StayOf(EnterOf(s)) = s /\ StayOf(EnterOf(z)) = z
        /\ EnterOf(s).timestamp = s.from /\ EnterOf(z).timestamp = z.from
        /\ s.from \in Int /\ z.from \in Int /\ s.to = z.to /\ s.to \in Int
        /\ s.from < s.to /\ z.from < z.to
        /\ s \in Stays /\ z \in Stays /\ s.origin = z.origin
    BY <1>2, <2>5, <2>6
  <2>2. ~(s.from < z.from)
    <3>1. s.from < z.from => s.to < z.from
      BY <2>1, EntersApart
    <3> QED
      BY <2>1, <3>1
  <2>3. ~(z.from < s.from)
    <3>1. z.from < s.from => z.to < s.from
      BY <2>1, EntersApart
    <3> QED
      BY <2>1, <3>1
  <2>4. s.from = z.from
    BY <2>1, <2>2, <2>3
  <2> QED
    BY <2>1, <2>4, StaysAreStays DEF HistoryInv
<1> QED
  BY <1>1, <1>2

\* The events at the ends of stays.
LEMMA EndsFacts ==
    ASSUME HistoryInv, NEW S \in SUBSET CompleteStays
    PROVE  /\ S \in SUBSET Stays /\ IsStays(S)
           /\ EndsOf(S) \in SUBSET crossings
           /\ Of(EndsOf(S), "enter") = {EnterOf(s) : s \in S}
           /\ Of(EndsOf(S), "exit") = {ExitOf(s) : s \in S}
<1>1. S \in SUBSET Stays
  BY EndsOfStay
<1>2. IsStays(S)
  BY <1>1, StaysAreStays, PeakOfMore DEF HistoryInv
<1>3. \A s \in S : /\ EnterOf(s) \in crossings /\ EnterOf(s).event_type = "enter"
                   /\ ExitOf(s) \in crossings /\ ExitOf(s).event_type = "exit"
  BY EndsOfStay
<1> QED
  BY <1>1, <1>2, <1>3 DEF EndsOf, Of

\* Each stay of S has its own event of P, and P has no other.
OneEach(S, P, at) ==
    /\ P \in SUBSET crossings /\ at \in [S -> P]
    /\ \A e \in P : \E s \in S : e = at[s]
    /\ \A s, z \in S : at[s] = at[z] => s = z

\* The numbers of x are those of y, in another order.
Rearranged(k, x, y) == \E r : Arranges(k, x, y, r)

\* Sorted entries, or exits, are the entries, or exits, of the stays in an order
\* of their own.
LEMMA EndsRearranged ==
    ASSUME HistoryInv, NEW S \in SUBSET CompleteStays, NEW each, NEW k, Lists(each, S, k),
           NEW P, NEW at, OneEach(S, P, at)
    PROVE  /\ Sorted(P) \in [1 .. k -> P] /\ Cardinality(P) = k
           /\ Rearranged(k, [i \in 1 .. k |-> Sorted(P)[i].timestamp],
                            [i \in 1 .. k |-> at[each[i]].timestamp])
<1>0. /\ P \in SUBSET crossings /\ at \in [S -> P]
      /\ \A e \in P : \E s \in S : e = at[s]
      /\ \A s, z \in S : at[s] = at[z] => s = z
  BY DEF OneEach
<1> DEFINE t == Sorted(P)
<1>1. AreEvents(P, now) /\ now \in Int
  BY <1>0, EventsOf
<1>2. k \in Nat /\ k = Cardinality(S) /\ IsFiniteSet(S)
  BY EndsFacts DEF Lists, IsStays
<1>3. Cardinality(P) = k
  <2>1. at \in Injection(S, P) /\ at \in Surjection(S, P)
    BY <1>0 DEF Injection, Surjection, IsInjective
  <2>2. IsFiniteSet(P)
    BY <1>1 DEF AreEvents
  <2> QED
    BY <1>2, <2>1, <2>2, FS_Injection
<1>4. /\ t \in [1 .. k -> P]
      /\ \A e \in P : \E j \in 1 .. k : t[j] = e
  BY <1>1, <1>3, SortedFacts
<1> HIDE DEF t
<1>5. \A e \in crossings : e.timestamp \in Int
  BY EventFacts DEF HistoryInv
<1>6. /\ \A i \in 1 .. k : each[i] \in S
      /\ \A i, j \in 1 .. k : each[i] = each[j] => i = j
  BY DEF Lists
<1> DEFINE r == [i \in 1 .. k |-> CHOOSE j \in 1 .. k : t[j] = at[each[i]]]
           x == [i \in 1 .. k |-> t[i].timestamp]
           y == [i \in 1 .. k |-> at[each[i]].timestamp]
<1>7. \A i \in 1 .. k : r[i] \in 1 .. k /\ t[r[i]] = at[each[i]]
  <2> TAKE i \in 1 .. k
  <2>1. at[each[i]] \in P
    BY <1>0, <1>6
  <2>2. \E j \in 1 .. k : t[j] = at[each[i]]
    BY <1>4, <2>1
  <2> QED
    BY <2>2
<1>8. r \in [1 .. k -> 1 .. k]
  BY <1>7
<1>9. \A i, j \in 1 .. k : r[i] = r[j] => i = j
  <2> HIDE DEF r
  <2> QED
    BY <1>0, <1>6, <1>7
<1>10. x \in [1 .. k -> Int] /\ y \in [1 .. k -> Int]
  BY <1>0, <1>4, <1>5, <1>6
<1>11. \A i \in 1 .. k : y[i] = x[r[i]]
  <2> TAKE i \in 1 .. k
  <2>1. r[i] \in 1 .. k /\ t[r[i]] = at[each[i]]
    BY <1>7
  <2> HIDE DEF r
  <2> QED
    BY <2>1
<1>12. Arranges(k, x, y, r)
  <2> HIDE DEF x, y, r
  <2> QED
    BY <1>8, <1>9, <1>10, <1>11 DEF Arranges
<1> QED
  BY <1>3, <1>4, <1>12 DEF t, Rearranged

\* So the durations, whoever they pair, add up to those of the stays.
LEMMA DwellOfEnds ==
    ASSUME HistoryInv, NEW S \in SUBSET CompleteStays, NEW each, NEW k, Lists(each, S, k)
    PROVE  /\ Len(Durations(EndsOf(S))) = k
           /\ Cardinality(Of(EndsOf(S), "enter")) = k
           /\ DwellSum(EndsOf(S)) = Total([i \in 1 .. k |-> each[i].to - each[i].from])
           /\ DwellSum(EndsOf(S)) \in Int
<1> DEFINE N == {EnterOf(s) : s \in S}
           X == {ExitOf(s) : s \in S}
           enter == [s \in S |-> EnterOf(s)]
           exit == [s \in S |-> ExitOf(s)]
<1>1. \A s \in S : /\ EnterOf(s) \in crossings /\ EnterOf(s).timestamp = s.from
                   /\ ExitOf(s) \in crossings /\ ExitOf(s).timestamp = s.to
                   /\ s.from \in Int /\ s.to \in Int
  BY EndsOfStay
<1>2. \A s, z \in S : EnterOf(s) = EnterOf(z) \/ ExitOf(s) = ExitOf(z) => s = z
  BY EndsTellStays
<1>3. OneEach(S, N, enter)
  BY <1>1, <1>2 DEF OneEach
<1>4. OneEach(S, X, exit)
  BY <1>1, <1>2 DEF OneEach
<1>5. Of(EndsOf(S), "enter") = N /\ Of(EndsOf(S), "exit") = X
  BY EndsFacts
<1>6. /\ k \in Nat /\ \A i \in 1 .. k : each[i] \in S
  BY DEF Lists
<1> DEFINE a == [i \in 1 .. k |-> Sorted(N)[i].timestamp]
           b == [i \in 1 .. k |-> Sorted(X)[i].timestamp]
           froms == [i \in 1 .. k |-> enter[each[i]].timestamp]
           tos == [i \in 1 .. k |-> exit[each[i]].timestamp]
           d == [i \in 1 .. k |-> Sorted(X)[i].timestamp - Sorted(N)[i].timestamp]
           l == [i \in 1 .. k |-> each[i].to - each[i].from]
<1>7. /\ Sorted(N) \in [1 .. k -> N] /\ Cardinality(N) = k
      /\ Rearranged(k, a, froms)
  <2> HIDE DEF N, enter
  <2> QED
    BY <1>3, EndsRearranged
<1>8. /\ Sorted(X) \in [1 .. k -> X] /\ Rearranged(k, b, tos)
  <2> HIDE DEF X, exit
  <2> QED
    BY <1>4, EndsRearranged
<1>9. froms \in [1 .. k -> Int] /\ tos \in [1 .. k -> Int]
      /\ a \in [1 .. k -> Int] /\ b \in [1 .. k -> Int]
  <2> HIDE DEF froms, tos, a, b
  <2> QED
    BY <1>7, <1>8 DEF Rearranged, Arranges
<1>10. Total(a) = Total(froms) /\ Total(b) = Total(tos)
  <2> HIDE DEF froms, tos, a, b
  <2> QED
    BY <1>6, <1>7, <1>8, TotalRearranged DEF Rearranged
<1>11. Durations(EndsOf(S)) = d
  <2>1. DOMAIN Sorted(N) \cap DOMAIN Sorted(X) = 1 .. k
    BY <1>7, <1>8
  <2> HIDE DEF N, X
  <2> QED
    BY <1>5, <2>1 DEF Durations
<1>12. d \in [1 .. k -> Int] /\ \A i \in 1 .. k : d[i] = b[i] - a[i]
  <2>1. \A i \in 1 .. k : a[i] \in Int /\ b[i] \in Int
    <3> HIDE DEF a, b
    <3> QED
      BY <1>9
  <2>2. \A i \in 1 .. k : /\ Sorted(N)[i].timestamp = a[i]
                          /\ Sorted(X)[i].timestamp = b[i]
    OBVIOUS
  <2> HIDE DEF a, b, N, X
  <2> QED
    BY <2>1, <2>2
<1>13. l \in [1 .. k -> Int] /\ \A i \in 1 .. k : l[i] = tos[i] - froms[i]
  BY <1>1, <1>6
<1>14. Total(d) = Total(b) - Total(a)
  <2>1. k \in Nat /\ a \in [1 .. k -> Int] /\ b \in [1 .. k -> Int]
    BY <1>6, <1>9
  <2>2. PICK u \in [1 .. k -> Int] : u = d /\ \A i \in 1 .. k : u[i] = b[i] - a[i]
    BY <1>12
  <2> HIDE DEF a, b, d, N, X, enter, exit, froms, tos, l
  <2>3. Total(u) = Total(b) - Total(a)
    BY <2>1, <2>2, TotalOfDifferences
  <2> QED
    BY <2>2, <2>3
<1>15. Total(l) = Total(tos) - Total(froms)
  <2> HIDE DEF tos, froms, l
  <2> QED
    BY <1>6, <1>9, <1>13, TotalOfDifferences
<1>16. Len(d) = k
  BY <1>6, LenProperties
<1>17. Total(d) \in Int
  <2>1. \E f : Sums(f, d, k) /\ Total(d) = f[k]
    <3> HIDE DEF d
    <3> QED
      BY <1>6, <1>12, TotalIsLastSum
  <2> HIDE DEF d
  <2> QED
    BY <1>6, <2>1 DEF Sums
<1> HIDE DEF a, b, d, l, froms, tos, N
<1> QED
  BY <1>5, <1>7, <1>10, <1>11, <1>14, <1>15, <1>16, <1>17 DEF DwellSum, l

\* Some stays account for the crossings at their ends.
LEMMA EndsAreAccounted ==
    ASSUME HistoryInv, NEW S \in SUBSET CompleteStays
    PROVE  Accounts(S, EndsOf(S))
<1>1. ASSUME NEW e \in EndsOf(S), e.event_type = "enter"
      PROVE  StayOf(e) \in S /\ ExitOf(StayOf(e)) \in EndsOf(S)
             /\ StayOf(e).origin = e.origin
  <2>1. e \in Of(EndsOf(S), "enter")
    BY <1>1 DEF Of
  <2>2. PICK s \in S : e = EnterOf(s)
    BY <2>1, EndsFacts
  <2>3. StayOf(EnterOf(s)) = s /\ EnterOf(s).origin = s.origin
    BY EndsOfStay
  <2> QED
    BY <2>2, <2>3 DEF EndsOf
<1>2. ASSUME NEW e \in EndsOf(S), e.event_type = "enter",
             NEW x \in crossings, x.event_type = "exit", x.origin = e.origin,
             x.timestamp = StayOf(e).to
      PROVE  x \in EndsOf(S)
  <2>1. PICK s \in S : s = StayOf(e) /\ s.origin = e.origin /\ ExitOf(s) \in EndsOf(S)
    BY <1>1, <1>2
  <2>2. /\ ExitOf(s) \in crossings /\ ExitOf(s).origin = s.origin
        /\ ExitOf(s).timestamp = s.to
    BY EndsOfStay
  <2>3. \A f, g \in crossings : f.origin = g.origin /\ f.timestamp = g.timestamp => f = g
    BY DEF HistoryInv, CrossingsInv
  <2>4. x = ExitOf(s)
    BY <1>2, <2>1, <2>2, <2>3
  <2> QED
    BY <2>1, <2>4
<1> QED
  BY <1>1, <1>2 DEF Accounts

\* At the last entry of a time, all are inside who were there at that time: those
\* who came since are further down the timeline, and who left by then has left
\* before.
LEMMA BalanceIsReached ==
    ASSUME HistoryInv, NEW S \in SUBSET CompleteStays, NEW z \in S
    PROVE  \E i \in 1 .. Cardinality(EndsOf(S)) :
              Together(S, z.from) =< Inside(Sorted(EndsOf(S)), i)
<1> DEFINE E == EndsOf(S)
           t == Sorted(E)
           at == z.from
<1>1. /\ E \in SUBSET crossings /\ AreEvents(E, now) /\ now \in Int
      /\ IsStays(S)
  BY EndsFacts, EventsOf
<1>2. PICK n \in Nat : n = Cardinality(E)
  BY <1>1, FS_CardinalityType DEF AreEvents
<1>3. /\ t \in [1 .. n -> E]
      /\ \A j, k \in 1 .. n : j < k => Before(t[j], t[k])
      /\ \A j, k \in 1 .. n : t[j] = t[k] => j = k
      /\ \A e \in E : \E j \in 1 .. n : t[j] = e
  BY <1>1, <1>2, SortedFacts
<1>4. \A s \in S : /\ EnterOf(s) \in E /\ EnterOf(s).event_type = "enter"
                   /\ EnterOf(s).timestamp = s.from
                   /\ s.from \in Int /\ s.to \in Int /\ s.from < s.to
  BY EndsOfStay DEF EndsOf
<1>5. \A s \in S : /\ ExitOf(s).event_type = "exit" /\ ExitOf(s).timestamp = s.to
  BY EndsOfStay
<1>6. \A e \in E : e.timestamp \in Int
  BY <1>1 DEF AreEvents
<1>7. \A e \in E : e.event_type = "exit" => \E s \in S : e = ExitOf(s)
  <2> TAKE e \in E
  <2>1. e.event_type = "exit" => e \in Of(E, "exit")
    BY DEF Of
  <2> QED
    BY <2>1, EndsFacts
<1>8. \A s, y \in S : EnterOf(s) = EnterOf(y) \/ ExitOf(s) = ExitOf(y) => s = y
  BY EndsTellStays
<1> DEFINE P == {j \in 1 .. n : t[j].event_type = "enter" /\ t[j].timestamp = at}
<1> HIDE DEF t, E
<1>9. PICK i \in P : \A j \in P : j =< i
  <2>1. PICK j \in 1 .. n : t[j] = EnterOf(z)
    BY <1>3, <1>4
  <2>2. j \in P
    BY <1>4, <2>1
  <2>3. P \in SUBSET Int /\ P # {} /\ \A k \in P : k =< n
    BY <2>2
  <2> HIDE DEF P
  <2>4. n \in Int /\ P \in SUBSET Int /\ P # {}
    BY <2>3
  <2>5. \A k \in P : k =< n
    BY <2>3
  <2>6. Max(P) \in P /\ \A k \in P : k =< Max(P)
    BY <2>4, <2>5, GreatestOf
  <2> QED
    BY <2>6
<1>10. i \in 1 .. n /\ t[i].event_type = "enter" /\ t[i].timestamp = at /\ at \in Int
  BY <1>4
<1> DEFINE A == {j \in 1 .. i : t[j].event_type = "enter"}
           B == {j \in 1 .. i : t[j].event_type = "exit"}
           Early == {s \in S : s.from =< at}
           U == {s \in S : s.from =< at /\ at =< s.to}
           L == {s \in S : s.from =< at /\ ~(at =< s.to)}
<1>11. IsFiniteSet(A) /\ IsFiniteSet(B) /\ IsFiniteSet(Early) /\ IsFiniteSet(U) /\ IsFiniteSet(L)
  <2>1. A \in SUBSET (1 .. i) /\ B \in SUBSET (1 .. i) /\ IsFiniteSet(1 .. i)
    BY <1>10, Positions
  <2>2. Early \in SUBSET S /\ U \in SUBSET S /\ L \in SUBSET S /\ IsFiniteSet(S)
    BY <1>1 DEF IsStays
  <2> HIDE DEF A, B, Early, U, L
  <2> QED
    BY <2>1, <2>2, FS_Subset
<1>12. /\ Cardinality(A) \in Nat /\ Cardinality(B) \in Nat /\ Cardinality(Early) \in Nat
       /\ Cardinality(U) \in Nat /\ Cardinality(L) \in Nat
  <2> HIDE DEF A, B, Early, U, L
  <2> QED
    BY <1>11, FS_CardinalityType
<1>13. Cardinality(Early) = Cardinality(U) + Cardinality(L)
  <2>1. Early = U \cup L /\ U \cap L = {}
    OBVIOUS
  <2> HIDE DEF Early, U, L
  <2>2. Cardinality(Early) = Cardinality(U) + Cardinality(L) - Cardinality({})
    BY <1>11, <2>1, FS_Union
  <2> QED
    BY <1>12, <2>2, FS_EmptySet
<1>14. Cardinality(Early) =< Cardinality(A)
  <2> DEFINE f == [s \in Early |-> CHOOSE j \in A : t[j] = EnterOf(s)]
  <2>1. ASSUME NEW s \in Early PROVE \E j \in A : t[j] = EnterOf(s)
    <3>1. /\ s \in S /\ s.from =< at /\ EnterOf(s).event_type = "enter"
          /\ EnterOf(s).timestamp = s.from /\ s.from \in Int
      BY <1>4
    <3>2. PICK j \in 1 .. n : t[j] = EnterOf(s)
      BY <1>3, <1>4, <3>1
    <3>3. CASE s.from = at
      <4>1. j \in P
        BY <1>10, <3>1, <3>2, <3>3
      <4> QED
        BY <1>9, <1>10, <3>1, <3>2, <4>1
    <3>4. CASE s.from < at
      <4>1. ~(i < j)
        BY <1>3, <1>10, <3>1, <3>2, <3>4 DEF Before
      <4> QED
        BY <1>10, <3>1, <3>2, <4>1
    <3> QED
      BY <1>10, <3>1, <3>3, <3>4
  <2>2. \A s \in Early : f[s] \in A /\ t[f[s]] = EnterOf(s)
    <3> HIDE DEF Early, A
    <3> QED
      BY <2>1
  <2>3. \A s, y \in Early : f[s] = f[y] => s = y
    <3> TAKE s, y \in Early
    <3>1. s \in S /\ y \in S
      OBVIOUS
    <3> HIDE DEF f, Early, A
    <3> QED
      BY <1>8, <2>2, <3>1
  <2>4. f \in [Early -> A]
    BY <2>2
  <2> HIDE DEF f, Early, A
  <2> QED
    BY <1>11, <2>3, <2>4, NoLarger
<1>15. Cardinality(B) =< Cardinality(L)
  <2> DEFINE f == [j \in B |-> CHOOSE s \in L : t[j] = ExitOf(s)]
  <2>1. ASSUME NEW j \in B PROVE \E s \in L : t[j] = ExitOf(s)
    <3>1. j \in 1 .. n /\ t[j].event_type = "exit" /\ t[j] \in E /\ j < i
      <4>1. j \in 1 .. n /\ j =< i /\ t[j].event_type = "exit"
        BY <1>10
      <4>2. j # i
        BY <1>10, <4>1
      <4> QED
        BY <1>3, <1>10, <4>1, <4>2
    <3>2. PICK s \in S : t[j] = ExitOf(s)
      BY <1>7, <3>1
    <3>3. s.to < at
      BY <1>3, <1>4, <1>5, <1>10, <3>1, <3>2 DEF Before
    <3>4. s.from =< at /\ ~(at =< s.to)
      BY <1>4, <1>10, <3>3
    <3> QED
      BY <3>2, <3>4
  <2>2. \A j \in B : f[j] \in L /\ t[j] = ExitOf(f[j])
    <3> HIDE DEF L, B
    <3> QED
      BY <2>1
  <2>3. \A j, k \in B : f[j] = f[k] => j = k
    <3> TAKE j, k \in B
    <3>1. j \in 1 .. n /\ k \in 1 .. n
      BY <1>10
    <3> HIDE DEF f, L, B
    <3> QED
      BY <1>3, <2>2, <3>1
  <2>4. f \in [B -> L]
    BY <2>2
  <2> HIDE DEF f, L, B
  <2> QED
    BY <1>11, <2>3, <2>4, NoLarger
<1>16. Inside(t, i) = Cardinality(A) - Cardinality(B) /\ Together(S, at) = Cardinality(U)
  BY DEF Inside, Together
<1>17. Together(S, at) =< Inside(t, i)
  <2> HIDE DEF A, B, Early, U, L
  <2> QED
    BY <1>12, <1>13, <1>14, <1>15, <1>16
<1> QED
  BY <1>2, <1>10, <1>17 DEF t, E

\* So the peak of a timeline of whole stays is that of the visitors.
LEMMA PeakOfEnds ==
    ASSUME HistoryInv, NEW S \in SUBSET CompleteStays
    PROVE  PeakConcurrency(EndsOf(S)) = PeakOf(S) /\ PeakOf(S) \in Nat
<1>1. /\ EndsOf(S) \in SUBSET crossings /\ S \in SUBSET Stays /\ IsStays(S)
      /\ AreEvents(EndsOf(S), now) /\ now \in Int
  BY EndsFacts, EventsOf
<1>2. PeakConcurrency(EndsOf(S)) =< PeakOf(S) /\ PeakOf(S) \in Nat
  BY <1>1, EndsAreAccounted, PeakIsAccounted
<1>3. /\ PeakConcurrency(EndsOf(S)) \in Nat
      /\ \A i \in 1 .. Cardinality(EndsOf(S)) :
            /\ Inside(Sorted(EndsOf(S)), i) \in Int
            /\ Inside(Sorted(EndsOf(S)), i) =< PeakConcurrency(EndsOf(S))
  BY <1>1, PeakOfTimeline
<1>4. ASSUME NEW z \in S, PeakOf(S) = Together(S, z.from)
      PROVE  PeakOf(S) =< PeakConcurrency(EndsOf(S))
  <2>1. PICK i \in 1 .. Cardinality(EndsOf(S)) :
           Together(S, z.from) =< Inside(Sorted(EndsOf(S)), i)
    BY BalanceIsReached
  <2> QED
    BY <1>2, <1>3, <1>4, <2>1
<1>5. PeakOf(S) = 0 \/ \E z \in S : PeakOf(S) = Together(S, z.from)
  BY <1>1, PeakIsAtAStart
<1> QED
  BY <1>2, <1>3, <1>4, <1>5

\* The events of a window that splits no stay are the ends of its stays.
LEMMA WholeIsEnds ==
    ASSUME HistoryInv, NEW w, Whole(w)
    PROVE  /\ WholeStays(w) \in SUBSET CompleteStays
           /\ EventsIn(w) = EndsOf(WholeStays(w))
<1> DEFINE S == WholeStays(w)
           These(s) == {e \in Past(s.origin) : e.timestamp \in {s.from, s.to}}
<1>1. S \in SUBSET CompleteStays
  BY DEF WholeStays
<1>2. EventsIn(w) = UNION {These(s) : s \in S}
  BY DEF Whole
<1>3. \A s \in S : These(s) = EndsOf({s})
  BY <1>1, EndsOfStay
<1>4. \A s \in S : EndsOf({s}) = {EnterOf(s), ExitOf(s)}
  BY DEF EndsOf
<1>5. EndsOf(S) = {EnterOf(s) : s \in S} \cup {ExitOf(s) : s \in S}
  BY DEF EndsOf
<1>6. UNION {These(s) : s \in S} = EndsOf(S)
  <2>1. \A s \in S : These(s) = {EnterOf(s), ExitOf(s)}
    BY <1>3, <1>4
  <2> HIDE DEF These, S
  <2>2. \A e : e \in UNION {These(s) : s \in S} <=> \E s \in S : e \in These(s)
    OBVIOUS
  <2>3. \A e : e \in EndsOf(S) <=> \E s \in S : e \in {EnterOf(s), ExitOf(s)}
    BY <1>5
  <2> QED
    BY <2>1, <2>2, <2>3
<1> QED
  BY <1>1, <1>2, <1>6

\* What the durations of some stays add up to, whatever pairs were made.
DwellOf(S) == DwellSum(EndsOf(S))

\* What is measured of the ends of stays, in their own terms.
LEMMA MetricOfStays ==
    ASSUME HistoryInv, NEW w, NEW S \in SUBSET CompleteStays, EventsIn(w) = EndsOf(S)
    PROVE  /\ Cardinality(S) \in Nat /\ DwellOf(S) \in Int
           /\ Metric(w).start = w.start /\ Metric(w).end = w.end
           /\ Metric(w).avg = IF Cardinality(S) = 0 THEN Zero
                              ELSE [num |-> DwellOf(S), den |-> Cardinality(S)]
           /\ Metric(w).peak = PeakOf(S) /\ PeakOf(S) \in Nat
           /\ Metric(w).count = Cardinality(S)
<1>1. IsFiniteSet(S)
  BY EndsFacts DEF IsStays
<1>a. PICK k \in Nat : k = Cardinality(S)
  BY <1>1, FS_CardinalityType
<1>2. PICK each : k = Cardinality(S) /\ Lists(each, S, k)
  BY <1>1, <1>a, SetIsListed
<1>3. /\ Len(Durations(EndsOf(S))) = k
      /\ Cardinality(Of(EndsOf(S), "enter")) = k
      /\ DwellSum(EndsOf(S)) \in Int
  BY <1>2, DwellOfEnds
<1>4. PeakConcurrency(EndsOf(S)) = PeakOf(S) /\ PeakOf(S) \in Nat
  BY PeakOfEnds
<1> QED
  BY <1>2, <1>3, <1>4 DEF Metric, DwellOf

LEMMA DwellIsExactNow ==
    ASSUME HistoryInv
    PROVE  DwellIsExact
<1> SUFFICES ASSUME NEW w \in Windows, Whole(w), EventsIn(w) # {}
             PROVE  LET stays == WholeStays(w)
                        each == SetToSeq(stays)
                        total == Total([i \in DOMAIN each |-> each[i].to - each[i].from])
                    IN  /\ Same(Metric(w).avg, [num |-> total, den |-> Cardinality(stays)])
                        /\ Metric(w).peak = PeakOf(stays)
  BY DEF DwellIsExact
<1> DEFINE S == WholeStays(w)
           each == SetToSeq(S)
           k == Cardinality(S)
           total == Total([i \in 1 .. k |-> each[i].to - each[i].from])
<1>1. S \in SUBSET CompleteStays /\ EventsIn(w) = EndsOf(S)
  BY WholeIsEnds
<1>2. IsFiniteSet(S)
  BY <1>1, EndsFacts DEF IsStays
<1>3. Lists(each, S, k)
  BY <1>2, SetIsListed
<1>4. k \in Nat /\ k # 0
  <2>1. S # {}
    BY <1>1 DEF EndsOf
  <2> QED
    BY <1>2, <2>1, FS_CardinalityType, FS_EmptySet
<1>5. /\ Metric(w).avg = IF k = 0 THEN Zero ELSE [num |-> DwellOf(S), den |-> k]
      /\ Metric(w).peak = PeakOf(S) /\ DwellOf(S) \in Int
  <2> HIDE DEF S
  <2> QED
    BY <1>1, MetricOfStays
<1>8. DwellOf(S) = total
  <2> HIDE DEF S, k, each
  <2> QED
    BY <1>1, <1>3, DwellOfEnds DEF DwellOf
<1>6. DOMAIN each = 1 .. k
  BY <1>3 DEF Lists
<1>7. Same(Metric(w).avg, [num |-> total, den |-> k])
  <2> HIDE DEF k, total
  <2> QED
    BY <1>4, <1>5, <1>8 DEF Same
<1> QED
  BY <1>5, <1>6, <1>7

\* The average of a window with whole stays only is theirs, and its peak that of
\* the visitors who stayed, in every reachable state.
THEOREM DwellIsExactAlways == Spec => []DwellIsExact
<1>1. MetricsInv => DwellIsExact
  BY DwellIsExactNow DEF MetricsInv
<1> QED
  BY <1>1, MetricsInvAlways, PTL

-----------------------------------------------------------------------------
(***************************************************************************)
(* Rollups: stays in parts, and rows that tile a window and split none.    *)
(***************************************************************************)

LEMMA DwellOfNone ==
    ASSUME HistoryInv
    PROVE  DwellOf({}) = 0
<1> DEFINE each == [i \in 1 .. 0 |-> i]
           l == [i \in 1 .. 0 |-> each[i].to - each[i].from]
<1>1. Cardinality({}) = 0 /\ {} \in SUBSET CompleteStays
  BY FS_EmptySet
<1>2. 1 .. 0 = {}
  OBVIOUS
<1>3. Lists(each, {}, 0)
  BY <1>1, <1>2 DEF Lists
<1>4. DwellSum(EndsOf({})) = Total(l)
  <2> HIDE DEF each
  <2> QED
    BY <1>1, <1>3, DwellOfEnds
<1>5. l \in [1 .. 0 -> Int]
  BY <1>2
<1>6. \E f : Sums(f, l, 0) /\ Total(l) = f[0]
  <2> HIDE DEF l
  <2> QED
    BY <1>5, TotalIsLastSum
<1> HIDE DEF l
<1> QED
  BY <1>4, <1>6 DEF DwellOf, Sums

LEMMA DwellOfOneMore ==
    ASSUME HistoryInv, NEW S \in SUBSET CompleteStays, NEW s \in CompleteStays, s \notin S
    PROVE  /\ DwellOf(S \cup {s}) = DwellOf(S) + (s.to - s.from)
           /\ DwellOf(S) \in Int /\ s.to - s.from \in Int
<1>0. /\ IsFiniteSet(S)
      /\ \A z \in CompleteStays : z.to \in Int /\ z.from \in Int
  BY EndsFacts, EndsOfStay DEF IsStays
<1>a. PICK k \in Nat : k = Cardinality(S)
  BY <1>0, FS_CardinalityType
<1>1. PICK each : Lists(each, S, k)
  BY <1>0, <1>a, SetIsListed
<1>2. PICK m \in Nat \ {0} : m = k + 1
  OBVIOUS
<1>3. /\ each \in [1 .. k -> S] /\ \A i, j \in 1 .. k : each[i] = each[j] => i = j
      /\ k = Cardinality(S)
  BY <1>1 DEF Lists
<1> DEFINE more == [i \in 1 .. m |-> IF i = m THEN s ELSE each[i]]
<1>4. Lists(more, S \cup {s}, m)
  <2>1. more \in [1 .. m -> S \cup {s}]
    BY <1>2, <1>3
  <2>2. \A i, j \in 1 .. m : more[i] = more[j] => i = j
    <3> TAKE i, j \in 1 .. m
    <3>1. /\ i # m => i \in 1 .. k /\ each[i] \in S
          /\ j # m => j \in 1 .. k /\ each[j] \in S
      BY <1>2, <1>3
    <3> QED
      BY <1>3, <3>1
  <2>3. Cardinality(S \cup {s}) = m
    BY <1>0, <1>2, <1>3, FS_AddElement
  <2> HIDE DEF more
  <2> QED
    BY <2>1, <2>2, <2>3 DEF Lists
<1> DEFINE x == [i \in 1 .. m |-> more[i].to - more[i].from]
           y == [i \in 1 .. k |-> each[i].to - each[i].from]
<1>5. DwellSum(EndsOf(S)) = Total(y) /\ DwellSum(EndsOf(S)) \in Int
  BY <1>1, DwellOfEnds
<1>6. DwellSum(EndsOf(S \cup {s})) = Total(x)
  <2>1. PICK T \in SUBSET CompleteStays : T = S \cup {s}
    OBVIOUS
  <2>2. Lists(more, T, m)
    BY <1>4, <2>1
  <2> HIDE DEF more
  <2>3. DwellSum(EndsOf(T)) = Total(x)
    BY <2>2, DwellOfEnds
  <2> QED
    BY <2>1, <2>3
<1>7. x \in [1 .. m -> Int] /\ y \in [1 .. k -> Int]
      /\ x[m] = s.to - s.from /\ \A i \in 1 .. k : y[i] = x[i]
  <2>1. \A i \in 1 .. k : each[i].to \in Int /\ each[i].from \in Int
    BY <1>0, <1>3
  <2>2. \A i \in 1 .. m : i # m => i \in 1 .. k
    BY <1>2
  <2>3. \A i \in 1 .. k : i \in 1 .. m /\ i # m
    BY <1>2
  <2>4. m \in 1 .. m
    OBVIOUS
  <2>5. more[m] = s /\ \A i \in 1 .. k : more[i] = each[i]
    BY <2>3, <2>4
  <2> HIDE DEF more
  <2>6. y \in [1 .. k -> Int]
    BY <2>1
  <2>7. \A i \in 1 .. m : more[i].to \in Int /\ more[i].from \in Int
    BY <1>0, <2>1, <2>2, <2>5
  <2>8. x \in [1 .. m -> Int]
    BY <2>7
  <2>9. x[m] = s.to - s.from
    BY <2>4, <2>5
  <2>10. \A i \in 1 .. k : y[i] = x[i]
    BY <2>3, <2>5
  <2> QED
    BY <2>6, <2>8, <2>9, <2>10
<1>8. Total(x) = Total(y) + x[m]
  <2>1. m - 1 = k
    BY <1>2
  <2> HIDE DEF x, y
  <2>2. y \in [1 .. m - 1 -> Int] /\ \A i \in 1 .. m - 1 : y[i] = x[i]
    BY <1>7, <2>1
  <2>3. x \in [1 .. m -> Int] /\ m \in Nat \ {0}
    BY <1>7
  <2> HIDE DEF more
  <2>4. PICK u \in [1 .. m -> Int], v \in [1 .. m - 1 -> Int] :
           u = x /\ v = y /\ \A i \in 1 .. m - 1 : v[i] = u[i]
    BY <2>2, <2>3
  <2>5. Total(u) = Total(v) + u[m]
    BY <2>4, TotalOfFirst
  <2> QED
    BY <2>4, <2>5
<1> HIDE DEF x, y
<1> QED
  BY <1>0, <1>5, <1>6, <1>7, <1>8 DEF DwellOf

\* Stays apart from each other add up.
LEMMA DwellOfBoth ==
    ASSUME HistoryInv, NEW S \in SUBSET CompleteStays, NEW T \in SUBSET CompleteStays,
           S \cap T = {}
    PROVE  DwellOf(S \cup T) = DwellOf(S) + DwellOf(T)
<1>0. IsFiniteSet(T)
  BY EndsFacts DEF IsStays
<1>1. PICK n \in Nat : n = Cardinality(T)
  BY <1>0, FS_CardinalityType
<1> DEFINE Adds(D) == /\ DwellOf(S \cup D) = DwellOf(S) + DwellOf(D)
           bad == {m \in 0 .. n : \E D \in SUBSET T : Cardinality(D) = m /\ ~Adds(D)}
<1>9. DwellOf(S) \in Int
  <2>1. IsFiniteSet(S) /\ Lists(SetToSeq(S), S, Cardinality(S))
    BY EndsFacts, SetIsListed DEF IsStays
  <2> QED
    BY <2>1, DwellOfEnds DEF DwellOf
<1>2. 0 \notin bad
  <2> SUFFICES ASSUME NEW D \in SUBSET T, Cardinality(D) = 0 PROVE Adds(D)
    OBVIOUS
  <2>1. D = {}
    BY <1>0, FS_Subset, FS_EmptySet
  <2>2. DwellOf(S \cup D) = DwellOf(S)
    <3>1. S \cup D = S
      BY <2>1
    <3> QED
      BY <3>1
  <2>3. DwellOf(D) = 0
    BY <2>1, DwellOfNone
  <2> QED
    BY <1>9, <2>2, <2>3
<1>3. ASSUME NEW i \in 1 .. n, i - 1 \notin bad PROVE i \notin bad
  <2> SUFFICES ASSUME NEW D \in SUBSET T, Cardinality(D) = i PROVE Adds(D)
    OBVIOUS
  <2>1. IsFiniteSet(D) /\ D # {}
    BY <1>0, FS_Subset, FS_EmptySet
  <2>2. PICK s \in D : TRUE
    BY <2>1
  <2>3. PICK C \in SUBSET T : C = D \ {s}
    OBVIOUS
  <2>4. Cardinality(C) = i - 1 /\ i - 1 \in 0 .. n
    <3>1. Cardinality(D \ {s}) = Cardinality(D) - 1
      BY <2>1, FS_RemoveElement
    <3>2. Cardinality(C) = i - 1
      BY <2>3, <3>1
    <3> QED
      BY <3>2
  <2>5. Adds(C)
    BY <1>3, <2>4
  <2>6. /\ DwellOf(C \cup {s}) = DwellOf(C) + (s.to - s.from)
        /\ DwellOf(C) \in Int /\ s.to - s.from \in Int
    <3>1. C \in SUBSET CompleteStays /\ s \in CompleteStays /\ s \notin C
      BY <2>2, <2>3
    <3> HIDE DEF Adds
    <3> QED
      BY <3>1, DwellOfOneMore
  <2>7. DwellOf((S \cup C) \cup {s}) = DwellOf(S \cup C) + (s.to - s.from)
    <3>1. PICK B \in SUBSET CompleteStays : B = S \cup C
      OBVIOUS
    <3>2. s \notin B /\ s \in CompleteStays
      BY <2>2, <2>3, <3>1
    <3> QED
      BY <3>1, <3>2, DwellOfOneMore
  <2>8. C \cup {s} = D /\ (S \cup C) \cup {s} = S \cup D
    BY <2>2, <2>3
  <2>9. DwellOf(D) = DwellOf(C) + (s.to - s.from)
    BY <2>6, <2>8, Zenon
  <2>10. DwellOf(S \cup D) = DwellOf(S \cup C) + (s.to - s.from)
    BY <2>7, <2>8, Zenon
  <2>11. PICK l \in Int : l = s.to - s.from
    BY <2>6
  <2>12. DwellOf(S \cup C) = DwellOf(S) + DwellOf(C)
    BY <2>5
  <2> QED
    BY <1>9, <2>6, <2>9, <2>10, <2>11, <2>12
<1>4. bad = {}
  <2>1. bad \in SUBSET (0 .. n)
    OBVIOUS
  <2> HIDE DEF bad
  <2> QED
    BY <1>2, <1>3, <2>1, NoneBad
<1>5. n \in 0 .. n
  OBVIOUS
<1> QED
  BY <1>1, <1>4, <1>5

\* Stays in n parts.
Parts(part, n) ==
    /\ n \in Nat /\ part \in [1 .. n -> SUBSET CompleteStays]
    /\ \A i, j \in 1 .. n : i # j => part[i] \cap part[j] = {}

FirstParts(part, i) == UNION {part[j] : j \in 1 .. i}

LEMMA PartsAdd ==
    ASSUME HistoryInv, NEW part, NEW n, Parts(part, n),
           NEW d \in [1 .. n -> Int], \A i \in 1 .. n : d[i] = DwellOf(part[i]),
           NEW c \in [1 .. n -> Int], \A i \in 1 .. n : c[i] = Cardinality(part[i])
    PROVE  /\ FirstParts(part, n) \in SUBSET CompleteStays
           /\ Total(d) = DwellOf(FirstParts(part, n))
           /\ Total(c) = Cardinality(FirstParts(part, n))
<1>0. /\ n \in Nat /\ \A i \in 1 .. n : part[i] \in SUBSET CompleteStays
      /\ \A i, j \in 1 .. n : i # j => part[i] \cap part[j] = {}
  BY DEF Parts
<1>1. PICK f : Sums(f, d, n) /\ Total(d) = f[n]
  BY <1>0, TotalIsLastSum
<1>2. PICK g : Sums(g, c, n) /\ Total(c) = g[n]
  BY <1>0, TotalIsLastSum
<1> DEFINE U(i) == FirstParts(part, i)
           bad == {i \in 0 .. n : f[i] # DwellOf(U(i)) \/ g[i] # Cardinality(U(i))}
<1>3. U(0) = {}
  BY DEF FirstParts
<1>4. 0 \notin bad
  BY <1>1, <1>2, <1>3, DwellOfNone, FS_EmptySet DEF Sums
<1>5. \A i \in 0 .. n : U(i) \in SUBSET CompleteStays
  BY <1>0 DEF FirstParts
<1>6. ASSUME NEW i \in 1 .. n, i - 1 \notin bad PROVE i \notin bad
  <2>1. i - 1 \in 0 .. n
    BY <1>0
  <2>2. /\ f[i - 1] = DwellOf(U(i - 1)) /\ g[i - 1] = Cardinality(U(i - 1))
    BY <1>6, <2>1
  <2>3. PICK B \in SUBSET CompleteStays : B = U(i - 1)
    BY <1>5, <2>1
  <2>4. PICK P \in SUBSET CompleteStays : P = part[i]
    BY <1>0
  <2>5. U(i) = B \cup P
    <3>1. 1 .. i = (1 .. (i - 1)) \cup {i}
      BY <1>0
    <3> QED
      BY <2>3, <2>4, <3>1 DEF FirstParts
  <2>6. B \cap P = {}
    <3>1. \A j \in 1 .. (i - 1) : j \in 1 .. n /\ j # i
      BY <1>0
    <3> QED
      BY <1>0, <2>3, <2>4, <3>1 DEF FirstParts
  <2>7. DwellOf(B \cup P) = DwellOf(B) + DwellOf(P)
    BY <2>6, DwellOfBoth
  <2>8. IsFiniteSet(B) /\ IsFiniteSet(P)
    BY EndsFacts DEF IsStays
  <2>9. Cardinality(B \cup P) = Cardinality(B) + Cardinality(P)
    <3>1. Cardinality(B \cup P) = Cardinality(B) + Cardinality(P) - Cardinality({})
      BY <2>6, <2>8, FS_Union
    <3>2. Cardinality(B) \in Nat /\ Cardinality(P) \in Nat
      BY <2>8, FS_CardinalityType
    <3> QED
      BY <3>1, <3>2, FS_EmptySet
  <2>10. f[i] = f[i - 1] + d[i] /\ g[i] = g[i - 1] + c[i]
    BY <1>1, <1>2 DEF Sums
  <2>11. d[i] = DwellOf(P) /\ c[i] = Cardinality(P)
    BY <2>4
  <2> HIDE DEF U
  <2>12. f[i] = DwellOf(U(i)) /\ g[i] = Cardinality(U(i))
    BY <2>2, <2>3, <2>5, <2>7, <2>9, <2>10, <2>11
  <2> QED
    BY <2>12
<1>7. bad = {}
  <2>1. bad \in SUBSET (0 .. n)
    OBVIOUS
  <2> HIDE DEF bad
  <2> QED
    BY <1>0, <1>4, <1>6, <2>1, NoneBad
<1>8. n \in 0 .. n
  BY <1>0
<1> QED
  BY <1>1, <1>2, <1>5, <1>7, <1>8

Span(r) == [start |-> r.start, end |-> r.end]

\* The n rows of fine tile w, and each measures what was accepted and splits no
\* stay.
Measures(fine, n, w) ==
    /\ Tiling(fine, n, w.start, w.end) /\ DOMAIN fine = 1 .. n
    /\ \A i \in 1 .. n :
          /\ fine[i].avg \in Fraction /\ fine[i].peak \in Nat /\ fine[i].count \in Nat
          /\ fine[i].end # w.end => \A e \in Accepted : e.timestamp # fine[i].end
          /\ Whole(Span(fine[i]))
          /\ Agree(fine[i], Metric(Span(fine[i])))

PartsOf(fine, n) == [i \in 1 .. n |-> WholeStays(Span(fine[i]))]

LEMMA MeasureFacts ==
    ASSUME HistoryInv, NEW fine, NEW n, NEW w, Measures(fine, n, w)
    PROVE  /\ n \in Nat \ {0} /\ w.start \in Int /\ w.end \in Int
           /\ \A i \in 1 .. n :
                 /\ fine[i].start \in Int /\ fine[i].end \in Int
                 /\ w.start =< fine[i].start /\ fine[i].end =< w.end
                 /\ PartsOf(fine, n)[i] \in SUBSET CompleteStays
                 /\ EventsIn(Span(fine[i])) = EndsOf(PartsOf(fine, n)[i])
<1>1. /\ n \in Nat \ {0} /\ w.start \in Int /\ w.end \in Int
      /\ \A i \in 1 .. n :
            /\ fine[i].start \in Int /\ fine[i].end \in Int
            /\ w.start =< fine[i].start /\ fine[i].end =< w.end
  BY DEF Measures, Tiling
<1>2. ASSUME NEW i \in 1 .. n
      PROVE  /\ PartsOf(fine, n)[i] \in SUBSET CompleteStays
             /\ EventsIn(Span(fine[i])) = EndsOf(PartsOf(fine, n)[i])
  <2>1. Whole(Span(fine[i]))
    BY DEF Measures
  <2>2. PartsOf(fine, n)[i] = WholeStays(Span(fine[i]))
    BY DEF PartsOf
  <2> QED
    BY <2>1, <2>2, WholeIsEnds
<1> QED
  BY <1>1, <1>2

\* An event is in the window if it is in a row's.
LEMMA InTheSpan ==
    ASSUME HistoryInv, NEW r, NEW e \in Accepted, r.start =< e.timestamp, e.timestamp =< r.end
    PROVE  e \in EventsIn(Span(r))
  BY DEF EventsIn, Span

\* No event is in two of the rows' windows: it would be where they meet.
LEMMA EventsInOneRow ==
    ASSUME HistoryInv, NEW fine, NEW n, NEW w, Measures(fine, n, w),
           NEW i \in 1 .. n, NEW j \in 1 .. n, i # j, NEW e \in EventsIn(Span(fine[i])),
           fine[j].start =< e.timestamp, e.timestamp =< fine[j].end
    PROVE  FALSE
<1>1. /\ n \in Nat \ {0} /\ w.start \in Int /\ w.end \in Int
      /\ \A k \in 1 .. n : /\ fine[k].start \in Int /\ fine[k].end \in Int
                           /\ fine[k].end =< w.end
  BY MeasureFacts
<1>2. /\ e \in Accepted /\ fine[i].start =< e.timestamp /\ e.timestamp =< fine[i].end
  BY DEF EventsIn, Span
<1>3. e.timestamp \in Int
  <2>1. Span(fine[i]).start \in Int /\ Span(fine[i]).end \in Int
    BY <1>1 DEF Span
  <2>2. e \in crossings
    BY <2>1, EventsInFacts
  <2> QED
    BY <2>2, EventFacts DEF HistoryInv
<1>4. /\ fine[i].end # w.end => e.timestamp # fine[i].end
      /\ fine[j].end # w.end => e.timestamp # fine[j].end
  BY <1>2 DEF Measures
<1>5. \/ fine[i].end =< fine[j].start /\ fine[i].end < fine[j].end
      \/ fine[j].end =< fine[i].start /\ fine[j].end < fine[i].end
  <2>1. Tiling(fine, n, w.start, w.end)
    BY DEF Measures
  <2> QED
    BY <2>1, TilesMeet
<1>6. fine[i].end \in Int /\ fine[j].end \in Int /\ fine[i].start \in Int /\ fine[j].start \in Int
      /\ fine[i].end =< w.end /\ fine[j].end =< w.end
  BY <1>1
<1> QED
  BY <1>1, <1>2, <1>3, <1>4, <1>5, <1>6

\* The stays of the rows are parts of those of the window, and the ends of them
\* all its events.
LEMMA RowsPartWindow ==
    ASSUME HistoryInv, NEW fine, NEW n, NEW w, Measures(fine, n, w)
    PROVE  /\ Parts(PartsOf(fine, n), n)
           /\ EventsIn(w) = EndsOf(FirstParts(PartsOf(fine, n), n))
<1> DEFINE part == PartsOf(fine, n)
<1>1. /\ n \in Nat \ {0} /\ w.start \in Int /\ w.end \in Int
      /\ \A i \in 1 .. n :
            /\ fine[i].start \in Int /\ fine[i].end \in Int
            /\ w.start =< fine[i].start /\ fine[i].end =< w.end
            /\ part[i] \in SUBSET CompleteStays
            /\ EventsIn(Span(fine[i])) = EndsOf(part[i])
  BY MeasureFacts
<1>2. part \in [1 .. n -> SUBSET CompleteStays]
  <2>1. DOMAIN part = 1 .. n /\ part = [i \in 1 .. n |-> part[i]]
    BY DEF PartsOf
  <2> HIDE DEF part
  <2> QED
    BY <1>1, <2>1
<1> HIDE DEF part
<1>3. ASSUME NEW i \in 1 .. n, NEW e \in EventsIn(Span(fine[i]))
      PROVE  /\ e \in Accepted /\ e.timestamp \in Int /\ e \in EventsIn(w)
             /\ fine[i].start =< e.timestamp /\ e.timestamp =< fine[i].end
  <2>1. e \in Accepted /\ fine[i].start =< e.timestamp /\ e.timestamp =< fine[i].end
    BY DEF EventsIn, Span
  <2>2. Span(fine[i]).start \in Int /\ Span(fine[i]).end \in Int
    BY <1>1 DEF Span
  <2>3. e.timestamp \in Int
    BY <2>2, EventsInFacts, EventFacts DEF HistoryInv
  <2>4. w.start =< e.timestamp /\ e.timestamp =< w.end
    BY <1>1, <2>1, <2>3
  <2> QED
    BY <2>1, <2>3, <2>4 DEF EventsIn
<1>4. ASSUME NEW i \in 1 .. n, NEW j \in 1 .. n, i # j
      PROVE  part[i] \cap part[j] = {}
  <2> SUFFICES ASSUME NEW s \in part[i], s \in part[j] PROVE FALSE
    OBVIOUS
  <2>1. EnterOf(s) \in EndsOf(part[i]) /\ EnterOf(s) \in EndsOf(part[j])
    BY DEF EndsOf
  <2>2. EnterOf(s) \in EventsIn(Span(fine[i])) /\ EnterOf(s) \in EventsIn(Span(fine[j]))
    BY <1>1, <2>1
  <2>3. fine[j].start =< EnterOf(s).timestamp /\ EnterOf(s).timestamp =< fine[j].end
    BY <1>3, <2>2
  <2> QED
    BY <1>4, <2>2, <2>3, EventsInOneRow
<1>5. ASSUME NEW e \in EventsIn(w)
      PROVE  \E i \in 1 .. n : e \in EventsIn(Span(fine[i]))
  <2>1. e \in Accepted /\ w.start =< e.timestamp /\ e.timestamp =< w.end
    BY DEF EventsIn
  <2>2. e.timestamp \in Int
    BY <1>1, EventsInFacts, EventFacts DEF HistoryInv
  <2>3. PICK i \in 1 .. n : fine[i].start =< e.timestamp /\ e.timestamp =< fine[i].end
    <3>1. Tiling(fine, n, w.start, w.end)
      BY DEF Measures
    <3> QED
      BY <2>1, <2>2, <3>1, TilesMeet
  <2> QED
    BY <2>1, <2>3, InTheSpan
<1>6. \A e : e \in EventsIn(w) <=> \E i \in 1 .. n : e \in EndsOf(part[i])
  <2>1. \A e : e \in EventsIn(w) <=> \E i \in 1 .. n : e \in EventsIn(Span(fine[i]))
    BY <1>3, <1>5
  <2> QED
    BY <1>1, <2>1
<1>7. \A e : e \in EndsOf(FirstParts(part, n)) <=> \E i \in 1 .. n : e \in EndsOf(part[i])
  <2>1. \A s : s \in FirstParts(part, n) <=> \E i \in 1 .. n : s \in part[i]
    BY DEF FirstParts
  <2> QED
    BY <2>1 DEF EndsOf
<1>8. EventsIn(w) = EndsOf(FirstParts(part, n))
  BY <1>6, <1>7
<1>9. Parts(part, n)
  BY <1>1, <1>2, <1>4 DEF Parts
<1> QED
  BY <1>8, <1>9 DEF part

\* A row measures the stays of its part.
LEMMA RowOfPart ==
    ASSUME HistoryInv, NEW fine, NEW n, NEW w, Measures(fine, n, w), NEW i \in 1 .. n,
           NEW S, S = PartsOf(fine, n)[i]
    PROVE  /\ Cardinality(S) \in Nat /\ DwellOf(S) \in Int
           /\ fine[i].avg \in Fraction
           /\ Same(fine[i].avg, IF Cardinality(S) = 0 THEN Zero
                                ELSE [num |-> DwellOf(S), den |-> Cardinality(S)])
           /\ fine[i].peak = PeakOf(S) /\ PeakOf(S) \in Nat
           /\ fine[i].count = Cardinality(S)
<1>1. S \in SUBSET CompleteStays /\ EventsIn(Span(fine[i])) = EndsOf(S)
  BY MeasureFacts
<1>2. fine[i].avg \in Fraction /\ Agree(fine[i], Metric(Span(fine[i])))
  BY DEF Measures
<1> QED
  BY <1>1, <1>2, MetricOfStays DEF Agree

\* Visitors who are together in a window are together in one of its rows: a stay of
\* another row would reach to where they meet.
LEMMA TogetherInOneRow ==
    ASSUME HistoryInv, NEW fine, NEW n, NEW w, Measures(fine, n, w),
           NEW i \in 1 .. n, NEW z \in PartsOf(fine, n)[i],
           NEW s \in FirstParts(PartsOf(fine, n), n), s.from =< z.from, z.from =< s.to
    PROVE  s \in PartsOf(fine, n)[i]
<1>1. PICK j \in 1 .. n : s \in PartsOf(fine, n)[j]
  BY DEF FirstParts
<1>2. ASSUME i # j PROVE FALSE
  <2>1. /\ PartsOf(fine, n)[i] \in SUBSET CompleteStays
        /\ EventsIn(Span(fine[i])) = EndsOf(PartsOf(fine, n)[i])
    BY MeasureFacts
  <2>2. EnterOf(z) \in EventsIn(Span(fine[i]))
    BY <2>1 DEF EndsOf
  <2>3. EnterOf(z).timestamp = z.from /\ z.from \in Int
    BY <2>1, EndsOfStay
  <2>4. fine[j].start \in Int /\ fine[j].end \in Int
    BY MeasureFacts
  <2>5. fine[j].start =< s.from /\ s.to =< fine[j].end /\ s \in CompleteStays
    BY <1>1 DEF PartsOf, WholeStays, Span
  <2>6. s.from \in Int /\ s.to \in Int
    BY <2>5, EndsOfStay
  <2>7. fine[j].start =< EnterOf(z).timestamp /\ EnterOf(z).timestamp =< fine[j].end
    BY <2>3, <2>4, <2>5, <2>6
  <2> QED
    BY <1>2, <2>2, <2>7, EventsInOneRow
<1> QED
  BY <1>1, <1>2

LEMMA RollupPeak ==
    ASSUME HistoryInv, NEW fine, NEW n, NEW w, Measures(fine, n, w),
           NEW U \in SUBSET CompleteStays, U = FirstParts(PartsOf(fine, n), n)
    PROVE  HighestPeak(fine) = PeakOf(U)
<1> DEFINE part == PartsOf(fine, n)
<1>1. n \in Nat \ {0} /\ DOMAIN fine = 1 .. n
  BY MeasureFacts DEF Measures
<1>2. IsStays(U)
  BY EndsFacts
<1>3. /\ PeakOf(U) \in Nat
      /\ PeakOf(U) = 0 \/ \E z \in U : PeakOf(U) = Together(U, z.from)
  BY <1>2, PeakIsAtAStart
<1>4. ASSUME NEW i \in 1 .. n
      PROVE  /\ part[i] \in SUBSET U /\ fine[i].peak = PeakOf(part[i])
             /\ fine[i].peak \in Nat /\ fine[i].peak =< PeakOf(U)
             /\ IsStays(part[i])
  <2>1. PICK S : S = part[i]
    OBVIOUS
  <2>2. S \in SUBSET U
    BY <2>1 DEF FirstParts
  <2>3. fine[i].peak = PeakOf(S) /\ PeakOf(S) \in Nat
    <3>1. /\ Cardinality(S) \in Nat /\ DwellOf(S) \in Int
          /\ fine[i].avg \in Fraction
          /\ Same(fine[i].avg, IF Cardinality(S) = 0 THEN Zero
                               ELSE [num |-> DwellOf(S), den |-> Cardinality(S)])
          /\ fine[i].peak = PeakOf(S) /\ PeakOf(S) \in Nat
      BY <2>1, RowOfPart
    <3> QED
      BY <3>1
  <2>4. IsStays(S) /\ PeakOf(S) =< PeakOf(U)
    BY <1>2, <2>2, PeakOfMore
  <2>5. /\ S \in SUBSET U /\ fine[i].peak = PeakOf(S)
        /\ fine[i].peak \in Nat /\ fine[i].peak =< PeakOf(U) /\ IsStays(S)
    BY <2>2, <2>3, <2>4
  <2> QED
    BY <2>1, <2>5, Zenon
<1>5. /\ \E i \in 1 .. n : HighestPeak(fine) = fine[i].peak
      /\ \A i \in 1 .. n : fine[i].peak =< HighestPeak(fine)
  <2>1. PICK most \in Int : most = PeakOf(U)
    BY <1>3
  <2>2. \A i \in 1 .. n : fine[i].peak \in Int /\ fine[i].peak =< most
    BY <1>4, <2>1
  <2> QED
    BY <1>1, <2>2, HighestOfRows
<1>6. HighestPeak(fine) \in Nat /\ HighestPeak(fine) =< PeakOf(U)
  BY <1>4, <1>5
<1>7. ASSUME NEW z \in U, PeakOf(U) = Together(U, z.from)
      PROVE  PeakOf(U) =< HighestPeak(fine)
  <2>1. PICK i \in 1 .. n : z \in part[i]
    BY DEF FirstParts
  <2>2. {s \in U : s.from =< z.from /\ z.from =< s.to}
            = {s \in part[i] : s.from =< z.from /\ z.from =< s.to}
    <3>1. \A s \in U : s.from =< z.from /\ z.from =< s.to => s \in part[i]
      BY <2>1, TogetherInOneRow
    <3>2. part[i] \in SUBSET U
      BY <1>4
    <3> HIDE DEF part
    <3> QED
      BY <3>1, <3>2
  <2>3. Together(U, z.from) = Together(part[i], z.from)
    BY <2>2 DEF Together
  <2>4. PICK S : S = part[i] /\ IsStays(S) /\ z \in S
    BY <1>4, <2>1
  <2>5. Together(S, z.from) =< PeakOf(S) /\ PeakOf(S) \in Nat
    BY <2>4, PeakIsAtAStart
  <2>6. fine[i].peak = PeakOf(S) /\ fine[i].peak =< HighestPeak(fine)
    BY <1>4, <1>5, <2>4
  <2>7. PeakOf(U) = Together(S, z.from)
    BY <1>7, <2>3, <2>4, Zenon
  <2> QED
    BY <1>3, <1>6, <2>5, <2>6, <2>7
<1> QED
  BY <1>3, <1>6, <1>7

\* The counts add up, and so do the averages that they weigh.
LEMMA RollupDwell ==
    ASSUME HistoryInv, NEW fine, NEW n, NEW w, Measures(fine, n, w),
           NEW U \in SUBSET CompleteStays, U = FirstParts(PartsOf(fine, n), n)
    PROVE  /\ TotalCount(fine) = Cardinality(U)
           /\ Same(WeightedDwell(fine),
                   IF Cardinality(U) = 0 THEN Zero
                   ELSE [num |-> DwellOf(U), den |-> Cardinality(U)])
<1> DEFINE part == PartsOf(fine, n)
           c == [i \in 1 .. n |-> Cardinality(part[i])]
           d == [i \in 1 .. n |-> DwellOf(part[i])]
<1>1. n \in Nat \ {0} /\ DOMAIN fine = 1 .. n
  BY MeasureFacts DEF Measures
<1>2. ASSUME NEW i \in 1 .. n
      PROVE  /\ c[i] \in Nat /\ d[i] \in Int /\ fine[i].avg \in Fraction
             /\ fine[i].count = c[i]
             /\ c[i] = 0 => fine[i].avg.num = 0 /\ d[i] = 0
             /\ fine[i].avg.num * c[i] = d[i] * fine[i].avg.den
  <2>1. PICK S : S = part[i]
    OBVIOUS
  <2>2. /\ Cardinality(S) \in Nat /\ DwellOf(S) \in Int
        /\ fine[i].avg \in Fraction
        /\ Same(fine[i].avg, IF Cardinality(S) = 0 THEN Zero
                             ELSE [num |-> DwellOf(S), den |-> Cardinality(S)])
        /\ fine[i].count = Cardinality(S)
    BY <2>1, RowOfPart
  <2>3. fine[i].avg.num \in Int /\ fine[i].avg.den \in Nat
    BY <2>2 DEF Fraction
  <2>4. c[i] = Cardinality(S) /\ d[i] = DwellOf(S)
    BY <2>1
  <2>5. CASE Cardinality(S) = 0
    <3>1. S = {}
      <4>1. S \in SUBSET CompleteStays
        BY <2>1, MeasureFacts
      <4>2. IsFiniteSet(S)
        BY <4>1, EndsFacts DEF IsStays
      <4> QED
        BY <2>5, <4>2, FS_EmptySet
    <3>2. DwellOf(S) = 0
      BY <3>1, DwellOfNone
    <3>3. fine[i].avg.num = 0
      BY <2>2, <2>3, <2>5 DEF Same, Zero
    <3> HIDE DEF c, d
    <3> QED
      BY <2>2, <2>3, <2>4, <2>5, <3>2, <3>3
  <2>6. CASE Cardinality(S) # 0
    <3>1. fine[i].avg.num * Cardinality(S) = DwellOf(S) * fine[i].avg.den
      BY <2>2, <2>6 DEF Same
    <3> HIDE DEF c, d
    <3> QED
      BY <2>2, <2>4, <2>6, <3>1
  <2> QED
    BY <2>5, <2>6
<1>3. /\ c \in [1 .. n -> Int] /\ d \in [1 .. n -> Int]
      /\ \A i \in 1 .. n : c[i] = Cardinality(part[i])
      /\ \A i \in 1 .. n : d[i] = DwellOf(part[i])
      /\ c \in [1 .. n -> Nat]
  BY <1>2
<1>4. Counts(fine) = c
  BY <1>1, <1>2 DEF Counts
<1>5. Total(d) = DwellOf(U) /\ Total(c) = Cardinality(U)
  <2>1. Parts(part, n)
    BY RowsPartWindow
  <2> HIDE DEF part, c, d
  <2>2. U = FirstParts(part, n)
    BY DEF part
  <2> QED
    BY <1>3, <2>1, <2>2, PartsAdd
<1>6. Cardinality(U) \in Nat /\ DwellOf(U) \in Int
  <2>1. IsFiniteSet(U) /\ Lists(SetToSeq(U), U, Cardinality(U))
    BY EndsFacts, SetIsListed DEF IsStays
  <2> QED
    BY <2>1, DwellOfEnds, FS_CardinalityType DEF DwellOf
<1>7. TotalCount(fine) = Cardinality(U)
  BY <1>4, <1>5 DEF TotalCount
<1> HIDE DEF c, d, part
<1>8. CASE Cardinality(U) = 0
  <2> DEFINE ones == [i \in DOMAIN fine |-> 1]
             s == Averages(fine, ones)
             zeros == [i \in 1 .. n |-> 0]
  <2>1. \A i \in 1 .. n : c[i] = 0
    <3>1. \A i \in 1 .. n : c[i] =< Total(c)
      BY <1>1, <1>3, TotalAtLeast
    <3> QED
      BY <1>2, <1>5, <1>8, <3>1
  <2>2. \A i \in 1 .. n : s[i] \in Fraction /\ s[i].num = 0
    <3> TAKE i \in 1 .. n
    <3>1. s[i] = Times(fine[i].avg, 1)
      BY <1>1 DEF Averages
    <3>2. fine[i].avg \in Fraction /\ fine[i].avg.num = 0
      BY <1>2, <2>1
    <3> HIDE DEF s
    <3> QED
      BY <3>1, <3>2 DEF Times, Fraction
  <2>3. s \in [1 .. n -> Fraction] /\ zeros \in [1 .. n -> Int]
    <3>1. s = [i \in 1 .. n |-> s[i]]
      BY <1>1 DEF Averages
    <3> HIDE DEF s
    <3> QED
      BY <2>2, <3>1
  <2>4. \A i \in 1 .. n : s[i].num = zeros[i] * s[i].den
    <3> HIDE DEF s
    <3> QED
      BY <2>2 DEF Fraction
  <2>5. Total(zeros) = 0
    <3>1. \A i \in 1 .. n : zeros[i] = 0 * zeros[i]
      OBVIOUS
    <3> HIDE DEF zeros, s
    <3>2. Total(zeros) = 0 * Total(zeros) /\ Total(zeros) \in Int
      BY <1>1, <2>3, <3>1, TotalOfShares
    <3> QED
      BY <3>2
  <2> HIDE DEF s, zeros
  <2>6. TotalOfFractions(s) \in Fraction /\ TotalOfFractions(s).num = 0
    <3>1. /\ TotalOfFractions(s) \in Fraction
          /\ TotalOfFractions(s).num = Total(zeros) * TotalOfFractions(s).den
      BY <1>1, <2>3, <2>4, FractionsAdd
    <3> QED
      BY <2>5, <3>1 DEF Fraction
  <2>7. Total(ones) \in Nat
    <3>1. ones \in [1 .. n -> Nat]
      BY <1>1
    <3> HIDE DEF ones
    <3> QED
      BY <1>1, <3>1, TotalAtLeast
  <2>8. WeightedDwell(fine) = Over(TotalOfFractions(s), Total(ones))
    BY <1>7, <1>8 DEF WeightedDwell, MeanDwell, WeightedMean, s
  <2> HIDE DEF ones
  <2>9. Same(WeightedDwell(fine), Zero)
    BY <2>6, <2>7, <2>8 DEF Same, Over, Zero, Fraction
  <2> QED
    BY <1>7, <1>8, <2>9
<1>9. CASE Cardinality(U) # 0
  <2> DEFINE s == Averages(fine, c)
  <2>1. \A i \in 1 .. n : s[i] \in Fraction /\ s[i].num = d[i] * s[i].den
    <3> TAKE i \in 1 .. n
    <3>1. s[i] = Times(fine[i].avg, c[i])
      BY <1>1 DEF Averages
    <3>2. /\ fine[i].avg \in Fraction /\ c[i] \in Nat
          /\ fine[i].avg.num * c[i] = d[i] * fine[i].avg.den
      BY <1>2
    <3>3. fine[i].avg.num * c[i] \in Int
      BY <3>2 DEF Fraction
    <3> HIDE DEF s
    <3> QED
      BY <3>1, <3>2, <3>3 DEF Times, Fraction
  <2>2. s \in [1 .. n -> Fraction]
    <3>1. s = [i \in 1 .. n |-> s[i]]
      BY <1>1 DEF Averages
    <3> HIDE DEF s
    <3> QED
      BY <2>1, <3>1
  <2> HIDE DEF s
  <2>3. /\ TotalOfFractions(s) \in Fraction
        /\ TotalOfFractions(s).num = Total(d) * TotalOfFractions(s).den
    BY <1>1, <1>3, <2>1, <2>2, FractionsAdd
  <2>4. WeightedDwell(fine) = Over(TotalOfFractions(s), Cardinality(U))
    BY <1>4, <1>5, <1>7, <1>9 DEF WeightedDwell, WeightedMean, s
  <2>5. PICK num \in Int, den \in Nat, k \in Nat, t \in Int :
           /\ num = TotalOfFractions(s).num /\ den = TotalOfFractions(s).den
           /\ k = Cardinality(U) /\ t = DwellOf(U) /\ num = t * den
    BY <1>5, <1>6, <2>3 DEF Fraction
  <2>6. num * k = t * (den * k)
    BY <2>5
  <2>7. Same(WeightedDwell(fine), [num |-> DwellOf(U), den |-> Cardinality(U)])
    BY <2>4, <2>5, <2>6 DEF Same, Over
  <2> QED
    BY <1>7, <1>9, <2>7
<1> QED
  BY <1>8, <1>9

\* Rows that tile a window, measure it and split no stay are rolled up to what
\* the window would be measured as.
LEMMA RollupIsMetric ==
    ASSUME HistoryInv, NEW fine, NEW n, NEW w, Measures(fine, n, w)
    PROVE  Agree(Rollup(fine, w), Metric(w))
<1>1. PICK U : U = FirstParts(PartsOf(fine, n), n)
  OBVIOUS
<1>2. \A i \in 1 .. n : PartsOf(fine, n)[i] \in SUBSET CompleteStays
  BY MeasureFacts
<1>3. U \in SUBSET CompleteStays
  BY <1>1, <1>2 DEF FirstParts
<1>4. EventsIn(w) = EndsOf(U)
  BY <1>1, RowsPartWindow
<1>5. /\ Metric(w).start = w.start /\ Metric(w).end = w.end
      /\ Metric(w).avg = IF Cardinality(U) = 0 THEN Zero
                         ELSE [num |-> DwellOf(U), den |-> Cardinality(U)]
      /\ Metric(w).peak = PeakOf(U)
      /\ Metric(w).count = Cardinality(U)
  BY <1>3, <1>4, MetricOfStays
<1>6. HighestPeak(fine) = PeakOf(U)
  BY <1>1, <1>3, RollupPeak
<1>7. /\ TotalCount(fine) = Cardinality(U)
      /\ Same(WeightedDwell(fine),
              IF Cardinality(U) = 0 THEN Zero
              ELSE [num |-> DwellOf(U), den |-> Cardinality(U)])
  BY <1>1, <1>3, RollupDwell
<1> QED
  BY <1>5, <1>6, <1>7 DEF Agree, Rollup

LEMMA RollupAgreesNow ==
    ASSUME MetricsInv
    PROVE  RollupAgrees
<1> SUFFICES
      ASSUME NEW k \in DOMAIN Chain,
             NEW w, w = WindowAt(now, Chain[k].size),
             NEW fine, fine = Query(rows, Chain[k].from, w), fine # <<>>,
             NEW last, last = {r.end : r \in ToSet(fine)},
             Len(fine) = Cardinality(last),
             {w.end} \cup {r.start : r \in ToSet(fine)} = last \cup {w.start},
             \A r \in ToSet(fine) :
                 /\ r.end # w.end => \A e \in Accepted : e.timestamp # r.end
                 /\ Whole([start |-> r.start, end |-> r.end])
                 /\ Agree(r, Metric([start |-> r.start, end |-> r.end]))
      PROVE  Agree(Rollup(fine, w), Metric(w))
  BY DEF RollupAgrees
<1>1. HistoryInv /\ rows \in Seq(GroundedRows)
  BY DEF MetricsInv, RowsInv
<1>2. w.start \in Int /\ w.end \in Int
  <2>1. Chain[k] \in Range(Chain)
    BY DEF Range
  <2>2. Chain[k].size \in Nat
    BY <2>1, ChainAssumption
  <2>3. now \in Int
    BY <1>1, EventFacts DEF HistoryInv
  <2> QED
    BY <2>2, <2>3 DEF WindowAt
<1>3. fine \in Seq({r \in GroundedRows : w.start =< r.start /\ r.end =< w.end})
  BY <1>1, QueryFinds
<1>4. PICK n \in Nat \ {0} : n = Len(fine) /\ DOMAIN fine = 1 .. n
  BY <1>3, LenProperties, EmptySeq
<1>5. ASSUME NEW i \in 1 .. n
      PROVE  /\ fine[i].start \in Int /\ fine[i].end \in Int /\ fine[i].avg \in Fraction
             /\ fine[i].peak \in Nat /\ fine[i].count \in Nat
             /\ fine[i].start < fine[i].end
             /\ w.start =< fine[i].start /\ fine[i].end =< w.end
             /\ fine[i] \in ToSet(fine)
  <2>1. fine[i] \in {r \in GroundedRows : w.start =< r.start /\ r.end =< w.end}
    BY <1>3, <1>4, ElementOfSeq
  <2>2. fine[i] \in ToSet(fine)
    BY <1>4 DEF ToSet
  <2> QED
    BY <2>1, <2>2 DEF GroundedRows, RowRecord, Plausible
<1>6. /\ last = {fine[i].end : i \in 1 .. n}
      /\ {r.start : r \in ToSet(fine)} = {fine[i].start : i \in 1 .. n}
  <2>1. \A r : r \in ToSet(fine) <=> \E i \in 1 .. n : r = fine[i]
    BY <1>4 DEF ToSet
  <2> QED
    BY <2>1
<1>7. Tiling(fine, n, w.start, w.end)
  BY <1>2, <1>4, <1>5, <1>6 DEF Tiling
<1>8. Measures(fine, n, w)
  BY <1>4, <1>5, <1>7 DEF Measures, Span
<1> QED
  BY <1>1, <1>8, RollupIsMetric

\* Fine rows that tile a window, measure what was accepted and split no stay are
\* rolled up to what the window would be measured as, in every reachable state.
THEOREM RollupAgreesAlways == Spec => []RollupAgrees
<1>1. MetricsInv => RollupAgrees
  BY RollupAgreesNow
<1> QED
  BY <1>1, MetricsInvAlways, PTL

==============================================================================
