---------------------------- MODULE EventIngest ----------------------------
(***************************************************************************)
(* S5.1: the B3 consumer, IngestEventUseCase and the debounce filter.      *)
(* Visitors cross the border of a zone, each one a track of its own        *)
(* (origin), and the bus hands their envelopes over late and in any order. *)
(* A malformed envelope raises before anything is assigned and is left     *)
(* out.                                                                    *)
(***************************************************************************)
EXTENDS Integers, Sequences, FiniteSets

CONSTANTS
    Origins,      \* the tracks
    MinInterval,  \* min_interval_seconds of the filter
    MaxTime,      \* bound: time stops here
    CrossAt,      \* bound: the instants at which a track crosses, if at all
    Restarts,     \* bound: when start() and stop() may be called
    MaxCrossings, \* bound: visitors cross so often in all
    MaxPending,   \* bound: and while fewer envelopes are under way
    NoTime        \* an origin that is not in _last_accepted_at

ASSUME IntervalAssumption == MinInterval \in Nat
ASSUME BoundsAssumption ==
    MaxTime \in Nat /\ MaxCrossings \in Nat /\ MaxPending \in Nat
ASSUME NoTimeAssumption == NoTime \notin Int

VARIABLES
    now,
    crossings,       \* history: what really happened at the border
    pending,         \* envelopes on the bus, not handed over yet
    running,         \* _running of InMemoryB3EventConsumer
    lastAcceptedAt,  \* _last_accepted_at
    seen             \* what the handler got, in order: [event, accepted]

ingestVars == <<now, crossings, pending, running, lastAcceptedAt, seen>>

EventType == {"enter", "exit"}
Event == [event_type : EventType, origin : Origins, timestamp : 0 .. MaxTime]

\* The crossings of one origin alternate, and the first one enters.
Past(o) == {e \in crossings : e.origin = o}
CrossingType(o) ==
    IF \E e \in Past(o) :
          /\ e.event_type = "enter"
          /\ \A f \in Past(o) : f.timestamp =< e.timestamp
    THEN "exit" ELSE "enter"

IngestInit ==
    /\ now = 0
    /\ crossings = {}
    /\ pending = {}
    /\ running = FALSE
    /\ lastAcceptedAt = [o \in Origins |-> NoTime]
    /\ seen = <<>>

Tick ==
    /\ now < MaxTime
    /\ now' = now + 1
    /\ UNCHANGED <<crossings, pending, running, lastAcceptedAt, seen>>

\* A visitor crosses the border, at most once in an instant.
Cross(o) ==
    /\ now \in CrossAt[o]
    /\ Cardinality(crossings) < MaxCrossings
    /\ Cardinality(pending) < MaxPending
    /\ \A e \in Past(o) : e.timestamp < now
    /\ LET e == [event_type |-> CrossingType(o), origin |-> o, timestamp |-> now]
       IN  /\ crossings' = crossings \cup {e}
           /\ pending' = pending \cup {e}
    /\ UNCHANGED <<now, running, lastAcceptedAt, seen>>

\* start() and stop() of the consumer.
SetRunning ==
    /\ now \in Restarts
    /\ running' = ~running
    /\ UNCHANGED <<now, crossings, pending, lastAcceptedAt, seen>>

\* should_accept.  An event older than the last accepted one has a negative
\* age, and is rejected too.
ShouldAccept(e) ==
    \/ lastAcceptedAt[e.origin] = NoTime
    \/ e.timestamp - lastAcceptedAt[e.origin] >= MinInterval

\* Slip: a rejected event starts the interval anew.
RestartedBy(e) == e.timestamp

\* What is remembered of the origin after the event.
RememberedAfter(e) ==
    IF ShouldAccept(e) THEN e.timestamp ELSE lastAcceptedAt[e.origin]

\* publish(): the handler runs in it, unless the consumer is stopped, in which
\* case the envelope is lost.
Publish(e) ==
    /\ e \in pending
    /\ pending' = pending \ {e}
    /\ IF running
       THEN /\ seen' = Append(seen, [event |-> e, accepted |-> ShouldAccept(e)])
            /\ lastAcceptedAt' =
                  [lastAcceptedAt EXCEPT ![e.origin] = RememberedAfter(e)]
       ELSE UNCHANGED <<seen, lastAcceptedAt>>
    /\ UNCHANGED <<now, crossings, running>>

IngestNext ==
    \/ Tick
    \/ SetRunning
    \/ \E o \in Origins : Cross(o)
    \/ \E e \in pending : Publish(e)

IngestSpec == IngestInit /\ [][IngestNext]_ingestVars

-----------------------------------------------------------------------------
(***************************************************************************)
(* Properties.                                                             *)
(***************************************************************************)
IngestTypeOK ==
    /\ now \in 0 .. MaxTime
    /\ crossings \in SUBSET Event
    /\ pending \in SUBSET Event
    /\ running \in BOOLEAN
    /\ lastAcceptedAt \in [Origins -> (0 .. MaxTime) \cup {NoTime}]
    /\ seen \in Seq([event : Event, accepted : BOOLEAN])

SameOrigin(i, j) == seen[i].event.origin = seen[j].event.origin
Elapsed(i, j) == seen[j].event.timestamp - seen[i].event.timestamp

\* Of the events accepted from one track each is at least the interval after
\* every one accepted before it, however late and disordered the bus is; and
\* a burst cannot silence a track: whatever is rejected is within the
\* interval of an event that was accepted.
DebounceKeepsPace ==
    \A j \in DOMAIN seen :
        IF seen[j].accepted
        THEN \A i \in 1 .. j - 1 :
                SameOrigin(i, j) /\ seen[i].accepted => Elapsed(i, j) >= MinInterval
        ELSE \E i \in 1 .. j - 1 :
                SameOrigin(i, j) /\ seen[i].accepted /\ Elapsed(i, j) < MinInterval

=============================================================================
