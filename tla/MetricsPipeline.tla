-------------------------- MODULE MetricsPipeline --------------------------
(***************************************************************************)
(* S5.2 and S5.4 over S5.1: AggregateDwellTimeUseCase on the events that   *)
(* were accepted, the DuckDB table it saves its metrics in, and the worker *)
(* that rolls them up along its chain.  Both are called from outside with  *)
(* a reference time, here the present.  Averages are fractions, the same   *)
(* if their cross products are; the rounding of a double is left out.      *)
(***************************************************************************)
EXTENDS EventIngest, SequencesExt

CONSTANTS
    Calls,     \* when execute() is called and with which sizes: [at, sizes]
    LabelOf,   \* GRANULARITY_LABELS and the default label of a size
    Chain,     \* ROLLUP_CHAIN: [from, to, size]
    RunAt,     \* when the worker's run() is called
    MaxRows    \* bound: callers stop when the table has this many rows

ASSUME RowsAssumption == MaxRows \in Nat

\* A window has a length (TimeWindow raises for another).
ASSUME CallsAssumption ==
    \A call \in Calls : call.sizes \in Seq({size \in DOMAIN LabelOf : size \in Nat \ {0}})
ASSUME ChainAssumption ==
    /\ Chain \in Seq(Range(Chain))
    /\ \A link \in Range(Chain) : link.size \in Nat \ {0}

VARIABLES
    rows,      \* table occupancy_metrics, in order of insertion
    blind      \* history: execute() ran while an exit was missing

metricVars == <<rows, blind>>
vars == <<ingestVars, metricVars>>

-----------------------------------------------------------------------------
(***************************************************************************)
(* Sums and averages.                                                      *)
(***************************************************************************)
Zero == [num |-> 0, den |-> 1]
Plus(p, q) == [num |-> p.num * q.den + q.num * p.den, den |-> p.den * q.den]
Times(p, n) == [num |-> p.num * n, den |-> p.den]
Over(p, n) == [num |-> p.num, den |-> p.den * n]
Same(p, q) == p.num * q.den = q.num * p.den

\* sum() of numbers, and of fractions.
Total(s) ==
    LET sum[i \in 0 .. Len(s)] == IF i = 0 THEN 0 ELSE sum[i - 1] + s[i]
    IN  sum[Len(s)]
TotalOfFractions(s) ==
    LET sum[i \in 0 .. Len(s)] == IF i = 0 THEN Zero ELSE Plus(sum[i - 1], s[i])
    IN  sum[Len(s)]

-----------------------------------------------------------------------------
(***************************************************************************)
(* DwellTimeAggregationStrategy.                                           *)
(***************************************************************************)
WindowAt(time, size) == [start |-> time - size, end |-> time]

Accepted == {s.event : s \in {x \in ToSet(seen) : x.accepted}}
EventsIn(w) == {e \in Accepted : w.start =< e.timestamp /\ e.timestamp =< w.end}
Of(events, type) == {e \in events : e.event_type = type}

\* Slip: exits before entries of the same instant.
ExitFirst(e, f) ==
    \/ e.timestamp < f.timestamp
    \/ e.timestamp = f.timestamp /\ (e.event_type = "exit" \/ f.event_type = "enter")

\* sort() by time is stable, and the entries come first in the list.
Before(e, f) ==
    \/ e.timestamp < f.timestamp
    \/ e.timestamp = f.timestamp /\ (e.event_type = "enter" \/ f.event_type = "exit")

Sorted(events) ==
    CHOOSE s \in [1 .. Cardinality(events) -> events] :
        \A j \in DOMAIN s : \A i \in 1 .. j - 1 : s[i] # s[j] /\ Before(s[i], s[j])

\* zip: the i-th entry with the i-th exit, whoever they are of.
Durations(events) ==
    LET entries == Sorted(Of(events, "enter"))
        exits == Sorted(Of(events, "exit"))
    IN  [i \in DOMAIN entries \cap DOMAIN exits |->
            exits[i].timestamp - entries[i].timestamp]

DwellSum(events) == Total(Durations(events))

\* current after i entries of the timeline.
Inside(timeline, i) ==
    Cardinality({j \in 1 .. i : timeline[j].event_type = "enter"})
        - Cardinality({j \in 1 .. i : timeline[j].event_type = "exit"})

PeakConcurrency(events) ==
    LET timeline == Sorted(events)
    IN  Max({0} \cup {Inside(timeline, i) : i \in DOMAIN timeline})

\* OccupancyMetric raises for a negative average.
Raises(w) == DwellSum(EventsIn(w)) < 0

Metric(w) ==
    LET events == EventsIn(w)
        pairs == Len(Durations(events))
    IN  [start |-> w.start, end |-> w.end,
         avg |-> IF pairs = 0 THEN Zero ELSE [num |-> DwellSum(events), den |-> pairs],
         peak |-> PeakConcurrency(events),
         count |-> Cardinality(Of(events, "enter"))]

Row(label, metric) ==
    [granularity |-> label, start |-> metric.start, end |-> metric.end,
     avg |-> metric.avg, peak |-> metric.peak, count |-> metric.count]

\* AggregateDwellTimeUseCase.execute saves window after window; one that
\* raises keeps the rest from being saved.
SavedBy(sizes) ==
    LET Bad(i) == Raises(WindowAt(now, sizes[i]))
        saved == {i \in DOMAIN sizes : \A j \in 1 .. i : ~Bad(j)}
    IN  [i \in saved |-> Row(LabelOf[sizes[i]], Metric(WindowAt(now, sizes[i])))]

MissingExit == \E e \in crossings \ Accepted : e.event_type = "exit"

Aggregate(sizes) ==
    /\ Len(rows) + Len(sizes) =< MaxRows
    /\ rows' = rows \o SavedBy(sizes)
    /\ blind' = (blind \/ MissingExit)
    /\ UNCHANGED ingestVars

-----------------------------------------------------------------------------
(***************************************************************************)
(* DownsamplingService, RollupMetricsUseCase and the worker.               *)
(***************************************************************************)
\* query_metrics: the rows of the granularity wholly in the window.
Query(table, label, w) ==
    LET Found(r) == r.granularity = label /\ w.start =< r.start /\ r.end =< w.end
        found[i \in 0 .. Len(table)] ==
            IF i = 0 THEN <<>>
            ELSE found[i - 1] \o (IF Found(table[i]) THEN <<table[i]>> ELSE <<>>)
    IN  found[Len(table)]

Averages(metrics, weights) ==
    [i \in DOMAIN metrics |-> Times(metrics[i].avg, weights[i])]
WeightedMean(metrics, weights) ==
    Over(TotalOfFractions(Averages(metrics, weights)), Total(weights))

Counts(metrics) == [i \in DOMAIN metrics |-> metrics[i].count]
TotalCount(metrics) == Total(Counts(metrics))

\* Slip: the mean of the averages.
MeanDwell(metrics) == WeightedMean(metrics, [i \in DOMAIN metrics |-> 1])

WeightedDwell(metrics) ==
    IF TotalCount(metrics) = 0 THEN MeanDwell(metrics)
    ELSE WeightedMean(metrics, Counts(metrics))

\* Slip: the peaks added up.
SumOfPeaks(metrics) == Total([i \in DOMAIN metrics |-> metrics[i].peak])
HighestPeak(metrics) == Max({m.peak : m \in ToSet(metrics)})

Rollup(metrics, w) ==
    [start |-> w.start, end |-> w.end, avg |-> WeightedDwell(metrics),
     peak |-> HighestPeak(metrics), count |-> TotalCount(metrics)]

\* One link, on the table so far.  Nothing to roll up raises, and with it ends
\* the run.
Linked(run, link) ==
    LET w == WindowAt(now, link.size)
        fine == Query(run.table, link.from, w)
    IN  IF run.raised \/ fine = <<>>
        THEN [run EXCEPT !.raised = TRUE]
        ELSE [run EXCEPT !.table = Append(@, Row(link.to, Rollup(fine, w)))]

AfterLinks ==
    LET run[k \in 0 .. Len(Chain)] ==
            IF k = 0 THEN [table |-> rows, raised |-> FALSE]
            ELSE Linked(run[k - 1], Chain[k])
    IN  run[Len(Chain)]

RunWorker ==
    /\ now \in RunAt
    /\ Len(rows) + Len(Chain) =< MaxRows
    /\ rows' = AfterLinks.table
    /\ UNCHANGED <<ingestVars, blind>>

Init == IngestInit /\ rows = <<>> /\ blind = FALSE

Next ==
    \/ Tick /\ UNCHANGED metricVars
    \/ SetRunning /\ UNCHANGED metricVars
    \/ \E o \in Origins : Cross(o) /\ UNCHANGED metricVars
    \/ \E e \in pending : Publish(e) /\ UNCHANGED metricVars
    \/ \E call \in Calls : call.at = now /\ Aggregate(call.sizes)
    \/ RunWorker

Spec == Init /\ [][Next]_vars

-----------------------------------------------------------------------------
(***************************************************************************)
(* Properties.                                                             *)
(***************************************************************************)
\* What execute() measures at this moment.
Windows ==
    UNION {{WindowAt(now, size) : size \in ToSet(call.sizes)} :
              call \in {c \in Calls : c.at = now}}

\* The stays that really took place, as closed intervals: the complete ones,
\* and with them those that still last.
ExitsAfter(e) ==
    {f.timestamp : f \in {g \in Past(e.origin) :
        g.event_type = "exit" /\ g.timestamp > e.timestamp}}
StayOf(e) ==
    [origin |-> e.origin, from |-> e.timestamp,
     to |-> IF ExitsAfter(e) = {} THEN now ELSE Min(ExitsAfter(e))]
Stays == {StayOf(e) : e \in Of(crossings, "enter")}
CompleteStays ==
    {StayOf(e) : e \in {x \in Of(crossings, "enter") : ExitsAfter(x) # {}}}

Together(stays, t) == Cardinality({s \in stays : s.from =< t /\ t =< s.to})
PeakOf(stays) == Max({0} \cup {Together(stays, s.from) : s \in stays})
StaysIn(w) == {s \in Stays : s.from =< w.end /\ w.start =< s.to}

\* The accepted events of a window are both ends of stays.
WholeStays(w) == {s \in CompleteStays : w.start =< s.from /\ s.to =< w.end}
Whole(w) ==
    EventsIn(w) =
        UNION {{e \in Past(s.origin) : e.timestamp \in {s.from, s.to}} :
                  s \in WholeStays(w)}

\* Entries and exits are paired by rank, not by visitor: as long as a window
\* holds whole stays only, the average is all the same that of the stays, and
\* the peak that of the visitors inside at one time.
DwellIsExact ==
    \A w \in Windows : Whole(w) /\ EventsIn(w) # {} =>
        LET stays == WholeStays(w)
            each == SetToSeq(stays)
            total == Total([i \in DOMAIN each |-> each[i].to - each[i].from])
        IN  /\ Same(Metric(w).avg, [num |-> total, den |-> Cardinality(stays)])
            /\ Metric(w).peak = PeakOf(stays)

\* Whatever the table holds, of any granularity and after any runs of the
\* worker, an average lies between nothing and the window's length, and a
\* peak is never above the visitors there really were in the window, provided
\* no exit was lost, late or taken for noise.
RowsAreGrounded ==
    \A r \in ToSet(rows) :
        /\ 0 =< r.avg.num /\ r.avg.num =< (r.end - r.start) * r.avg.den
        /\ r.peak =< r.count
        /\ ~blind => r.peak =< PeakOf(StaysIn(r))

Agree(m, n) ==
    /\ m.start = n.start /\ m.end = n.end
    /\ Same(m.avg, n.avg)
    /\ m.peak = n.peak /\ m.count = n.count

\* Fine rows that tile a window, measure what was accepted and split no stay
\* are rolled up to what the window itself would be measured as.
RollupAgrees ==
    \A k \in DOMAIN Chain :
        LET w == WindowAt(now, Chain[k].size)
            fine == Query(rows, Chain[k].from, w)
            Ends == {r.end : r \in ToSet(fine)}
            Tiles == /\ Len(fine) = Cardinality(Ends)
                     /\ \A r \in ToSet(fine) : r.start \in Ends \cup {w.start}
                     /\ {w.end} \cup {r.start : r \in ToSet(fine)} = Ends \cup {w.start}
            Apart == \A r \in ToSet(fine) :
                        /\ r.end # w.end =>
                               \A e \in Accepted : e.timestamp # r.end
                        /\ Whole([start |-> r.start, end |-> r.end])
                        /\ Agree(r, Metric([start |-> r.start, end |-> r.end]))
        IN  fine # <<>> /\ Tiles /\ Apart => Agree(Rollup(fine, w), Metric(w))

=============================================================================
