-------------------------- MODULE RingBufferProofs --------------------------
(***************************************************************************)
(* Proofs about RingBuffer for every capacity, every set of offered frames *)
(* and every bound on their number.                                        *)
(***************************************************************************)
EXTENDS RingBuffer, SequenceTheorems, WellFoundedInduction, TLAPS

\* A set of naturals has a least element; what the library says of well-founded
\* relations, without an operator as a parameter.
LEMMA LeastNatural ==
    ASSUME NEW T \in SUBSET Nat, T # {}
    PROVE  \E n \in T : \A m \in T : n <= m
<1>1. PICK n \in T : \A m \in T : <<m, n>> \notin OpToRel(<, Nat)
  BY NatLessThanWellFounded, WFMin, Zenon
<1>2. ASSUME NEW m \in T
      PROVE  n <= m
  <2>1. <<m, n>> \notin OpToRel(<, Nat)
    BY <1>1
  <2>2. m \in Nat /\ n \in Nat
    OBVIOUS
  <2>3. ~(m < n)
    BY <2>1, <2>2 DEF OpToRel
  <2> QED
    BY <2>2, <2>3
<1> QED
  BY <1>2

\* The loop "pop while the front is doomed" stops: PopCount is the length of
\* the longest doomed prefix (RingBuffer::evictOverlapping and
\* discardFramesBeyondWritePointer).
LEMMA PopCountStops ==
    ASSUME NEW q, Len(q) \in Nat, NEW doomed
    PROVE  /\ PopCount(q, doomed) \in 0 .. Len(q)
           /\ 1 .. PopCount(q, doomed) \subseteq doomed
           /\ PopCount(q, doomed) = Len(q) \/ PopCount(q, doomed) + 1 \notin doomed
<1> DEFINE Stops == {n \in 0 .. Len(q) : n = Len(q) \/ n + 1 \notin doomed}
<1>1. Stops \subseteq Nat /\ Len(q) \in Stops
  OBVIOUS
<1>2. PICK n \in Stops : \A m \in Stops : n <= m
  <2> HIDE DEF Stops
  <2> QED
    BY <1>1, LeastNatural
<1>3. \A m \in Stops : ~ (m < n)
  BY <1>1, <1>2
<1>4. 1 .. n \subseteq doomed
  <2> SUFFICES ASSUME NEW i \in 1 .. n, i \notin doomed
               PROVE  FALSE
    OBVIOUS
  <2>1. i - 1 \in 0 .. Len(q) /\ (i - 1) + 1 = i /\ i - 1 < n
    BY <1>1
  <2>2. i - 1 \in Stops
    BY <2>1
  <2> QED
    BY <1>3, <2>1, <2>2
<1>5. n \in 0 .. Len(q) /\ (n = Len(q) \/ n + 1 \notin doomed)
  OBVIOUS
<1> QED
  BY <1>4, <1>5 DEF PopCount

\* What pop_front leaves of a queue.
LEMMA DropFirstProperties ==
    ASSUME NEW S, NEW q \in Seq(S), NEW n \in 0 .. Len(q)
    PROVE  /\ DropFirst(q, n) \in Seq(S)
           /\ Len(DropFirst(q, n)) = Len(q) - n
           /\ \A i \in 1 .. Len(q) - n : DropFirst(q, n)[i] = q[n + i]
<1>1. Len(q) \in Nat /\ n \in Int /\ n + 1 \in Int /\ Len(q) \in Int
  BY LenProperties
<1>2. \A i \in n + 1 .. Len(q) : q[i] \in S
  BY ElementOfSeq, <1>1
<1>3. /\ SubSeq(q, n + 1, Len(q)) \in Seq(S)
      /\ Len(SubSeq(q, n + 1, Len(q))) =
             IF n + 1 <= Len(q) THEN Len(q) - (n + 1) + 1 ELSE 0
      /\ \A i \in 1 .. Len(q) - (n + 1) + 1 :
             SubSeq(q, n + 1, Len(q))[i] = q[n + 1 + i - 1]
  BY <1>1, <1>2, SubSeqProperties
<1> QED
  BY <1>1, <1>3 DEF DropFirst

\* What is left of the queue when the new frame is registered is the queue
\* without its EvictedBy(f) oldest frames, and all of them after a restart.
LEMMA KeptIsSuffix ==
    ASSUME TypeOK, NEW f \in Offered
    PROVE  /\ EvictedBy(f) \in 0 .. Len(frames)
           /\ QueueAfterEviction(f) \in Seq(FrameDescriptor)
           /\ Len(QueueAfterEviction(f)) = Len(frames) - EvictedBy(f)
           /\ \A i \in 1 .. Len(frames) - EvictedBy(f) :
                  QueueAfterEviction(f)[i] = frames[EvictedBy(f) + i]
           /\ SessionRestarts(f) => EvictedBy(f) = Len(frames)
<1> DEFINE q == QueueInSession(f)
           d == DiscardCount(f)
           qw == QueueAfterWrap(f)
           e == OverlapCount(f)
           restart == IF SessionRestarts(f) THEN Len(frames) ELSE 0
<1>1. frames \in Seq(FrameDescriptor) /\ Len(frames) \in Nat
  BY LenProperties DEF TypeOK
<1>2. /\ q \in Seq(FrameDescriptor)
      /\ Len(q) = Len(frames) - restart
      /\ restart \in 0 .. Len(frames)
      /\ \A i \in 1 .. Len(q) : q[i] = frames[restart + i]
  <2>1. CASE SessionRestarts(f)
    BY <1>1, <2>1, EmptySeq DEF QueueInSession
  <2>2. CASE ~SessionRestarts(f)
    BY <1>1, <2>2 DEF QueueInSession
  <2> QED
    BY <2>1, <2>2
<1>3. d \in 0 .. Len(q)
  <2>1. Len(q) \in Nat
    BY <1>2, LenProperties
  <2> QED
    BY <2>1, PopCountStops DEF DiscardCount
<1>4. /\ qw \in Seq(FrameDescriptor)
      /\ Len(qw) = Len(q) - d
      /\ \A i \in 1 .. Len(q) - d : qw[i] = q[d + i]
  BY <1>2, <1>3, DropFirstProperties DEF QueueAfterWrap
<1>5. e \in 0 .. Len(qw)
  <2>1. Len(qw) \in Nat
    BY <1>4, LenProperties
  <2> QED
    BY <2>1, PopCountStops DEF OverlapCount
<1>6. /\ QueueAfterEviction(f) \in Seq(FrameDescriptor)
      /\ Len(QueueAfterEviction(f)) = Len(qw) - e
      /\ \A i \in 1 .. Len(qw) - e : QueueAfterEviction(f)[i] = qw[e + i]
  BY <1>4, <1>5, DropFirstProperties DEF QueueAfterEviction
<1>7. EvictedBy(f) = restart + d + e
  BY DEF EvictedBy
<1> HIDE DEF q, d, qw, e, restart
<1>8. EvictedBy(f) \in 0 .. Len(frames)
  BY <1>1, <1>2, <1>3, <1>4, <1>5, <1>7
<1>9. Len(QueueAfterEviction(f)) = Len(frames) - EvictedBy(f)
  BY <1>1, <1>2, <1>3, <1>4, <1>5, <1>6, <1>7
<1>10. ASSUME NEW i \in 1 .. Len(frames) - EvictedBy(f)
       PROVE  QueueAfterEviction(f)[i] = frames[EvictedBy(f) + i]
  <2>1. QueueAfterEviction(f)[i] = qw[e + i]
    BY <1>6, <1>9
  <2>2. qw[e + i] = q[d + (e + i)]
    <3>1. e + i \in 1 .. Len(q) - d
      BY <1>1, <1>2, <1>3, <1>4, <1>5, <1>7
    <3> QED
      BY <1>4, <3>1
  <2>3. q[d + (e + i)] = frames[restart + (d + (e + i))]
    BY <1>1, <1>2, <1>3, <1>4, <1>5, <1>7
  <2>4. restart + (d + (e + i)) = EvictedBy(f) + i
    BY <1>1, <1>2, <1>3, <1>4, <1>5, <1>7
  <2> QED
    BY <2>1, <2>2, <2>3, <2>4
<1>11. SessionRestarts(f) => EvictedBy(f) = Len(frames)
  <2>1. SessionRestarts(f) => restart = Len(frames)
    BY DEF restart
  <2> QED
    BY <1>1, <1>2, <1>3, <1>4, <1>5, <1>7, <2>1
<1> QED
  BY <1>6, <1>8, <1>9, <1>10, <1>11

\* A wrap drops the whole previous lap and nothing of the current one, which
\* becomes the previous; without a wrap nothing is dropped.  The eviction then
\* stops before the current lap.
LEMMA LapsAfterEviction ==
    ASSUME TypeOK, NEW f \in Offered, Accepts(f),
           NEW k \in 0 .. Len(QueueInSession(f)),
           LapSplit(QueueInSession(f), PointerInSession(f), k)
    PROVE  LET m == IF Wraps(f) THEN Len(QueueInSession(f)) - k ELSE k
           IN  /\ DiscardCount(f) = IF Wraps(f) THEN k ELSE 0
               /\ OverlapCount(f) <= m
               /\ LapSplit(QueueAfterWrap(f), OffsetFor(f), m)
<1> DEFINE q == QueueInSession(f)
           w == PointerInSession(f)
           d == DiscardCount(f)
           qw == QueueAfterWrap(f)
           e == OverlapCount(f)
           qe == QueueAfterEviction(f)
           off == OffsetFor(f)
           m == IF Wraps(f) THEN Len(q) - k ELSE k
<1>1. frames \in Seq(FrameDescriptor) /\ Len(frames) \in Nat
  BY LenProperties DEF TypeOK
<1>2. f.len \in Nat /\ f.len > 0 /\ w \in Nat /\ off \in Nat
  BY OfferedAssumption DEF Accepts, TooLarge, TypeOK, OffsetFor, PointerInSession
<1>3. q \in Seq(FrameDescriptor) /\ Len(q) \in Nat
  BY <1>1, EmptySeq, LenProperties DEF QueueInSession
<1>4. k \in 0 .. Len(q) /\ LapSplit(q, w, k)
  OBVIOUS
<1>5. \A i \in 1 .. Len(q) : q[i] \in FrameDescriptor
  BY <1>3, ElementOfSeq
<1>6. d \in 0 .. Len(q)
  BY <1>3, PopCountStops DEF DiscardCount
<1>7. /\ qw \in Seq(FrameDescriptor) /\ Len(qw) \in Nat
      /\ Len(qw) = Len(q) - d
      /\ \A i \in 1 .. Len(q) - d : qw[i] = q[d + i]
  <2>1. /\ qw \in Seq(FrameDescriptor)
        /\ Len(qw) = Len(q) - d
        /\ \A i \in 1 .. Len(q) - d : qw[i] = q[d + i]
    BY <1>3, <1>6, DropFirstProperties DEF QueueAfterWrap
  <2>2. Len(qw) \in Nat
    BY <2>1, LenProperties
  <2> QED
    BY <2>1, <2>2
<1>8. /\ m \in 0 .. Len(qw) /\ LapSplit(qw, off, m)
      /\ d = IF Wraps(f) THEN k ELSE 0
  <2>1. CASE Wraps(f)
    <3>1. /\ 1 .. d \subseteq BeyondPointer(f)
          /\ d = Len(q) \/ d + 1 \notin BeyondPointer(f)
      BY <2>1, <1>3, PopCountStops DEF DiscardCount
    <3>2. \A i \in 1 .. Len(q) : i \in BeyondPointer(f) <=> w <= q[i].offset
      BY <1>2, <1>5 DEF BeyondPointer, FrameDescriptor
    <3>3. \A i \in k + 1 .. Len(q) : ~ (w <= q[i].offset)
      BY <1>2, <1>4, <1>5 DEF LapSplit, EndOffset, FrameDescriptor
    <3>4. d = k
      <4>1. ~ (d < k)
        BY <1>3, <1>4, <1>6, <3>1, <3>2 DEF LapSplit
      <4>2. ~ (k < d)
        BY <1>3, <1>4, <1>6, <3>1, <3>2, <3>3
      <4> QED
        BY <1>4, <1>6, <4>1, <4>2
    <3>5. \A i \in 1 .. Len(qw) : d + i \in k + 1 .. Len(q) /\ qw[i] = q[d + i]
      BY <1>3, <1>4, <1>6, <1>7, <3>4
    <3>6. Ascending(qw, 1, Len(qw))
      <4>1. Ascending(q, k + 1, Len(q))
        BY <1>4 DEF LapSplit
      <4>2. ASSUME NEW i \in 1 .. Len(qw), NEW j \in 1 .. Len(qw), i < j
            PROVE  EndOffset(qw[i]) <= qw[j].offset
        <5>1. d + i \in k + 1 .. Len(q) /\ d + j \in k + 1 .. Len(q) /\ d + i < d + j
          BY <1>6, <3>5, <4>2
        <5>2. EndOffset(q[d + i]) <= q[d + j].offset
          BY <4>1, <5>1 DEF Ascending
        <5> QED
          BY <3>5, <5>2
      <4> QED
        BY <4>2 DEF Ascending
    <3>7. \A i \in 1 .. Len(qw) : 0 <= qw[i].offset
      BY <1>5, <3>5, <1>4 DEF FrameDescriptor
    <3>8. LapSplit(qw, 0, Len(qw))
      BY <1>7, <3>6, <3>7 DEF LapSplit, Ascending
    <3>9. m = Len(qw) /\ off = 0
      BY <1>7, <2>1, <3>4 DEF OffsetFor
    <3> HIDE DEF m, qw, off
    <3> QED
      BY <1>7, <2>1, <3>4, <3>8, <3>9
  <2>2. CASE ~Wraps(f)
    <3>1. d = 0 /\ off = w
      BY <2>2 DEF DiscardCount, OffsetFor
    <3>2. Len(qw) = Len(q) /\ \A i \in 1 .. Len(q) : qw[i] = q[i]
      BY <1>3, <1>7, <3>1
    <3>3. LapSplit(qw, w, k)
      BY <1>3, <1>4, <3>2 DEF LapSplit, Ascending
    <3>4. m = k
      BY <2>2
    <3> HIDE DEF m, d, off
    <3> QED
      BY <1>4, <2>2, <3>1, <3>2, <3>3, <3>4
  <2> QED
    BY <2>1, <2>2
<1>9. \A i \in 1 .. Len(qw) : qw[i] \in FrameDescriptor
  BY <1>7, ElementOfSeq
<1>10. /\ e \in 0 .. Len(qw)
       /\ 1 .. e \subseteq Overlapping(f)
       /\ e = Len(qw) \/ e + 1 \notin Overlapping(f)
  BY <1>7, PopCountStops DEF OverlapCount
<1>11. /\ qe \in Seq(FrameDescriptor)
       /\ Len(qe) = Len(qw) - e
       /\ \A i \in 1 .. Len(qw) - e : qe[i] = qw[e + i]
  BY <1>7, <1>10, DropFirstProperties DEF QueueAfterEviction
<1>12. \A i \in 1 .. Len(qw) :
          i \in Overlapping(f) <=> qw[i].offset < off + f.len /\ off < EndOffset(qw[i])
  BY DEF Overlapping, Occupies
<1> HIDE DEF q, w, d, qw, e, qe, off, m
<1>13. e <= m
  <2> SUFFICES ASSUME m < e PROVE FALSE
    BY <1>8, <1>10
  <2>1. m + 1 \in 1 .. e /\ m + 1 \in 1 .. Len(qw) /\ m + 1 \in m + 1 .. Len(qw)
    BY <1>7, <1>8, <1>10
  <2>2. off < EndOffset(qw[m + 1])
    BY <1>10, <1>12, <2>1
  <2>3. EndOffset(qw[m + 1]) <= off
    BY <1>8, <2>1 DEF LapSplit
  <2>4. EndOffset(qw[m + 1]) \in Int
    BY <1>9, <2>1 DEF EndOffset, FrameDescriptor
  <2> QED
    BY <1>2, <2>2, <2>3, <2>4
<1> QED
  BY <1>8, <1>13 DEF q, d, qw, e, off, m

\* The queue of the session is two laps, an empty one after a restart.
LEMMA LapsOfSession ==
    ASSUME TwoLaps, NEW f \in Offered
    PROVE  \E k \in 0 .. Len(QueueInSession(f)) :
               LapSplit(QueueInSession(f), PointerInSession(f), k)
<1>1. CASE SessionRestarts(f)
  <2>1. LapSplit(<<>>, 0, 0)
    BY DEF LapSplit, Ascending
  <2> QED
    BY <1>1, <2>1 DEF QueueInSession, PointerInSession
<1>2. CASE ~SessionRestarts(f)
  BY <1>2 DEF QueueInSession, PointerInSession, TwoLaps
<1> QED
  BY <1>1, <1>2

\* How many frames are left of the previous lap when k frames of the queue were:
\* at a wrap the current lap becomes the previous one.
PreviousLap(f, k) ==
    (IF Wraps(f) THEN Len(QueueInSession(f)) - k ELSE k) - OverlapCount(f)

\* offsetFor and evictOverlapping together keep the two laps apart: what is
\* left of the previous lap lies beyond the new frame, what is left of the
\* current one lies before it.
LEMMA TwoLapsAroundNewFrame ==
    ASSUME TypeOK, NEW f \in Offered, Accepts(f),
           NEW k \in 0 .. Len(QueueInSession(f)),
           LapSplit(QueueInSession(f), PointerInSession(f), k)
    PROVE  LET q == QueueAfterEviction(f)
               end == OffsetFor(f) + f.len
               left == PreviousLap(f, k)
           IN /\ left \in 0 .. Len(q)
              /\ \A i \in 1 .. left : end <= q[i].offset
              /\ \A i \in left + 1 .. Len(q) : EndOffset(q[i]) <= OffsetFor(f)
              /\ Ascending(q, 1, left)
              /\ Ascending(q, left + 1, Len(q))
<1> DEFINE q == QueueInSession(f)
           w == PointerInSession(f)
           d == DiscardCount(f)
           qw == QueueAfterWrap(f)
           e == OverlapCount(f)
           qe == QueueAfterEviction(f)
           off == OffsetFor(f)
           m == IF Wraps(f) THEN Len(q) - k ELSE k
<1>1. frames \in Seq(FrameDescriptor) /\ Len(frames) \in Nat
  BY LenProperties DEF TypeOK
<1>2. f.len \in Nat /\ f.len > 0 /\ w \in Nat /\ off \in Nat
  BY OfferedAssumption DEF Accepts, TooLarge, TypeOK, OffsetFor, PointerInSession
<1>3. q \in Seq(FrameDescriptor) /\ Len(q) \in Nat
  BY <1>1, EmptySeq, LenProperties DEF QueueInSession
<1>4. k \in 0 .. Len(q) /\ LapSplit(q, w, k)
  OBVIOUS
<1>5. \A i \in 1 .. Len(q) : q[i] \in FrameDescriptor
  BY <1>3, ElementOfSeq
<1>6. d \in 0 .. Len(q)
  BY <1>3, PopCountStops DEF DiscardCount
<1>7. /\ qw \in Seq(FrameDescriptor) /\ Len(qw) \in Nat
      /\ Len(qw) = Len(q) - d
      /\ \A i \in 1 .. Len(q) - d : qw[i] = q[d + i]
  <2>1. /\ qw \in Seq(FrameDescriptor)
        /\ Len(qw) = Len(q) - d
        /\ \A i \in 1 .. Len(q) - d : qw[i] = q[d + i]
    BY <1>3, <1>6, DropFirstProperties DEF QueueAfterWrap
  <2>2. Len(qw) \in Nat
    BY <2>1, LenProperties
  <2> QED
    BY <2>1, <2>2
<1>8. m \in 0 .. Len(qw) /\ LapSplit(qw, off, m) /\ e <= m
  <2>1. d = (IF Wraps(f) THEN k ELSE 0) /\ e <= m /\ LapSplit(qw, off, m)
    BY LapsAfterEviction
  <2>2. m \in 0 .. Len(qw)
    BY <1>3, <1>4, <1>7, <2>1
  <2> HIDE DEF q, w, d, qw, e, qe, off, m
  <2> QED
    BY <2>1, <2>2
<1>9. \A i \in 1 .. Len(qw) : qw[i] \in FrameDescriptor
  BY <1>7, ElementOfSeq
<1>10. /\ e \in 0 .. Len(qw)
       /\ 1 .. e \subseteq Overlapping(f)
       /\ e = Len(qw) \/ e + 1 \notin Overlapping(f)
  BY <1>7, PopCountStops DEF OverlapCount
<1>11. /\ qe \in Seq(FrameDescriptor)
       /\ Len(qe) = Len(qw) - e
       /\ \A i \in 1 .. Len(qw) - e : qe[i] = qw[e + i]
  BY <1>7, <1>10, DropFirstProperties DEF QueueAfterEviction
<1>12. \A i \in 1 .. Len(qw) :
          i \in Overlapping(f) <=> qw[i].offset < off + f.len /\ off < EndOffset(qw[i])
  BY DEF Overlapping, Occupies
<1> HIDE DEF q, w, d, qw, e, qe, off, m
<1>13. /\ e \in Nat /\ m \in Nat /\ e <= m /\ m <= Len(qw)
       /\ Len(qw) \in Nat /\ Len(qe) = Len(qw) - e
  BY <1>7, <1>8, <1>10, <1>11
<1>14. \A i \in 1 .. m - e : off + f.len <= qe[i].offset
  <2> SUFFICES ASSUME NEW i \in 1 .. m - e
               PROVE  off + f.len <= qe[i].offset
    OBVIOUS
  <2>1. /\ e + 1 \in 1 .. m /\ e + i \in 1 .. m
        /\ e + 1 \in 1 .. Len(qw) /\ e + i \in 1 .. Len(qw)
        /\ e + 1 <= e + i /\ e # Len(qw)
    BY <1>13
  <2>2. off <= qw[e + 1].offset /\ qw[e + 1] \in FrameDescriptor /\ qw[e + i] \in FrameDescriptor
    BY <1>8, <1>9, <2>1 DEF LapSplit
  <2>3. off + f.len <= qw[e + 1].offset
    <3>1. qw[e + 1].offset \in Nat /\ qw[e + 1].len \in Nat \ {0}
      BY <2>2 DEF FrameDescriptor
    <3>2. ~ (qw[e + 1].offset < off + f.len /\ off < EndOffset(qw[e + 1]))
      BY <1>10, <1>12, <2>1
    <3>3. off < EndOffset(qw[e + 1])
      BY <1>2, <2>2, <3>1 DEF EndOffset
    <3> QED
      BY <1>2, <3>1, <3>2, <3>3
  <2>4. qw[e + 1].offset <= qw[e + i].offset
    <3>1. CASE i = 1
      BY <2>2, <3>1 DEF FrameDescriptor
    <3>2. CASE i # 1
      <4>1. e + 1 < e + i
        BY <1>10, <2>1, <3>2
      <4>2. EndOffset(qw[e + 1]) <= qw[e + i].offset
        BY <1>8, <2>1, <4>1 DEF LapSplit, Ascending
      <4>3. /\ qw[e + 1].offset \in Nat /\ qw[e + 1].len \in Nat
            /\ qw[e + i].offset \in Nat
        BY <2>2 DEF FrameDescriptor
      <4> QED
        BY <4>2, <4>3 DEF EndOffset
    <3> QED
      BY <3>1, <3>2
  <2>5. qe[i] = qw[e + i]
    <3>1. i \in 1 .. Len(qw) - e
      BY <1>13
    <3> QED
      BY <1>11, <3>1
  <2>6. qw[e + 1].offset \in Nat /\ qw[e + i].offset \in Nat
    BY <2>2 DEF FrameDescriptor
  <2> QED
    BY <1>2, <2>3, <2>4, <2>5, <2>6
<1>15. \A i \in m - e + 1 .. Len(qe) : EndOffset(qe[i]) <= off
  <2> SUFFICES ASSUME NEW i \in m - e + 1 .. Len(qe)
               PROVE  EndOffset(qe[i]) <= off
    OBVIOUS
  <2>1. e + i \in m + 1 .. Len(qw) /\ i \in 1 .. Len(qw) - e
    BY <1>13
  <2> QED
    BY <1>8, <1>11, <2>1 DEF LapSplit
<1>16. Ascending(qe, 1, m - e)
  <2> SUFFICES ASSUME NEW i \in 1 .. m - e, NEW j \in 1 .. m - e, i < j
               PROVE  EndOffset(qe[i]) <= qe[j].offset
    BY DEF Ascending
  <2>1. /\ e + i \in 1 .. m /\ e + j \in 1 .. m /\ e + i < e + j
        /\ i \in 1 .. Len(qw) - e /\ j \in 1 .. Len(qw) - e
    BY <1>13
  <2> QED
    BY <1>8, <1>11, <2>1 DEF LapSplit, Ascending
<1>17. Ascending(qe, m - e + 1, Len(qe))
  <2> SUFFICES ASSUME NEW i \in m - e + 1 .. Len(qe), NEW j \in m - e + 1 .. Len(qe), i < j
               PROVE  EndOffset(qe[i]) <= qe[j].offset
    BY DEF Ascending
  <2>1. /\ e + i \in m + 1 .. Len(qw) /\ e + j \in m + 1 .. Len(qw) /\ e + i < e + j
        /\ i \in 1 .. Len(qw) - e /\ j \in 1 .. Len(qw) - e
    BY <1>13
  <2> QED
    BY <1>8, <1>11, <2>1 DEF LapSplit, Ascending
<1>18. m - e \in 0 .. Len(qe)
  BY <1>13
<1> QED
  BY <1>14, <1>15, <1>16, <1>17, <1>18 DEF q, qe, off, m, e, PreviousLap

-----------------------------------------------------------------------------
\* The queue after an ingested frame: the kept suffix and the new descriptor.
LEMMA IngestedQueue ==
    ASSUME TypeOK, NEW f \in Offered, IngestFrame(f)
    PROVE  LET n == EvictedBy(f) IN
           /\ n \in 0 .. Len(frames) /\ Len(frames) \in Nat
           /\ SessionRestarts(f) => n = Len(frames)
           /\ DescriptorFor(f) \in FrameDescriptor
           /\ frames' \in Seq(FrameDescriptor)
           /\ Len(frames') = Len(frames) - n + 1
           /\ \A i \in 1 .. Len(frames) - n :
                  frames'[i] = frames[n + i] /\ frames'[i] = QueueAfterEviction(f)[i]
           /\ frames'[Len(frames) - n + 1] = DescriptorFor(f)
<1> DEFINE n == EvictedBy(f)
           q == QueueAfterEviction(f)
<1>1. /\ n \in 0 .. Len(frames)
      /\ q \in Seq(FrameDescriptor)
      /\ Len(q) = Len(frames) - n
      /\ \A i \in 1 .. Len(frames) - n : q[i] = frames[n + i]
      /\ SessionRestarts(f) => n = Len(frames)
  BY KeptIsSuffix
<1>2. Len(frames) \in Nat
  BY LenProperties DEF TypeOK
<1>3. DescriptorFor(f) \in FrameDescriptor
  <2>1. f.len \in Nat \ {0}
    BY OfferedAssumption DEF IngestFrame, Accepts, TooLarge
  <2>2. OffsetFor(f) \in Nat
    BY DEF TypeOK, OffsetFor, PointerInSession
  <2> QED
    BY <2>1, <2>2, OfferedAssumption DEF DescriptorFor, FrameDescriptor, Sessions, TypeOK
<1>4. frames' = Append(q, DescriptorFor(f))
  BY DEF IngestFrame
<1>5. /\ frames' \in Seq(FrameDescriptor)
      /\ Len(frames') = Len(q) + 1
      /\ \A i \in 1 .. Len(q) : frames'[i] = q[i]
      /\ frames'[Len(q) + 1] = DescriptorFor(f)
  BY <1>1, <1>3, <1>4, AppendProperties
<1> QED
  BY <1>1, <1>2, <1>3, <1>5

\* The new frame lies inside the arena.
LEMMA NewFrameFits ==
    ASSUME TypeOK, NEW f \in Offered, Accepts(f)
    PROVE  /\ f.len \in Nat \ {0}
           /\ OffsetFor(f) \in Nat
           /\ OffsetFor(f) + f.len <= Capacity
BY CapacityAssumption, OfferedAssumption
   DEF Accepts, TooLarge, TypeOK, OffsetFor, PointerInSession, Wraps

\* RingBuffer and its arena keep their types, and no frame is ever split at
\* the end of the arena (ring_buffer.hpp, first invariant of the class).
THEOREM TypeInvariant == Spec => []TypeOK
<1>1. Init => TypeOK
  BY CapacityAssumption, EmptySeq DEF Init, TypeOK, Offsets
<1>2. TypeOK /\ [Next]_vars => TypeOK'
  <2> SUFFICES ASSUME TypeOK, [Next]_vars
               PROVE  TypeOK'
    OBVIOUS
  <2>1. ASSUME NEW f \in Offered, IngestFrame(f)
        PROVE  TypeOK'
    <3> DEFINE n == EvictedBy(f)
    <3>1. /\ n \in 0 .. Len(frames) /\ Len(frames) \in Nat
          /\ frames' \in Seq(FrameDescriptor)
          /\ Len(frames') = Len(frames) - n + 1
          /\ \A i \in 1 .. Len(frames) - n : frames'[i] = frames[n + i]
          /\ frames'[Len(frames) - n + 1] = DescriptorFor(f)
      BY <2>1, IngestedQueue
    <3>2. /\ f.len \in Nat \ {0} /\ OffsetFor(f) \in Nat
          /\ OffsetFor(f) + f.len <= Capacity
      BY <2>1, NewFrameFits DEF IngestFrame
    <3> HIDE DEF n
    <3>3. ASSUME NEW i \in 1 .. Len(frames')
          PROVE  EndOffset(frames'[i]) <= Capacity
      <4>1. CASE i \in 1 .. Len(frames) - n
        <5>1. frames'[i] = frames[n + i] /\ n + i \in 1 .. Len(frames)
          BY <3>1, <4>1
        <5> QED
          BY <5>1 DEF TypeOK
      <4>2. CASE i = Len(frames) - n + 1
        <5>1. frames'[i] = DescriptorFor(f)
          BY <3>1, <4>2
        <5>2. EndOffset(DescriptorFor(f)) = OffsetFor(f) + f.len
          BY DEF EndOffset, DescriptorFor
        <5> QED
          BY <3>2, <5>1, <5>2, CapacityAssumption
      <4>3. i \in 1 .. Len(frames) - n \/ i = Len(frames) - n + 1
        BY <3>1
      <4> QED
        BY <4>1, <4>2, <4>3
    <3>4. writeOffset' \in 0 .. Capacity
      BY <2>1, <3>2, CapacityAssumption DEF IngestFrame
    <3>5. /\ nextSequence' \in Nat
          /\ ingestedTotal' \in Nat
          /\ sessionId' \in Sessions \cup {NoSession}
      BY <2>1 DEF IngestFrame, TypeOK, Sessions
    <3>6. evictedTotal' \in Nat
      BY <2>1, <3>1 DEF IngestFrame, TypeOK, n
    <3>7. arena' \in [Offsets -> Nat \cup {Unwritten}]
      BY <2>1 DEF IngestFrame, TypeOK
    <3> QED
      BY <3>1, <3>3, <3>4, <3>5, <3>6, <3>7 DEF TypeOK, EndOffset
  <2>2. CASE UNCHANGED vars
    BY <2>2 DEF vars, TypeOK, EndOffset
  <2> QED
    BY <2>1, <2>2 DEF Next, RejectFrame
<1> QED
  BY <1>1, <1>2, PTL DEF Spec

-----------------------------------------------------------------------------
(***************************************************************************)
(* The inductive invariant.  NoOverwrittenFrame is not inductive alone: a  *)
(* front that does not overlap the new frame stops the eviction, and that  *)
(* only spares no later frame because the queue is two laps in order.      *)
(***************************************************************************)
IInv == TypeOK /\ TwoLaps /\ NoOverwrittenFrame /\ CaptureOrder /\ Accounting

\* The new frame opens or continues the current lap.
LEMMA LapsStep ==
    ASSUME TypeOK, NEW f \in Offered, IngestFrame(f),
           NEW was \in 0 .. Len(QueueInSession(f)),
           LapSplit(QueueInSession(f), PointerInSession(f), was)
    PROVE  /\ PreviousLap(f, was) \in 0 .. Len(frames') - 1
           /\ LapSplit(frames', writeOffset', PreviousLap(f, was))
<1> DEFINE n == EvictedBy(f)
           q == QueueAfterEviction(f)
           off == OffsetFor(f)
           last == Len(frames) - n + 1
           k == PreviousLap(f, was)
<1>1. /\ k \in 0 .. Len(q)
      /\ \A i \in 1 .. k : off + f.len <= q[i].offset
      /\ \A i \in k + 1 .. Len(q) : EndOffset(q[i]) <= off
      /\ Ascending(q, 1, k)
      /\ Ascending(q, k + 1, Len(q))
  BY TwoLapsAroundNewFrame DEF IngestFrame
<1>2. /\ n \in 0 .. Len(frames) /\ Len(frames) \in Nat
      /\ Len(q) = last - 1 /\ Len(frames') = last
      /\ \A i \in 1 .. last - 1 : frames'[i] = q[i]
      /\ frames'[last] = DescriptorFor(f)
  BY IngestedQueue, KeptIsSuffix
<1>3. /\ EndOffset(DescriptorFor(f)) = off + f.len
      /\ DescriptorFor(f).offset = off
      /\ off \in Nat /\ f.len \in Nat \ {0}
  BY NewFrameFits DEF IngestFrame, EndOffset, DescriptorFor
<1>4. writeOffset' = off + f.len
  BY DEF IngestFrame
<1> HIDE DEF n, q, off, last, k
<1>5. last \in Nat /\ k \in 0 .. last - 1
  BY <1>1, <1>2 DEF last
<1>6. \A i \in 1 .. k : writeOffset' <= frames'[i].offset
  BY <1>1, <1>2, <1>4, <1>5
<1>7. ASSUME NEW i \in k + 1 .. last
      PROVE  EndOffset(frames'[i]) <= writeOffset'
  <2>1. CASE i = last
    BY <1>2, <1>3, <1>4, <2>1
  <2>2. CASE i # last
    <3>1. i \in k + 1 .. last - 1 /\ i \in 1 .. last - 1
      BY <1>5, <2>2
    <3>2. frames'[i] = q[i] /\ EndOffset(q[i]) <= off
      BY <1>1, <1>2, <3>1
    <3>3. q[i] \in FrameDescriptor
      BY <1>2, <3>1, KeptIsSuffix, ElementOfSeq DEF q
    <3>4. EndOffset(q[i]) \in Nat
      BY <3>3 DEF EndOffset, FrameDescriptor
    <3> QED
      BY <1>3, <1>4, <3>2, <3>4
  <2> QED
    BY <2>1, <2>2
<1>8. Ascending(frames', 1, k)
  <2>1. \A i \in 1 .. k : frames'[i] = q[i]
    BY <1>2, <1>5
  <2> QED
    BY <1>1, <2>1 DEF Ascending
<1>9. Ascending(frames', k + 1, last)
  <2> SUFFICES ASSUME NEW i \in k + 1 .. last, NEW j \in k + 1 .. last, i < j
               PROVE  EndOffset(frames'[i]) <= frames'[j].offset
    BY DEF Ascending
  <2>1. i \in k + 1 .. last - 1 /\ i \in 1 .. last - 1
    BY <1>5
  <2>2. frames'[i] = q[i]
    BY <1>2, <2>1
  <2>3. CASE j = last
    BY <1>1, <1>2, <1>3, <2>1, <2>2, <2>3
  <2>4. CASE j # last
    <3>1. j \in k + 1 .. last - 1 /\ j \in 1 .. last - 1
      BY <1>5, <2>4
    <3> QED
      BY <1>1, <1>2, <2>1, <2>2, <3>1 DEF Ascending
  <2> QED
    BY <2>3, <2>4
<1>10. LapSplit(frames', writeOffset', k)
  BY <1>2, <1>6, <1>7, <1>8, <1>9 DEF LapSplit
<1>11. k \in 0 .. Len(frames') - 1
  BY <1>2, <1>5
<1> QED
  BY <1>10, <1>11 DEF k

\* Two laps stay two laps.
LEMMA TwoLapsStep ==
    ASSUME IInv, NEW f \in Offered, IngestFrame(f)
    PROVE  TwoLaps'
<1>1. PICK k \in 0 .. Len(QueueInSession(f)) :
         LapSplit(QueueInSession(f), PointerInSession(f), k)
  BY LapsOfSession DEF IInv
<1>2. /\ PreviousLap(f, k) \in 0 .. Len(frames') - 1
      /\ LapSplit(frames', writeOffset', PreviousLap(f, k))
  BY <1>1, LapsStep DEF IInv
<1>3. Len(frames') \in Nat
  BY IngestedQueue, LenProperties DEF IInv
<1>4. PreviousLap(f, k) \in 0 .. Len(frames')
  BY <1>2, <1>3
<1> QED
  BY <1>2, <1>4 DEF TwoLaps

\* What the types say of one indexed frame.
LEMMA IndexedFrame ==
    ASSUME TypeOK, NEW i \in 1 .. Len(frames)
    PROVE  /\ frames[i].ts \in Int /\ frames[i].session \in Sessions
           /\ frames[i].offset \in Nat /\ frames[i].len \in Nat \ {0}
           /\ EndOffset(frames[i]) <= Capacity
<1>1. frames[i] \in FrameDescriptor
  BY ElementOfSeq DEF TypeOK
<1> QED
  BY <1>1 DEF FrameDescriptor, TypeOK

\* Frames only leave at the front and only a later capture is appended.
LEMMA CaptureOrderStep ==
    ASSUME IInv, NEW f \in Offered, IngestFrame(f)
    PROVE  CaptureOrder'
<1> DEFINE n == EvictedBy(f)
           last == Len(frames) - n + 1
<1>1. /\ n \in 0 .. Len(frames) /\ Len(frames) \in Nat
      /\ SessionRestarts(f) => n = Len(frames)
      /\ Len(frames') = last
      /\ \A i \in 1 .. last - 1 : frames'[i] = frames[n + i]
      /\ frames'[last] = DescriptorFor(f)
  BY IngestedQueue DEF IInv
<1>2. /\ DescriptorFor(f).ts = f.ts
      /\ DescriptorFor(f).session = f.session
      /\ DescriptorFor(f).sequence = nextSequence
      /\ sessionId' = f.session /\ nextSequence' = nextSequence + 1
      /\ nextSequence \in Nat
  BY DEF DescriptorFor, IngestFrame, IInv, TypeOK
<1>3. f.ts \in Int
  BY OfferedAssumption
<1>4. \A i \in 1 .. Len(frames) : frames[i].ts \in Int
  BY IndexedFrame DEF IInv
<1> HIDE DEF n
<1>5. last \in Nat \ {0} /\ \A i \in 1 .. last - 1 : n + i \in 1 .. Len(frames)
  BY <1>1
<1>6. ASSUME NEW i \in 1 .. last - 1
      PROVE  sessionId = f.session
  <2>1. ~SessionRestarts(f) /\ Len(frames) # 0
    BY <1>1
  <2>2. frames[1].session \in Sessions /\ frames[1].session = sessionId
    <3>1. 1 \in 1 .. Len(frames)
      BY <1>1, <2>1
    <3> QED
      BY <3>1, IndexedFrame DEF IInv, CaptureOrder
  <2>3. sessionId # NoSession
    BY <2>2, OfferedAssumption DEF Sessions
  <2> QED
    BY <2>1, <2>3 DEF SessionRestarts
<1>7. ASSUME NEW i \in 1 .. last
      PROVE  frames'[i].session = sessionId'
  <2>1. CASE i = last
    BY <1>1, <1>2, <2>1
  <2>2. CASE i \in 1 .. last - 1
    BY <1>1, <1>2, <1>5, <1>6, <2>2 DEF IInv, CaptureOrder
  <2> QED
    BY <1>5, <2>1, <2>2
<1>8. ASSUME NEW i \in 1 .. last
      PROVE  frames'[i].sequence = nextSequence' - last + i - 1
  <2>1. CASE i = last
    BY <1>1, <1>2, <1>5, <2>1
  <2>2. CASE i \in 1 .. last - 1
    <3>1. frames[n + i].sequence = nextSequence - Len(frames) + (n + i) - 1
      BY <1>5, <2>2 DEF IInv, CaptureOrder
    <3>2. frames'[i] = frames[n + i]
      BY <1>1, <2>2
    <3>3. nextSequence - Len(frames) + (n + i) - 1 = nextSequence' - last + i - 1
      BY <1>1, <1>2, <2>2
    <3> QED
      BY <3>1, <3>2, <3>3
  <2> QED
    BY <1>5, <2>1, <2>2
<1>9. ASSUME NEW i \in 1 .. last - 1
      PROVE  frames[n + i].ts <= f.ts
  <2>1. ~SessionRestarts(f) /\ Len(frames) # 0 /\ frames # <<>>
    BY <1>1, EmptySeq
  <2>2. ~ (f.ts < frames[Len(frames)].ts)
    BY <2>1 DEF IngestFrame, Accepts, ClockWentBackwards, QueueInSession
  <2>3. n + i \in 1 .. Len(frames) /\ Len(frames) \in n + i .. Len(frames)
    BY <1>1, <1>5
  <2>4. frames[n + i].ts <= frames[Len(frames)].ts
    BY <2>3 DEF IInv, CaptureOrder
  <2>5. Len(frames) \in 1 .. Len(frames)
    BY <1>1, <2>1
  <2> QED
    BY <1>3, <1>4, <2>2, <2>3, <2>4, <2>5
<1>10. ASSUME NEW i \in 1 .. last, NEW j \in i .. last
       PROVE  frames'[i].ts <= frames'[j].ts
  <2>1. CASE i = last
    <3>1. j = last
      BY <1>5, <2>1
    <3> QED
      BY <1>1, <1>2, <1>3, <2>1, <3>1
  <2>2. CASE i \in 1 .. last - 1 /\ j = last
    BY <1>1, <1>2, <1>9, <2>2
  <2>3. CASE i \in 1 .. last - 1 /\ j \in 1 .. last - 1
    <3>1. n + i \in 1 .. Len(frames) /\ n + j \in n + i .. Len(frames)
      BY <1>1, <1>5, <2>3
    <3> QED
      BY <1>1, <2>3, <3>1 DEF IInv, CaptureOrder
  <2>4. \/ i = last
        \/ i \in 1 .. last - 1 /\ j = last
        \/ i \in 1 .. last - 1 /\ j \in 1 .. last - 1
    BY <1>5
  <2> QED
    BY <2>1, <2>2, <2>3, <2>4
<1> QED
  BY <1>1, <1>7, <1>8, <1>10 DEF CaptureOrder

\* A range that ends before another begins shares no byte with it.
LEMMA ApartRanges ==
    ASSUME NEW a \in Nat, NEW e \in Nat, NEW o \in Nat, NEW l \in Nat,
           o + l <= a \/ e <= o, NEW b \in a .. e - 1
    PROVE  b \notin o .. o + l - 1
  OBVIOUS

\* A kept frame lies beyond the new one or before it, so copying the new
\* bytes leaves the kept ones alone.
LEMMA NoOverwrittenFrameStep ==
    ASSUME IInv, NEW f \in Offered, IngestFrame(f)
    PROVE  NoOverwrittenFrame'
<1> DEFINE n == EvictedBy(f)
           q == QueueAfterEviction(f)
           off == OffsetFor(f)
           last == Len(frames) - n + 1
<1>0. PICK was \in 0 .. Len(QueueInSession(f)) :
         LapSplit(QueueInSession(f), PointerInSession(f), was)
  BY LapsOfSession DEF IInv
<1>1. PICK k \in 0 .. Len(q) :
         /\ \A i \in 1 .. k : off + f.len <= q[i].offset
         /\ \A i \in k + 1 .. Len(q) : EndOffset(q[i]) <= off
  BY <1>0, TwoLapsAroundNewFrame DEF IInv, IngestFrame
<1>2. /\ n \in 0 .. Len(frames) /\ Len(frames) \in Nat
      /\ Len(q) = last - 1 /\ Len(frames') = last
      /\ \A i \in 1 .. last - 1 : frames'[i] = q[i] /\ frames'[i] = frames[n + i]
      /\ frames'[last] = DescriptorFor(f)
  <2>1. /\ n \in 0 .. Len(frames) /\ Len(frames) \in Nat
        /\ Len(frames') = Len(frames) - n + 1
        /\ \A i \in 1 .. Len(frames) - n : frames'[i] = frames[n + i] /\ frames'[i] = q[i]
        /\ frames'[Len(frames) - n + 1] = DescriptorFor(f)
    BY IngestedQueue DEF IInv
  <2>2. Len(q) = Len(frames) - n
    BY KeptIsSuffix DEF IInv
  <2> HIDE DEF n, q
  <2>3. last - 1 = Len(frames) - n
    BY <2>1
  <2> HIDE DEF last
  <2>4. Len(frames) - n + 1 = last
    BY DEF last
  <2> QED
    BY <2>1, <2>2, <2>3, <2>4
<1>3. /\ f.len \in Nat \ {0} /\ off \in Nat /\ off + f.len <= Capacity
      /\ Bytes(DescriptorFor(f)) = off .. off + f.len - 1
      /\ DescriptorFor(f).sequence = nextSequence
  BY NewFrameFits DEF IInv, IngestFrame, EndOffset, DescriptorFor, Bytes
<1>4. arena' = [b \in Offsets |->
                   IF b \in off .. off + f.len - 1 THEN nextSequence ELSE arena[b]]
  BY <1>3 DEF IngestFrame
<1> HIDE DEF n, q, off, last
<1>5. last \in Nat \ {0} /\ \A i \in 1 .. last - 1 : n + i \in 1 .. Len(frames)
  BY <1>2 DEF last
<1>6. ASSUME NEW i \in 1 .. last - 1, NEW b \in Bytes(frames'[i])
      PROVE  arena'[b] = frames'[i].sequence
  <2>1. frames'[i] = frames[n + i] /\ n + i \in 1 .. Len(frames)
    BY <1>2, <1>5
  <2>2. /\ frames[n + i].offset \in Nat /\ frames[n + i].len \in Nat \ {0}
        /\ EndOffset(frames[n + i]) <= Capacity
    BY <2>1, IndexedFrame DEF IInv
  <2>3. arena[b] = frames[n + i].sequence
    BY <2>1 DEF IInv, NoOverwrittenFrame
  <2>4. b \in Offsets
    BY <2>1, <2>2, CapacityAssumption, SMTT(30) DEF Bytes, EndOffset, Offsets
  <2>5. off + f.len <= frames[n + i].offset \/ EndOffset(frames[n + i]) <= off
    <3>1. i \in 1 .. k \/ i \in k + 1 .. Len(q)
      BY <1>1, <1>2, <1>5
    <3> QED
      BY <1>1, <1>2, <2>1, <3>1
  <2>6. b \notin off .. off + f.len - 1
    <3>1. b \in frames[n + i].offset .. EndOffset(frames[n + i]) - 1
      BY <2>1 DEF Bytes
    <3>2. EndOffset(frames[n + i]) \in Nat
      BY <2>2 DEF EndOffset
    <3>3. f.len \in Nat /\ off \in Nat /\ frames[n + i].offset \in Nat
      BY <1>3, <2>2
    <3> HIDE DEF EndOffset
    <3> QED
      BY <2>5, <3>1, <3>2, <3>3, ApartRanges
  <2> QED
    BY <1>4, <2>1, <2>3, <2>4, <2>6
<1>7. ASSUME NEW b \in Bytes(frames'[last])
      PROVE  arena'[b] = frames'[last].sequence
  <2>1. b \in off .. off + f.len - 1
    BY <1>2, <1>3
  <2>2. b \in Offsets
    BY <1>3, <2>1, CapacityAssumption DEF Offsets
  <2> QED
    BY <1>2, <1>3, <1>4, <2>1, <2>2
<1>8. \A i \in 1 .. last : i \in 1 .. last - 1 \/ i = last
  BY <1>5
<1> QED
  BY <1>2, <1>6, <1>7, <1>8 DEF NoOverwrittenFrame, Bytes, EndOffset

\* Each of the three ways a frame leaves is counted once.
LEMMA AccountingStep ==
    ASSUME IInv, NEW f \in Offered, IngestFrame(f)
    PROVE  Accounting'
<1>1. /\ EvictedBy(f) \in 0 .. Len(frames) /\ Len(frames) \in Nat
      /\ Len(frames') = Len(frames) - EvictedBy(f) + 1
  BY IngestedQueue DEF IInv
<1> QED
  BY <1>1 DEF IngestFrame, Accounting, IInv, TypeOK

\* The inductive invariant holds throughout.
THEOREM InductiveInvariant == Spec => []IInv
<1>1. Init => IInv
  <2> SUFFICES ASSUME Init PROVE IInv
    OBVIOUS
  <2>1. TypeOK
    BY CapacityAssumption, EmptySeq DEF Init, TypeOK, Offsets
  <2>2. frames = <<>> /\ Len(frames) = 0
    BY EmptySeq DEF Init
  <2>3. TwoLaps
    BY <2>2 DEF TwoLaps, LapSplit, Ascending
  <2>4. NoOverwrittenFrame /\ CaptureOrder
    BY <2>2 DEF NoOverwrittenFrame, CaptureOrder
  <2>5. Accounting
    BY <2>2 DEF Accounting, Init
  <2> QED
    BY <2>1, <2>3, <2>4, <2>5 DEF IInv
<1>2. IInv /\ TypeOK' /\ [Next]_vars => IInv'
  <2> SUFFICES ASSUME IInv, TypeOK', [Next]_vars
               PROVE  IInv'
    OBVIOUS
  <2>1. ASSUME NEW f \in Offered, IngestFrame(f)
        PROVE  IInv'
    BY <2>1, TwoLapsStep, NoOverwrittenFrameStep, CaptureOrderStep, AccountingStep DEF IInv
  <2>2. CASE UNCHANGED vars
    BY <2>2 DEF vars, IInv, TwoLaps, LapSplit, Ascending, NoOverwrittenFrame, Bytes,
                EndOffset, CaptureOrder, Accounting
  <2> QED
    BY <2>1, <2>2 DEF Next, RejectFrame
<1> QED
  BY <1>1, <1>2, TypeInvariant, PTL DEF Spec

\* No descriptor ever points at bytes that were overwritten (ring_buffer.hpp,
\* third invariant of the class).
THEOREM NoOverwrittenFrameAlways == Spec => []NoOverwrittenFrame
<1>1. IInv => NoOverwrittenFrame
  BY DEF IInv
<1> QED
  BY <1>1, InductiveInvariant, PTL

\* The index is always the gapless, ordered tail of one session
\* (ring_buffer.hpp, second invariant of the class).
THEOREM CaptureOrderAlways == Spec => []CaptureOrder
<1>1. IInv => CaptureOrder
  BY DEF IInv
<1> QED
  BY <1>1, InductiveInvariant, PTL

\* BufferStats never loses a frame: ingested = evicted + stored.
THEOREM AccountingAlways == Spec => []Accounting
<1>1. IInv => Accounting
  BY DEF IInv
<1> QED
  BY <1>1, InductiveInvariant, PTL

-----------------------------------------------------------------------------
(***************************************************************************)
(* The index implements the log of FrameWindowLog.                         *)
(***************************************************************************)
VisibleEntry == [sequence : Nat, ts : Int, key : BOOLEAN, session : Sessions]

\* The visible frames form a sequence as long as the queue.
LEMMA VisibleIsSequence ==
    ASSUME NEW q \in Seq(FrameDescriptor)
    PROVE  LET v == [i \in 1 .. Len(q) |-> Visible(q[i])] IN
           v \in Seq(VisibleEntry) /\ Len(v) = Len(q)
<1> DEFINE v == [i \in 1 .. Len(q) |-> Visible(q[i])]
<1>1. Len(q) \in Nat
  BY LenProperties
<1>2. \A i \in 1 .. Len(q) : Visible(q[i]) \in VisibleEntry
  <2> SUFFICES ASSUME NEW i \in 1 .. Len(q)
               PROVE  Visible(q[i]) \in VisibleEntry
    OBVIOUS
  <2>1. q[i] \in FrameDescriptor
    BY ElementOfSeq
  <2> QED
    BY <2>1 DEF Visible, VisibleEntry, FrameDescriptor
<1>3. v \in [1 .. Len(q) -> VisibleEntry]
  BY <1>2
<1>4. v \in Seq(VisibleEntry)
  BY <1>1, <1>3, SeqDef
<1>5. DOMAIN v = 1 .. Len(v) /\ Len(v) \in Nat
  BY <1>4, LenProperties
<1>6. Len(v) = Len(q)
  BY <1>1, <1>3, <1>5
<1> QED
  BY <1>4, <1>6

\* An ingested frame extends or restarts the log.
LEMMA IngestRefinesAccept ==
    ASSUME IInv, NEW f \in Offered, IngestFrame(f)
    PROVE  Log!Accept(f)
<1> DEFINE n == EvictedBy(f)
           v == VisibleFrames
           entry == [sequence |-> nextSequence, ts |-> f.ts, key |-> f.key,
                     session |-> f.session]
           rest == SubSeq(v, n + 1, Len(v))
           last == Len(frames) - n + 1
<1>1. /\ n \in 0 .. Len(frames) /\ Len(frames) \in Nat
      /\ SessionRestarts(f) => n = Len(frames)
      /\ frames' \in Seq(FrameDescriptor)
      /\ Len(frames') = last
      /\ \A i \in 1 .. last - 1 : frames'[i] = frames[n + i]
      /\ frames'[last] = DescriptorFor(f)
  BY IngestedQueue DEF IInv
<1>2. v \in Seq(VisibleEntry) /\ Len(v) = Len(frames)
  BY VisibleIsSequence DEF VisibleFrames, IInv, TypeOK
<1>3. v' \in Seq(VisibleEntry) /\ Len(v') = last
  BY <1>1, VisibleIsSequence DEF VisibleFrames
<1>4. entry \in VisibleEntry
  BY OfferedAssumption DEF VisibleEntry, Sessions, IInv, TypeOK
<1>5. /\ rest \in Seq(VisibleEntry)
      /\ Len(rest) = last - 1
      /\ \A i \in 1 .. last - 1 : rest[i] = v[n + i]
  <2>1. rest = DropFirst(v, n)
    BY DEF DropFirst
  <2> HIDE DEF rest, v, n
  <2>2. /\ DropFirst(v, n) \in Seq(VisibleEntry)
        /\ Len(DropFirst(v, n)) = Len(v) - n
        /\ \A i \in 1 .. Len(v) - n : DropFirst(v, n)[i] = v[n + i]
    <3>1. n \in 0 .. Len(v) /\ v \in Seq(VisibleEntry)
      BY <1>1, <1>2
    <3> QED
      BY <3>1, DropFirstProperties
  <2>3. Len(v) - n = last - 1
    BY <1>1, <1>2
  <2> QED
    BY <2>1, <2>2, <2>3
<1>6. /\ Append(rest, entry) \in Seq(VisibleEntry)
      /\ Len(Append(rest, entry)) = last
      /\ \A i \in 1 .. last - 1 : Append(rest, entry)[i] = rest[i]
      /\ Append(rest, entry)[last] = entry
  <2> HIDE DEF rest, entry
  <2>1. Len(rest) + 1 = last
    BY <1>1, <1>5
  <2> QED
    BY <1>4, <1>5, <2>1, AppendProperties
<1>7. ASSUME NEW i \in 1 .. last
      PROVE  v'[i] = Append(rest, entry)[i]
  <2>1. v'[i] = Visible(frames'[i])
    BY <1>1 DEF VisibleFrames
  <2>2. CASE i = last
    <3>1. Visible(DescriptorFor(f)) = entry
      BY DEF Visible, DescriptorFor
    <3> QED
      BY <1>1, <1>6, <2>1, <2>2, <3>1
  <2>3. CASE i \in 1 .. last - 1
    <3>1. n + i \in 1 .. Len(frames)
      BY <1>1, <2>3
    <3>2. v[n + i] = Visible(frames[n + i])
      BY <3>1 DEF VisibleFrames
    <3> HIDE DEF rest, v, entry
    <3> QED
      BY <1>1, <1>5, <1>6, <2>1, <2>3, <3>2
  <2>4. i = last \/ i \in 1 .. last - 1
    BY <1>1
  <2> QED
    BY <2>2, <2>3, <2>4
<1>8. v' = Append(rest, entry)
  <2> HIDE DEF rest, v, entry
  <2> QED
    BY <1>3, <1>6, <1>7, SeqEqual
<1>9. CASE SessionRestarts(f)
  <2>1. rest = <<>>
    BY <1>1, <1>2, <1>9, SubSeqEmpty
  <2>2. v' = <<entry>>
    <3>1. Append(<<>>, entry) = <<entry>>
      OBVIOUS
    <3> HIDE DEF rest, v, entry
    <3> QED
      BY <1>8, <2>1, <3>1
  <2>3. Log!Entry(f) = entry
    BY DEF Log!Entry
  <2>4. Log!Restart(f)
    BY <1>9, <2>2, <2>3 DEF Log!Restart, SessionRestarts
  <2> QED
    BY <2>4 DEF Log!Accept, IngestFrame
<1>10. CASE ~SessionRestarts(f)
  <2>1. v # <<>> => v[Len(v)].ts <= f.ts
    <3>1. SUFFICES ASSUME v # <<>> PROVE v[Len(v)].ts <= f.ts
      OBVIOUS
    <3>2. Len(frames) \in 1 .. Len(frames) /\ frames # <<>>
      BY <1>1, <1>2, <3>1, EmptySeq DEF VisibleFrames
    <3>3. v[Len(v)].ts = frames[Len(frames)].ts
      BY <1>2, <3>2 DEF VisibleFrames, Visible
    <3>4. ~ (f.ts < frames[Len(frames)].ts)
      BY <1>10, <3>2 DEF IngestFrame, Accepts, ClockWentBackwards, QueueInSession
    <3> QED
      BY <3>2, <3>3, <3>4, OfferedAssumption, IndexedFrame DEF IInv
  <2>2. Log!Entry(f) = entry
    BY DEF Log!Entry
  <2>3. n \in 0 .. Len(v)
    BY <1>1, <1>2
  <2>4. Log!Extend(f)
    BY <1>8, <1>10, <2>1, <2>2, <2>3 DEF Log!Extend, SessionRestarts
  <2> QED
    BY <2>4 DEF Log!Accept, IngestFrame
<1> QED
  BY <1>9, <1>10

\* RingBuffer implements FrameWindowLog: for whoever reads the index it is
\* the log of the most recent frames of the current session.
THEOREM RingBufferImplementsLog == Spec => ImplementsLog
<1>1. Init => Log!LogInit
  <2> SUFFICES ASSUME Init PROVE Log!LogInit
    OBVIOUS
  <2>1. VisibleFrames = <<>>
    BY EmptySeq DEF Init, VisibleFrames
  <2> QED
    BY <2>1 DEF Log!LogInit, Init
<1>2. IInv /\ [Next]_vars => [Log!LogNext]_(Log!logVars)
  <2> SUFFICES ASSUME IInv, [Next]_vars
               PROVE  [Log!LogNext]_(Log!logVars)
    OBVIOUS
  <2>1. ASSUME NEW f \in Offered, IngestFrame(f)
        PROVE  Log!LogNext
    BY <2>1, IngestRefinesAccept DEF Log!LogNext
  <2>2. CASE UNCHANGED vars
    BY <2>2 DEF vars, Log!logVars, VisibleFrames, Visible
  <2> QED
    BY <2>1, <2>2 DEF Next, RejectFrame
<1> QED
  BY <1>1, <1>2, InductiveInvariant, PTL DEF Spec, ImplementsLog, Log!LogSpec

-----------------------------------------------------------------------------
(***************************************************************************)
(* What segmentFor answers.  The lemmas speak of any queue, so that they   *)
(* hold of the index before a step and of the index after it.              *)
(***************************************************************************)
Before(q, w) == {i \in 1 .. Len(q) : q[i].key /\ q[i].ts <= w.start}
Within(q, w) == {i \in 1 .. Len(q) : Contains(w, q[i].ts) /\ q[i].key}
UpToEnd(q, w) == {i \in 1 .. Len(q) : q[i].ts <= w.end}
FirstOf(q, w) == IF Before(q, w) # {} THEN Highest(Before(q, w)) ELSE Lowest(Within(q, w))
LastOf(q, w) == Highest(UpToEnd(q, w))
HasAnswer(q, w) ==
    /\ {i \in 1 .. Len(q) : Contains(w, q[i].ts)} # {}
    /\ Before(q, w) \cup Within(q, w) # {}
InOrder(q) == \A i, j \in 1 .. Len(q) : i <= j => q[i].ts <= q[j].ts

\* A set of indices has a lowest and a highest one.
LEMMA LowestIndex ==
    ASSUME NEW n \in Nat, NEW S \in SUBSET (1 .. n), S # {}
    PROVE  Lowest(S) \in S /\ \A j \in S : Lowest(S) <= j
<1>1. S \subseteq Nat
  OBVIOUS
<1>2. PICK i \in S : \A j \in S : i <= j
  BY <1>1, LeastNatural
<1> QED
  BY <1>2 DEF Lowest

LEMMA HighestIndex ==
    ASSUME NEW n \in Nat, NEW S \in SUBSET (1 .. n), S # {}
    PROVE  Highest(S) \in S /\ \A j \in S : j <= Highest(S)
<1> DEFINE T == {m \in 0 .. n : n - m \in S}
<1>1. T \subseteq Nat
  OBVIOUS
<1>2. \A i \in S : n - i \in T
  <2> SUFFICES ASSUME NEW i \in S PROVE n - i \in T
    OBVIOUS
  <2>1. n - i \in 0 .. n /\ n - (n - i) = i
    OBVIOUS
  <2> QED
    BY <2>1
<1>3. PICK m \in T : \A k \in T : m <= k
  <2>1. T # {}
    BY <1>2
  <2> HIDE DEF T
  <2> QED
    BY <1>1, <2>1, LeastNatural
<1>4. n - m \in S
  OBVIOUS
<1>5. ASSUME NEW j \in S
      PROVE  j <= n - m
  BY <1>2, <1>3
<1> QED
  BY <1>4, <1>5 DEF Highest

\* decodableStartIndex and lastIndexWithin find what they look for, and the
\* segment between them is not empty.
LEMMA SegmentBounds ==
    ASSUME NEW q \in Seq(FrameDescriptor), NEW w \in Windows, HasAnswer(q, w)
    PROVE  /\ Len(q) \in Nat
           /\ \A i \in 1 .. Len(q) : q[i].ts \in Int
           /\ w.start \in Int /\ w.end \in Int /\ w.start < w.end
           /\ FirstOf(q, w) \in 1 .. Len(q)
           /\ LastOf(q, w) \in FirstOf(q, w) .. Len(q)
           /\ q[FirstOf(q, w)].key
           /\ q[LastOf(q, w)].ts <= w.end
           /\ \A i \in UpToEnd(q, w) : i <= LastOf(q, w)
           /\ \/ /\ q[FirstOf(q, w)].ts <= w.start
                 /\ \A i \in Before(q, w) : i <= FirstOf(q, w)
              \/ /\ Before(q, w) = {}
                 /\ FirstOf(q, w) \in Within(q, w)
                 /\ \A i \in Within(q, w) : FirstOf(q, w) <= i
<1>1. Len(q) \in Nat
  BY LenProperties
<1>2. \A i \in 1 .. Len(q) : q[i].ts \in Int
  <2> SUFFICES ASSUME NEW i \in 1 .. Len(q) PROVE q[i].ts \in Int
    OBVIOUS
  <2>1. q[i] \in FrameDescriptor
    BY ElementOfSeq
  <2> QED
    BY <2>1 DEF FrameDescriptor
<1>3. w.start \in Int /\ w.end \in Int /\ w.start < w.end
  BY WindowsAssumption
<1>4. UpToEnd(q, w) \in SUBSET (1 .. Len(q)) /\ UpToEnd(q, w) # {}
  BY DEF UpToEnd, HasAnswer, Contains
<1>5. LastOf(q, w) \in UpToEnd(q, w) /\ \A i \in UpToEnd(q, w) : i <= LastOf(q, w)
  BY <1>1, <1>4, HighestIndex DEF LastOf
<1>6. CASE Before(q, w) # {}
  <2>1. FirstOf(q, w) = Highest(Before(q, w)) /\ Before(q, w) \in SUBSET (1 .. Len(q))
    BY <1>6 DEF FirstOf, Before
  <2>2. FirstOf(q, w) \in Before(q, w) /\ \A i \in Before(q, w) : i <= FirstOf(q, w)
    BY <1>1, <1>6, <2>1, HighestIndex
  <2>3. FirstOf(q, w) \in UpToEnd(q, w)
    BY <1>2, <1>3, <2>2 DEF Before, UpToEnd
  <2> QED
    BY <1>1, <1>2, <1>3, <1>5, <2>2, <2>3 DEF Before, UpToEnd
<1>7. CASE Before(q, w) = {}
  <2>1. FirstOf(q, w) = Lowest(Within(q, w)) /\ Within(q, w) \in SUBSET (1 .. Len(q))
    BY <1>7 DEF FirstOf, Within
  <2>2. Within(q, w) # {}
    BY <1>7 DEF HasAnswer
  <2>3. FirstOf(q, w) \in Within(q, w) /\ \A i \in Within(q, w) : FirstOf(q, w) <= i
    BY <1>1, <2>1, <2>2, LowestIndex
  <2>4. FirstOf(q, w) \in UpToEnd(q, w)
    BY <2>3 DEF Within, UpToEnd, Contains
  <2> QED
    BY <1>1, <1>2, <1>3, <1>5, <1>7, <2>3, <2>4 DEF Within, UpToEnd
<1> QED
  BY <1>6, <1>7

\* The operators of RingBuffer are those of its index.
LEMMA SegmentOfIndex ==
    ASSUME NEW w
    PROVE  /\ Answers(w) <=> HasAnswer(frames, w)
           /\ DecodableStart(w) = FirstOf(frames, w)
           /\ LastWithin(w) = LastOf(frames, w)
<1>1. KeyframesBefore(w) = Before(frames, w)
  BY DEF KeyframesBefore, Before
<1>2. KeyframesWithin(w) = Within(frames, w)
  BY DEF KeyframesWithin, Within, InWindow
<1> QED
  BY <1>1, <1>2 DEF Answers, WindowAbsent, NoDecodableStart, HasAnswer, InWindow,
                    DecodableStart, FirstOf, LastWithin, LastOf, UpToEnd

\* An answered segment is decodable and leaves out no frame of the window
\* that could have been decoded (RingBuffer::segmentFor).
LEMMA CaptureOrderCompletes ==
    ASSUME TypeOK, CaptureOrder
    PROVE  SegmentComplete
<1> SUFFICES ASSUME NEW w \in Windows, Answers(w)
             PROVE  LET segment == SegmentFor(w)
                        first == DecodableStart(w)
                        left == {i \in InWindow(w) : frames[i].ts > w.start
                                         /\ i \notin first .. LastWithin(w)}
                    IN /\ segment.frames # <<>>
                       /\ segment.frames[1].key
                       /\ ~segment.isTruncatedAtStart => left = {}
                       /\ \A i \in left : \A j \in 1 .. i : ~frames[j].key
  BY DEF SegmentComplete
<1> DEFINE first == FirstOf(frames, w)
           last == LastOf(frames, w)
           left == {i \in InWindow(w) : frames[i].ts > w.start /\ i \notin first .. last}
<1>1. frames \in Seq(FrameDescriptor) /\ HasAnswer(frames, w)
  BY SegmentOfIndex DEF TypeOK
<1>2. /\ Len(frames) \in Nat
      /\ \A i \in 1 .. Len(frames) : frames[i].ts \in Int
      /\ w.start \in Int /\ w.end \in Int
      /\ first \in 1 .. Len(frames)
      /\ last \in first .. Len(frames)
      /\ frames[first].key
      /\ \A i \in UpToEnd(frames, w) : i <= last
      /\ \/ frames[first].ts <= w.start
         \/ /\ Before(frames, w) = {}
            /\ \A i \in Within(frames, w) : first <= i
  BY <1>1, SegmentBounds
<1> HIDE DEF first, last
<1>3. ASSUME NEW i \in left
      PROVE  i \in 1 .. first - 1 /\ w.start < frames[i].ts /\ frames[i].ts <= w.end
  <2>1. i \in 1 .. Len(frames) /\ frames[i].ts <= w.end /\ frames[i].ts > w.start
    BY DEF InWindow, Contains
  <2>2. i <= last
    BY <1>2, <2>1 DEF UpToEnd
  <2> QED
    BY <1>2, <2>1, <2>2
<1>4. ASSUME frames[first].ts <= w.start PROVE left = {}
  <2> SUFFICES ASSUME NEW i \in left PROVE FALSE
    OBVIOUS
  <2>1. i \in 1 .. first - 1 /\ w.start < frames[i].ts
    BY <1>3
  <2>2. i \in 1 .. Len(frames) /\ first \in i .. Len(frames)
    BY <1>2, <2>1
  <2>3. frames[i].ts <= frames[first].ts
    BY <2>2 DEF CaptureOrder
  <2> QED
    BY <1>2, <1>4, <2>1, <2>2, <2>3
<1>5. ASSUME NEW i \in left, NEW j \in 1 .. i, frames[j].key
      PROVE  FALSE
  <2>1. i \in 1 .. first - 1 /\ frames[i].ts <= w.end
    BY <1>3
  <2>2. /\ Before(frames, w) = {}
        /\ \A k \in Within(frames, w) : first <= k
    BY <1>2, <1>4
  <2>3. j \in 1 .. Len(frames) /\ i \in j .. Len(frames) /\ j < first
    BY <1>2, <2>1
  <2>4. frames[j].ts <= frames[i].ts
    BY <2>3 DEF CaptureOrder
  <2>5. ~(frames[j].ts <= w.start)
    BY <1>5, <2>2, <2>3 DEF Before
  <2>6. j \in Within(frames, w)
    BY <1>2, <1>5, <2>1, <2>3, <2>4, <2>5 DEF Within, Contains
  <2> QED
    BY <1>2, <2>2, <2>3, <2>6
<1>6. /\ SubSeq(frames, first, last) # <<>>
      /\ SubSeq(frames, first, last)[1] = frames[first]
  <2>1. \A i \in first .. last : frames[i] \in FrameDescriptor
    <3> SUFFICES ASSUME NEW i \in first .. last PROVE frames[i] \in FrameDescriptor
      OBVIOUS
    <3>1. i \in 1 .. Len(frames)
      BY <1>2
    <3> QED
      BY <1>1, <3>1, ElementOfSeq
  <2>2. /\ SubSeq(frames, first, last) \in Seq(FrameDescriptor)
        /\ Len(SubSeq(frames, first, last)) = last - first + 1
        /\ SubSeq(frames, first, last)[1] = frames[first + 1 - 1]
    BY <1>2, <2>1, SubSeqProperties
  <2> QED
    BY <1>2, <2>2, EmptySeq
<1>7. /\ SegmentFor(w).frames = SubSeq(frames, first, last)
      /\ SegmentFor(w).isTruncatedAtStart <=> frames[first].ts > w.start
  BY SegmentOfIndex DEF SegmentFor, first, last
<1>8. left = {i \in InWindow(w) : frames[i].ts > w.start
                          /\ i \notin DecodableStart(w) .. LastWithin(w)}
  BY SegmentOfIndex DEF first, last
<1>9. ~SegmentFor(w).isTruncatedAtStart => frames[first].ts <= w.start
  BY <1>2, <1>7
<1> HIDE DEF left
<1>10. /\ SegmentFor(w).frames # <<>>
       /\ SegmentFor(w).frames[1].key
       /\ ~SegmentFor(w).isTruncatedAtStart => left = {}
       /\ \A i \in left : \A j \in 1 .. i : ~frames[j].key
  BY <1>2, <1>4, <1>5, <1>6, <1>7, <1>9
<1> QED
  BY <1>8, <1>10

\* Every answer of the buffer, at any time and for any window, starts at a
\* keyframe and is complete.
THEOREM SegmentCompleteAlways == Spec => []SegmentComplete
<1>1. IInv => SegmentComplete
  BY CaptureOrderCompletes DEF IInv
<1> QED
  BY <1>1, InductiveInvariant, PTL

\* A later frame only takes the oldest frames from an answer: the segment of a
\* queue that lost n frames and gained one captured after the window ends where
\* it ended before and starts no earlier.
LEMMA LaterFrameSettles ==
    ASSUME NEW q \in Seq(FrameDescriptor), NEW r \in Seq(FrameDescriptor),
           NEW n \in 0 .. Len(q), NEW w \in Windows,
           InOrder(q), HasAnswer(q, w), HasAnswer(r, w),
           Len(r) = Len(q) - n + 1,
           \A i \in 1 .. Len(q) - n : r[i] = q[n + i],
           q[Len(q)].ts > w.end, r[Len(r)].ts > w.end
    PROVE  /\ n + LastOf(r, w) = LastOf(q, w)
           /\ FirstOf(q, w) <= n + FirstOf(r, w)
<1> DEFINE kept == Len(q) - n
           fq == FirstOf(q, w)
           lq == LastOf(q, w)
           fr == FirstOf(r, w)
           lr == LastOf(r, w)
<1>1. /\ Len(q) \in Nat
      /\ \A i \in 1 .. Len(q) : q[i].ts \in Int
      /\ w.start \in Int /\ w.end \in Int /\ w.start < w.end
      /\ fq \in 1 .. Len(q) /\ lq \in fq .. Len(q)
      /\ q[fq].key /\ q[lq].ts <= w.end
      /\ \A i \in UpToEnd(q, w) : i <= lq
      /\ \/ q[fq].ts <= w.start /\ \A i \in Before(q, w) : i <= fq
         \/ /\ Before(q, w) = {}
            /\ \A i \in Within(q, w) : fq <= i
  BY SegmentBounds
<1>2. /\ Len(r) \in Nat
      /\ \A i \in 1 .. Len(r) : r[i].ts \in Int
      /\ fr \in 1 .. Len(r) /\ lr \in fr .. Len(r)
      /\ r[fr].key /\ r[lr].ts <= w.end
      /\ \A i \in UpToEnd(r, w) : i <= lr
      /\ \/ r[fr].ts <= w.start /\ \A i \in Before(r, w) : i <= fr
         \/ /\ Before(r, w) = {}
            /\ fr \in Within(r, w)
  BY SegmentBounds
<1> HIDE DEF fq, lq, fr, lr
<1>3. /\ n \in Nat /\ kept \in Nat /\ Len(r) = kept + 1 /\ Len(q) = n + kept
      /\ \A i \in 1 .. kept : r[i] = q[n + i] /\ n + i \in 1 .. Len(q)
  BY <1>1
<1> HIDE DEF kept
\* The newest frame of either queue is after the window.
<1>4. lr \in 1 .. kept /\ fr \in 1 .. kept /\ fr <= lr
  <2>1. ASSUME lr = Len(r) PROVE FALSE
    <3>1. r[lr].ts > w.end /\ r[lr].ts <= w.end /\ r[lr].ts \in Int
      BY <1>2, <2>1
    <3> QED
      BY <1>1, <3>1
  <2> QED
    BY <1>2, <1>3, <2>1
<1>5. n + lr = lq
  <2>1. n + lr \in UpToEnd(q, w)
    BY <1>2, <1>3, <1>4 DEF UpToEnd
  <2>2. n + lr <= lq
    BY <1>1, <2>1
  <2>3. lq - n \in 1 .. kept /\ n + (lq - n) = lq
    BY <1>1, <1>3, <1>4, <2>2
  <2>4. r[lq - n] = q[lq]
    BY <1>3, <2>3
  <2>5. lq - n \in UpToEnd(r, w)
    BY <1>1, <1>3, <2>3, <2>4 DEF UpToEnd
  <2>6. lq - n <= lr
    BY <1>2, <2>5
  <2> QED
    BY <1>1, <1>2, <1>3, <1>4, <2>2, <2>6
<1>6. ASSUME n + fr < fq PROVE FALSE
  <2> DEFINE g == n + fr
  <2>1. g \in 1 .. Len(q) /\ r[fr] = q[g] /\ q[g].key
    BY <1>2, <1>3, <1>4
  <2>2. fq - n \in 1 .. kept /\ n + (fq - n) = fq /\ fr < fq - n
    BY <1>1, <1>3, <1>4, <1>6
  <2>3. r[fq - n] = q[fq]
    BY <1>3, <2>2
  <2>4. q[g].ts <= q[fq].ts
    <3>1. g \in 1 .. Len(q) /\ fq \in 1 .. Len(q) /\ g <= fq
      BY <1>1, <1>6, <2>1
    <3> HIDE DEF g
    <3> QED
      BY <3>1 DEF InOrder
  <2>5. fq - n \in 1 .. Len(r)
    BY <1>3, <2>2
  <2>6. CASE q[fq].ts <= w.start
    <3>1. fq - n \in Before(r, w)
      BY <1>1, <2>3, <2>5, <2>6 DEF Before
    <3> QED
      BY <1>2, <2>2, <3>1
  <2>7. CASE /\ Before(q, w) = {}
             /\ \A i \in Within(q, w) : fq <= i
    <3>1. g \notin Before(q, w)
      BY <2>7
    <3>2. ~(q[g].ts <= w.start)
      BY <2>1, <3>1 DEF Before
    <3>3. fr \in Within(r, w)
      BY <1>2, <2>1, <3>2
    <3>4. g \in Within(q, w)
      BY <2>1, <3>3 DEF Within
    <3> QED
      BY <1>1, <1>6, <2>1, <2>7, <3>4
  <2> QED
    BY <1>1, <2>6, <2>7
<1>7. fq <= n + fr
  BY <1>1, <1>2, <1>3, <1>6
<1> QED
  BY <1>5, <1>7 DEF fq, lq, fr, lr

\* A part of a queue, by its bounds.
LEMMA PartOfQueue ==
    ASSUME NEW q \in Seq(FrameDescriptor), NEW a \in 1 .. Len(q), NEW b \in a .. Len(q)
    PROVE  /\ SubSeq(q, a, b) \in Seq(FrameDescriptor)
           /\ Len(SubSeq(q, a, b)) = b - a + 1
           /\ \A i \in 1 .. b - a + 1 : SubSeq(q, a, b)[i] = q[a + i - 1]
<1>1. Len(q) \in Nat
  BY LenProperties
<1>2. \A i \in a .. b : q[i] \in FrameDescriptor
  <2> SUFFICES ASSUME NEW i \in a .. b PROVE q[i] \in FrameDescriptor
    OBVIOUS
  <2>1. i \in 1 .. Len(q)
    BY <1>1
  <2> QED
    BY <2>1, ElementOfSeq
<1> QED
  BY <1>1, <1>2, SubSeqProperties

\* As long as the session lasts, one more frame leaves a settled answer as it
\* was, less its oldest frames.
LEMMA SettledStep ==
    ASSUME IInv, IInv', NEW f \in Offered, IngestFrame(f), sessionId' = sessionId,
           NEW w \in Windows, Answers(w), Answers(w)',
           frames[Len(frames)].ts > w.end
    PROVE  IsSuffixOf(SegmentFor(w).frames', SegmentFor(w).frames)
<1> DEFINE n == EvictedBy(f)
           fq == FirstOf(frames, w)
           fr == FirstOf(frames', w)
           l == LastOf(frames, w)
           lr == LastOf(frames', w)
           s == SubSeq(frames, fq, l)
           t == SubSeq(frames', fr, lr)
           k == n + fr - fq
<1>1. /\ n \in 0 .. Len(frames) /\ Len(frames) \in Nat
      /\ frames \in Seq(FrameDescriptor) /\ frames' \in Seq(FrameDescriptor)
      /\ Len(frames') = Len(frames) - n + 1
      /\ \A i \in 1 .. Len(frames) - n : frames'[i] = frames[n + i]
      /\ frames'[Len(frames')] = DescriptorFor(f)
  BY IngestedQueue DEF IInv, TypeOK
<1>2. HasAnswer(frames, w) /\ HasAnswer(frames', w)
  <2>1. HasAnswer(frames, w)
    BY SegmentOfIndex
  <2>2. HasAnswer(frames', w)
    BY DEF Answers, WindowAbsent, NoDecodableStart, HasAnswer, InWindow,
           KeyframesBefore, KeyframesWithin, Before, Within
  <2> QED
    BY <2>1, <2>2
<1>3. /\ SegmentFor(w).frames = s
      /\ SegmentFor(w).frames' = t
  <2>1. SegmentFor(w).frames = s
    BY SegmentOfIndex DEF SegmentFor
  <2>2. KeyframesBefore(w)' = Before(frames', w)
    BY DEF KeyframesBefore, Before
  <2>3. KeyframesWithin(w)' = Within(frames', w)
    BY DEF KeyframesWithin, Within, InWindow
  <2>4. DecodableStart(w)' = fr /\ LastWithin(w)' = lr
    BY <2>2, <2>3 DEF DecodableStart, FirstOf, LastWithin, LastOf, UpToEnd
  <2> QED
    BY <2>1, <2>4 DEF SegmentFor
<1>4. InOrder(frames)
  BY <1>1 DEF IInv, CaptureOrder, InOrder
<1>5. /\ w.end \in Int /\ fq \in 1 .. Len(frames) /\ l \in fq .. Len(frames)
      /\ \A i \in 1 .. Len(frames) : frames[i].ts \in Int
  BY <1>1, <1>2, SegmentBounds
<1>6. fr \in 1 .. Len(frames') /\ lr \in fr .. Len(frames')
  BY <1>1, <1>2, SegmentBounds
<1>7. frames'[Len(frames')].ts > w.end
  <2>1. Len(frames) \in 1 .. Len(frames) /\ frames # <<>>
    BY <1>1, <1>5, EmptySeq
  <2>2. frames[Len(frames)].session = sessionId /\ sessionId # NoSession
    <3>1. frames[Len(frames)].session \in Sessions
      BY <2>1, IndexedFrame DEF IInv
    <3> QED
      BY <2>1, <3>1, OfferedAssumption DEF IInv, CaptureOrder, Sessions
  <2>3. ~SessionRestarts(f)
    BY DEF SessionRestarts, IngestFrame
  <2>4. ~(f.ts < frames[Len(frames)].ts)
    BY <2>1, <2>3 DEF IngestFrame, Accepts, ClockWentBackwards, QueueInSession
  <2>5. frames'[Len(frames')].ts = f.ts
    BY <1>1 DEF DescriptorFor
  <2> QED
    BY <1>5, <2>1, <2>4, <2>5, OfferedAssumption
<1>8. n + lr = l /\ fq <= n + fr
  <2> HIDE DEF n
  <2> QED
    BY <1>1, <1>2, <1>4, <1>7, LaterFrameSettles
<1>9. /\ s \in Seq(FrameDescriptor) /\ Len(s) = l - fq + 1
      /\ \A i \in 1 .. l - fq + 1 : s[i] = frames[fq + i - 1]
      /\ t \in Seq(FrameDescriptor) /\ Len(t) = lr - fr + 1
      /\ \A i \in 1 .. lr - fr + 1 : t[i] = frames'[fr + i - 1]
  <2> HIDE DEF fq, l, fr, lr
  <2>1. /\ s \in Seq(FrameDescriptor) /\ Len(s) = l - fq + 1
        /\ \A i \in 1 .. l - fq + 1 : s[i] = frames[fq + i - 1]
    BY <1>1, <1>5, PartOfQueue
  <2>2. /\ t \in Seq(FrameDescriptor) /\ Len(t) = lr - fr + 1
        /\ \A i \in 1 .. lr - fr + 1 : t[i] = frames'[fr + i - 1]
    BY <1>1, <1>6, PartOfQueue
  <2> QED
    BY <2>1, <2>2
<1> HIDE DEF n, fq, fr, l, lr, s, t
<1>10. /\ n \in Nat /\ fq \in Nat /\ l \in Nat /\ fr \in Nat /\ lr \in Nat /\ k \in Nat
       /\ Len(s) = l - fq + 1 /\ Len(t) = lr - fr + 1
       /\ n + lr = l /\ k = n + fr - fq
       /\ 1 <= fq /\ fq <= l /\ l <= Len(frames) /\ 1 <= fr /\ fr <= lr
  BY <1>1, <1>5, <1>6, <1>8, <1>9
<1> HIDE DEF k
<1>11. /\ k \in 0 .. Len(s) /\ Len(t) = Len(s) - k /\ lr \in 1 .. Len(frames) - n
       /\ k = Len(s) - Len(t) /\ Len(t) <= Len(s)
  BY <1>1, <1>10
<1>12. /\ DropFirst(s, k) \in Seq(FrameDescriptor)
       /\ Len(DropFirst(s, k)) = Len(s) - k
       /\ \A i \in 1 .. Len(s) - k : DropFirst(s, k)[i] = s[k + i]
  BY <1>9, <1>11, DropFirstProperties
<1>13. ASSUME NEW i \in 1 .. Len(t)
       PROVE  t[i] = DropFirst(s, k)[i]
  <2>1. fr + i - 1 \in 1 .. Len(frames) - n /\ i \in 1 .. lr - fr + 1
    BY <1>1, <1>10
  <2>2. t[i] = frames[n + (fr + i - 1)]
    BY <1>1, <1>9, <2>1
  <2>3. /\ k + i \in 1 .. l - fq + 1
        /\ fq + (k + i) - 1 = n + (fr + i - 1)
    <3>1. /\ i \in Int /\ n \in Int /\ fq \in Int /\ l \in Int /\ fr \in Int /\ lr \in Int
          /\ 1 <= i /\ i <= lr - fr + 1
      BY <1>10, <2>1
    <3>2. k = n + fr - fq /\ n + lr = l /\ k >= 0
      BY <1>10
    <3>3. k + i \in Int /\ 1 <= k + i /\ k + i <= l - fq + 1
      BY <3>1, <3>2
    <3>4. fq + (k + i) - 1 = n + (fr + i - 1)
      BY <3>1, <3>2
    <3>5. l - fq + 1 \in Int
      BY <3>1
    <3> QED
      BY <3>3, <3>4, <3>5
  <2>4. s[k + i] = frames[n + (fr + i - 1)]
    BY <1>9, <2>3
  <2>5. i \in 1 .. Len(s) - k
    BY <1>11
  <2> QED
    BY <1>12, <2>2, <2>4, <2>5
<1>14. t = DropFirst(s, k)
  BY <1>9, <1>12, <1>13, <1>11, SeqEqual
<1> QED
  BY <1>3, <1>14, <1>11 DEF IsSuffixOf

\* Once a frame captured after a window is in the index, whoever asks for the
\* window later in the session gets the same frames, less the oldest.
THEOREM SettledWindowAlways == Spec => SettledWindow
<1> DEFINE Settled ==
        \A w \in Windows :
            (/\ Answers(w)
             /\ frames[Len(frames)].ts > w.end
             /\ sessionId' = sessionId
             /\ Answers(w)') => IsSuffixOf(SegmentFor(w).frames', SegmentFor(w).frames)
<1>1. IInv /\ IInv' /\ [Next]_vars => [Settled]_vars
  <2> SUFFICES ASSUME IInv, IInv', NEW f \in Offered, IngestFrame(f)
               PROVE  Settled
    BY DEF Next, RejectFrame
  <2> QED
    BY SettledStep
<1> QED
  BY <1>1, InductiveInvariant, PTL DEF Spec, SettledWindow

-----------------------------------------------------------------------------
(***************************************************************************)
(* When a frame is evicted.  Within a lap the frames lie end to end, the   *)
(* current lap starts at 0 and ends at the write pointer, and the previous *)
(* one ends where some offered frame no longer fitted.                     *)
(***************************************************************************)
EndToEnd(q, pointer, k) ==
    /\ \A i \in 1 .. Len(q) - 1 : i # k => EndOffset(q[i]) = q[i + 1].offset
    /\ k < Len(q) => EndOffset(q[Len(q)]) = pointer
    /\ k >= 1 => /\ k < Len(q)
                 /\ q[k + 1].offset = 0
                 /\ EndOffset(q[k]) > Capacity - LongestOffered
FullLaps ==
    \E k \in 0 .. Len(frames) :
        LapSplit(frames, writeOffset, k) /\ EndToEnd(frames, writeOffset, k)

\* There is a longest frame among those that fit the arena.
LEMMA LongestIsLongest ==
    ASSUME NEW f \in Offered, f.len <= Capacity
    PROVE  LongestOffered \in Nat /\ f.len <= LongestOffered
<1> DEFINE T == {Capacity - g.len : g \in {h \in Offered : h.len <= Capacity}}
<1>1. \A g \in Offered : g.len \in Nat
  BY OfferedAssumption
<1>2. T \in SUBSET Nat /\ Capacity - f.len \in T
  BY <1>1, CapacityAssumption
<1>3. PICK n \in T : \A m \in T : n <= m
  <2> HIDE DEF T
  <2> QED
    BY <1>2, LeastNatural
<1>4. PICK g \in Offered : g.len <= Capacity /\ n = Capacity - g.len
  OBVIOUS
<1>5. ASSUME NEW h \in Offered, h.len <= Capacity
      PROVE  h.len <= g.len
  <2>1. Capacity - h.len \in T
    BY <1>5
  <2>2. Capacity - g.len <= Capacity - h.len
    BY <1>3, <1>4, <2>1
  <2> QED
    BY <1>1, <2>2, CapacityAssumption
<1>6. LongestOffered \in {h.len : h \in Offered}
      /\ \A h \in Offered : h.len <= Capacity => h.len <= LongestOffered
  BY <1>4, <1>5 DEF LongestOffered
<1> QED
  BY <1>1, <1>6

\* The recursive sum is whatever function adds one length after the other.
LEMMA TotalIsRunningSum ==
    ASSUME NEW q, Len(q) \in Nat, NEW c \in [0 .. Len(q) -> Int], c[0] = 0,
           \A n \in 1 .. Len(q) : c[n] = c[n - 1] + q[n].len
    PROVE  TotalLength(q) = c[Len(q)]
<1> DEFINE step(g, n) == IF n = 0 THEN 0 ELSE g[n - 1] + q[n].len
           IsSum(g) == g = [n \in 0 .. Len(q) |-> step(g, n)]
<1>1. IsSum(c)
  <2>1. \A n \in 0 .. Len(q) : c[n] = step(c, n)
    <3> SUFFICES ASSUME NEW n \in 0 .. Len(q) PROVE c[n] = step(c, n)
      OBVIOUS
    <3>1. n = 0 \/ n \in 1 .. Len(q)
      OBVIOUS
    <3> QED
      BY <3>1
  <2> HIDE DEF step
  <2> QED
    BY <2>1
<1>2. ASSUME NEW g, IsSum(g)
      PROVE  g[Len(q)] = c[Len(q)]
  <2> DEFINE wrong == {n \in 0 .. Len(q) : g[n] # c[n]}
  <2>1. \A n \in 0 .. Len(q) : g[n] = step(g, n)
    BY <1>2
  <2>2. ASSUME wrong # {}
        PROVE  FALSE
    <3>1. wrong \in SUBSET Nat
      OBVIOUS
    <3>2. PICK n \in wrong : \A m \in wrong : n <= m
      <4> HIDE DEF wrong
      <4> QED
        BY <2>2, <3>1, LeastNatural
    <3>3. n \in 0 .. Len(q) /\ g[n] # c[n] /\ g[n] = step(g, n)
      BY <2>1, <3>2
    <3>4. n # 0
      BY <3>3
    <3>5. n \in 1 .. Len(q) /\ n - 1 \in 0 .. Len(q) /\ ~(n <= n - 1)
      BY <3>3, <3>4
    <3>6. g[n - 1] = c[n - 1]
      BY <3>2, <3>5
    <3> QED
      BY <3>3, <3>4, <3>5, <3>6
  <2>3. Len(q) \in 0 .. Len(q)
    OBVIOUS
  <2> QED
    BY <2>2, <2>3
<1>3. TotalLength(q) = (CHOOSE g : IsSum(g))[Len(q)]
  BY DEF TotalLength
<1> HIDE DEF IsSum
<1>4. IsSum(CHOOSE g : IsSum(g))
  BY <1>1
<1> QED
  BY <1>2, <1>3, <1>4

\* The bytes of two laps are the ranges they span.
LEMMA LengthOfLaps ==
    ASSUME NEW q \in Seq(FrameDescriptor), NEW j \in 0 .. Len(q) - 1,
           \A i \in 1 .. Len(q) - 1 : i # j => EndOffset(q[i]) = q[i + 1].offset
    PROVE  TotalLength(q) = (IF j = 0 THEN 0 ELSE EndOffset(q[j]) - q[1].offset)
                                + (EndOffset(q[Len(q)]) - q[j + 1].offset)
<1> DEFINE first == IF j = 0 THEN 0 ELSE EndOffset(q[j]) - q[1].offset
           c == [n \in 0 .. Len(q) |->
                    IF n = 0 THEN 0
                    ELSE IF n <= j THEN EndOffset(q[n]) - q[1].offset
                    ELSE first + (EndOffset(q[n]) - q[j + 1].offset)]
<1>1. Len(q) \in Nat /\ j \in Nat /\ j + 1 \in 1 .. Len(q)
  BY LenProperties
<1>2. \A i \in 1 .. Len(q) : /\ q[i].offset \in Nat /\ q[i].len \in Nat
                             /\ EndOffset(q[i]) = q[i].offset + q[i].len
  <2> SUFFICES ASSUME NEW i \in 1 .. Len(q)
               PROVE  /\ q[i].offset \in Nat /\ q[i].len \in Nat
                      /\ EndOffset(q[i]) = q[i].offset + q[i].len
    OBVIOUS
  <2>1. q[i] \in FrameDescriptor
    BY ElementOfSeq
  <2> QED
    BY <2>1 DEF FrameDescriptor, EndOffset
<1>3. \A i \in 1 .. Len(q) : EndOffset(q[i]) \in Int
  BY <1>2
<1>4. first \in Int
  BY <1>1, <1>2, <1>3
<1> HIDE DEF first
<1>5. c \in [0 .. Len(q) -> Int]
  <2>1. ASSUME NEW n \in 0 .. Len(q)
        PROVE  c[n] \in Int
    <3>1. n = 0 \/ n \in 1 .. Len(q)
      BY <1>1
    <3>2. 1 \in 1 .. Len(q)
      BY <1>1
    <3> QED
      BY <1>1, <1>2, <1>3, <1>4, <3>1, <3>2
  <2> QED
    BY <2>1
<1>6. ASSUME NEW n \in 1 .. Len(q)
      PROVE  c[n] = c[n - 1] + q[n].len
  <2>1. n \in 0 .. Len(q) /\ n - 1 \in 0 .. Len(q) /\ n # 0 /\ n \in Nat
    BY <1>1
  <2>2. n - 1 # 0 => n - 1 \in 1 .. Len(q) - 1 /\ (n - 1) + 1 = n
    BY <1>1
  <2>3. n - 1 # 0 /\ n - 1 # j => EndOffset(q[n - 1]) = q[n].offset
    BY <2>2
  <2>4. CASE n - 1 = 0
    <3>1. n = 1 /\ c[n - 1] = 0
      BY <2>4
    <3>2. CASE j = 0
      <4>1. c[n] = first + (EndOffset(q[1]) - q[1].offset) /\ first = 0
        BY <2>1, <3>1, <3>2 DEF first
      <4> QED
        BY <1>2, <3>1, <4>1
    <3>3. CASE j # 0
      <4>1. c[n] = EndOffset(q[1]) - q[1].offset
        BY <1>1, <2>1, <3>1, <3>3
      <4> QED
        BY <1>2, <3>1, <4>1
    <3> QED
      BY <3>2, <3>3
  <2>5. CASE n - 1 # 0 /\ n <= j
    <3>1. /\ c[n] = EndOffset(q[n]) - q[1].offset
          /\ c[n - 1] = EndOffset(q[n - 1]) - q[1].offset
          /\ EndOffset(q[n - 1]) = q[n].offset
      BY <1>1, <2>1, <2>3, <2>5
    <3>2. 1 \in 1 .. Len(q)
      BY <1>1
    <3> QED
      BY <1>2, <3>1, <3>2
  <2>6. CASE n - 1 # 0 /\ n = j + 1
    <3>1. /\ c[n] = first + (EndOffset(q[n]) - q[n].offset)
          /\ c[n - 1] = EndOffset(q[j]) - q[1].offset
          /\ j # 0
      BY <1>1, <2>1, <2>6
    <3>2. first = c[n - 1]
      BY <3>1 DEF first
    <3> HIDE DEF c
    <3> QED
      BY <1>2, <1>4, <3>1, <3>2
  <2>7. CASE n - 1 # 0 /\ n > j + 1
    <3>1. /\ c[n] = first + (EndOffset(q[n]) - q[j + 1].offset)
          /\ c[n - 1] = first + (EndOffset(q[n - 1]) - q[j + 1].offset)
          /\ EndOffset(q[n - 1]) = q[n].offset
      BY <1>1, <2>1, <2>3, <2>7
    <3>2. q[j + 1].offset \in Nat
      BY <1>1, <1>2
    <3> HIDE DEF c
    <3> QED
      BY <1>2, <1>4, <3>1, <3>2
  <2>8. n <= j \/ n = j + 1 \/ n > j + 1
    BY <1>1, <2>1
  <2> QED
    BY <2>4, <2>5, <2>6, <2>7, <2>8
<1>7. c[0] = 0
  BY <1>1
<1>8. TotalLength(q) = c[Len(q)]
  <2> HIDE DEF c
  <2> QED
    BY <1>1, <1>5, <1>6, <1>7, TotalIsRunningSum
<1>9. c[Len(q)] = first + (EndOffset(q[Len(q)]) - q[j + 1].offset)
  BY <1>1
<1> QED
  BY <1>8, <1>9 DEF first

\* What is known of the queue allocate() works on, a restarted one included.
LEMMA FullLapsOfSession ==
    ASSUME FullLaps, NEW f \in Offered
    PROVE  \E k \in 0 .. Len(QueueInSession(f)) :
               /\ LapSplit(QueueInSession(f), PointerInSession(f), k)
               /\ EndToEnd(QueueInSession(f), PointerInSession(f), k)
<1>1. CASE SessionRestarts(f)
  <2>1. LapSplit(<<>>, 0, 0) /\ EndToEnd(<<>>, 0, 0)
    BY EmptySeq DEF LapSplit, Ascending, EndToEnd
  <2> QED
    BY <1>1, <2>1 DEF QueueInSession, PointerInSession
<1>2. CASE ~SessionRestarts(f)
  BY <1>2 DEF QueueInSession, PointerInSession, FullLaps
<1> QED
  BY <1>1, <1>2

\* What is left of the queue when the new frame is registered, seen from the
\* queue of the session.
LEMMA KeptOfSession ==
    ASSUME TypeOK, NEW f \in Offered
    PROVE  LET q == QueueInSession(f)
               gone == DiscardCount(f) + OverlapCount(f)
               kept == QueueAfterEviction(f)
           IN /\ q \in Seq(FrameDescriptor) /\ Len(q) \in Nat
              /\ gone \in 0 .. Len(q)
              /\ DiscardCount(f) \in 0 .. Len(q)
              /\ OverlapCount(f) \in Nat
              /\ Len(kept) = Len(q) - gone
              /\ \A i \in 1 .. Len(q) - gone : kept[i] = q[gone + i]
<1> DEFINE q == QueueInSession(f)
           d == DiscardCount(f)
           qw == QueueAfterWrap(f)
           e == OverlapCount(f)
           kept == QueueAfterEviction(f)
<1>1. q \in Seq(FrameDescriptor) /\ Len(q) \in Nat
  <2>1. q \in Seq(FrameDescriptor)
    BY EmptySeq DEF QueueInSession, TypeOK
  <2> QED
    BY <2>1, LenProperties
<1>2. d \in 0 .. Len(q)
  BY <1>1, PopCountStops DEF DiscardCount
<1>3. /\ qw \in Seq(FrameDescriptor)
      /\ Len(qw) = Len(q) - d
      /\ \A i \in 1 .. Len(q) - d : qw[i] = q[d + i]
  BY <1>1, <1>2, DropFirstProperties DEF QueueAfterWrap
<1>4. e \in 0 .. Len(qw)
  <2>1. Len(qw) \in Nat
    BY <1>3, LenProperties
  <2> QED
    BY <2>1, PopCountStops DEF OverlapCount
<1>5. /\ Len(kept) = Len(qw) - e
      /\ \A i \in 1 .. Len(qw) - e : kept[i] = qw[e + i]
  BY <1>3, <1>4, DropFirstProperties DEF QueueAfterEviction
<1> HIDE DEF q, d, qw, e, kept
<1>6. d + e \in 0 .. Len(q) /\ Len(kept) = Len(q) - (d + e) /\ e \in Nat
  BY <1>1, <1>2, <1>3, <1>4, <1>5
<1>7. ASSUME NEW i \in 1 .. Len(q) - (d + e)
      PROVE  kept[i] = q[(d + e) + i]
  <2>1. i \in 1 .. Len(qw) - e /\ e + i \in 1 .. Len(q) - d /\ d + (e + i) = (d + e) + i
    BY <1>1, <1>2, <1>3, <1>4
  <2> QED
    BY <1>3, <1>5, <2>1
<1> QED
  BY <1>1, <1>2, <1>6, <1>7 DEF q, d, e, kept

\* A new frame goes where the newest one ends, or opens a lap at 0 because it
\* no longer fits before the end.
LEMMA EndToEndStep ==
    ASSUME TypeOK, NEW f \in Offered, IngestFrame(f),
           NEW was \in 0 .. Len(QueueInSession(f)),
           LapSplit(QueueInSession(f), PointerInSession(f), was),
           EndToEnd(QueueInSession(f), PointerInSession(f), was)
    PROVE  EndToEnd(frames', writeOffset', PreviousLap(f, was))
<1> DEFINE q == QueueInSession(f)
           w == PointerInSession(f)
           d == DiscardCount(f)
           e == OverlapCount(f)
           gone == d + e
           off == OffsetFor(f)
           last == Len(q) - gone + 1
           k == PreviousLap(f, was)
<1>1. /\ q \in Seq(FrameDescriptor) /\ Len(q) \in Nat /\ gone \in 0 .. Len(q)
      /\ d \in 0 .. Len(q) /\ e \in Nat
  BY KeptOfSession
<1>2. /\ Len(frames') = last
      /\ \A i \in 1 .. last - 1 : frames'[i] = q[gone + i]
      /\ frames'[last] = DescriptorFor(f)
  <2>1. /\ Len(QueueAfterEviction(f)) = last - 1
        /\ \A i \in 1 .. last - 1 : QueueAfterEviction(f)[i] = q[gone + i]
    <3>1. Len(q) - gone = last - 1
      BY <1>1
    <3> HIDE DEF last
    <3> QED
      BY <3>1, KeptOfSession
  <2>2. /\ Len(QueueAfterEviction(f)) = Len(frames) - EvictedBy(f)
        /\ EvictedBy(f) \in 0 .. Len(frames) /\ Len(frames) \in Nat
        /\ Len(frames') = Len(frames) - EvictedBy(f) + 1
        /\ \A i \in 1 .. Len(frames) - EvictedBy(f) : frames'[i] = QueueAfterEviction(f)[i]
        /\ frames'[Len(frames) - EvictedBy(f) + 1] = DescriptorFor(f)
    BY KeptIsSuffix, IngestedQueue
  <2>3. last = Len(frames) - EvictedBy(f) + 1
    BY <1>1, <2>1, <2>2
  <2> HIDE DEF last, gone, q
  <2> QED
    BY <2>1, <2>2, <2>3
<1>3. /\ k \in 0 .. last - 1 /\ was \in 0 .. Len(q)
      /\ d = IF Wraps(f) THEN was ELSE 0
      /\ k = (IF Wraps(f) THEN Len(q) - was ELSE was) - e
  <2>1. k \in 0 .. last - 1
    BY <1>2, LapsStep
  <2>2. d = IF Wraps(f) THEN was ELSE 0
    BY LapsAfterEviction DEF IngestFrame
  <2> QED
    BY <2>1, <2>2 DEF PreviousLap
<1>4. /\ f.len \in Nat \ {0} /\ off \in Nat /\ f.len <= Capacity
      /\ DescriptorFor(f).offset = off
      /\ EndOffset(DescriptorFor(f)) = off + f.len
      /\ writeOffset' = off + f.len
      /\ off = IF Wraps(f) THEN 0 ELSE w
      /\ w \in Nat
      /\ Wraps(f) <=> w + f.len > Capacity
  <2>1. f.len \in Nat \ {0} /\ off \in Nat /\ f.len <= Capacity
    BY NewFrameFits, CapacityAssumption DEF IngestFrame, Accepts, TooLarge
  <2>2. w \in Nat
    BY DEF PointerInSession, TypeOK
  <2> QED
    BY <2>1, <2>2 DEF EndOffset, DescriptorFor, OffsetFor, Wraps, IngestFrame
<1>5. /\ \A i \in 1 .. Len(q) - 1 : i # was => EndOffset(q[i]) = q[i + 1].offset
      /\ was < Len(q) => EndOffset(q[Len(q)]) = w
      /\ was >= 1 => /\ was < Len(q)
                     /\ q[was + 1].offset = 0
                     /\ EndOffset(q[was]) > Capacity - LongestOffered
  BY DEF EndToEnd
<1>6. LongestOffered \in Nat /\ f.len <= LongestOffered
  BY <1>4, LongestIsLongest
<1> HIDE DEF q, w, d, e, off, last, k, gone
<1>7. /\ last \in Nat \ {0} /\ gone = d + e /\ last = Len(q) - gone + 1
      /\ \A i \in 1 .. last - 1 : gone + i \in 1 .. Len(q)
      /\ ~Wraps(f) => k = was - gone
      /\ Wraps(f) => k = last - 1 /\ gone >= was
  BY <1>1, <1>3 DEF gone, last
<1>8. ASSUME NEW i \in 1 .. last - 1, i # k
      PROVE  EndOffset(frames'[i]) = frames'[i + 1].offset
  <2>1. frames'[i] = q[gone + i] /\ gone + i \in 1 .. Len(q)
    BY <1>2, <1>7
  <2>2. CASE i = last - 1
    <3>1. ~Wraps(f) /\ k = was - gone /\ was < Len(q)
      BY <1>1, <1>3, <1>7, <1>8, <2>2
    <3>2. gone + i = Len(q) /\ i + 1 = last
      BY <1>1, <1>7, <2>2
    <3> QED
      BY <1>2, <1>4, <1>5, <2>1, <3>1, <3>2
  <2>3. CASE i # last - 1
    <3>1. i + 1 \in 1 .. last - 1 /\ gone + i \in 1 .. Len(q) - 1
          /\ gone + (i + 1) = (gone + i) + 1
      BY <1>1, <1>7, <2>3
    <3>2. frames'[i + 1] = q[(gone + i) + 1]
      BY <1>2, <3>1
    <3>3. gone + i # was
      BY <1>1, <1>3, <1>7, <1>8
    <3> QED
      BY <1>5, <2>1, <3>1, <3>2, <3>3
  <2> QED
    BY <2>2, <2>3
<1>9. EndOffset(frames'[last]) = writeOffset'
  BY <1>2, <1>4
<1>10. ASSUME k >= 1
       PROVE  /\ k < last
              /\ frames'[k + 1].offset = 0
              /\ EndOffset(frames'[k]) > Capacity - LongestOffered
  <2>0. k \in 1 .. last - 1 /\ k < last /\ k \in Nat
    <3>1. k \in 0 .. last - 1 /\ last \in Nat \ {0}
      BY <1>3, <1>7
    <3> QED
      BY <3>1, <1>10
  <2>1. k \in 1 .. last - 1 /\ frames'[k] = q[gone + k]
    BY <1>2, <2>0
  <2>2. CASE Wraps(f)
    <3>0. /\ k = last - 1 /\ gone >= was /\ last = Len(q) - gone + 1
          /\ last \in Nat /\ gone \in Nat /\ Len(q) \in Nat /\ was \in Nat
      BY <1>1, <1>3, <1>7, <2>2
    <3>1. k + 1 = last /\ gone + k = Len(q)
      BY <3>0
    <3>2. was < Len(q)
      BY <2>0, <3>0
    <3>3. EndOffset(frames'[k]) = w
      BY <1>5, <2>1, <3>1, <3>2
    <3> QED
      BY <1>2, <1>4, <1>6, <2>1, <2>2, <3>1, <3>3, CapacityAssumption
  <2>3. CASE ~Wraps(f)
    <3>1. gone + k = was /\ was >= 1
      BY <1>1, <1>3, <1>7, <2>1, <2>3
    <3>2. was < Len(q) /\ q[was + 1].offset = 0
          /\ EndOffset(q[was]) > Capacity - LongestOffered
      BY <1>5, <3>1
    <3>3. k + 1 \in 1 .. last - 1 /\ gone + (k + 1) = was + 1
      <4>1. /\ Len(q) \in Nat /\ gone \in Nat /\ was \in Nat /\ last \in Nat
            /\ last = Len(q) - gone + 1
        BY <1>1, <1>3, <1>7
      <4> QED
        BY <2>0, <3>1, <3>2, <4>1
    <3>4. frames'[k + 1] = q[was + 1]
      BY <1>2, <3>3
    <3> QED
      BY <2>0, <2>1, <3>1, <3>2, <3>4
  <2> QED
    BY <2>2, <2>3
<1>11. EndToEnd(frames', writeOffset', k)
  BY <1>2, <1>8, <1>9, <1>10 DEF EndToEnd
<1> QED
  BY <1>11 DEF k

\* The laps stay full.
LEMMA FullLapsStep ==
    ASSUME TypeOK, FullLaps, NEW f \in Offered, IngestFrame(f)
    PROVE  FullLaps'
<1>1. PICK k \in 0 .. Len(QueueInSession(f)) :
         /\ LapSplit(QueueInSession(f), PointerInSession(f), k)
         /\ EndToEnd(QueueInSession(f), PointerInSession(f), k)
  BY FullLapsOfSession
<1>2. /\ PreviousLap(f, k) \in 0 .. Len(frames') - 1
      /\ LapSplit(frames', writeOffset', PreviousLap(f, k))
      /\ EndToEnd(frames', writeOffset', PreviousLap(f, k))
  BY <1>1, LapsStep, EndToEndStep
<1>3. Len(frames') \in Nat
  BY IngestedQueue, LenProperties
<1>4. PreviousLap(f, k) \in 0 .. Len(frames')
  BY <1>2, <1>3
<1> QED
  BY <1>2, <1>4 DEF FullLaps

\* The last frame evictOverlapping() takes does overlap the new one.
LEMMA LastEvictedOverlaps ==
    ASSUME TypeOK, NEW f \in Offered, OverlapCount(f) > 0
    PROVE  QueueInSession(f)[DiscardCount(f) + OverlapCount(f)].offset
               < OffsetFor(f) + f.len
<1> DEFINE q == QueueInSession(f)
           d == DiscardCount(f)
           qw == QueueAfterWrap(f)
           e == OverlapCount(f)
<1>1. /\ q \in Seq(FrameDescriptor) /\ Len(q) \in Nat
      /\ d + e \in 0 .. Len(q) /\ d \in 0 .. Len(q) /\ e \in Nat
  BY KeptOfSession
<1>2. /\ qw \in Seq(FrameDescriptor)
      /\ Len(qw) = Len(q) - d
      /\ \A i \in 1 .. Len(q) - d : qw[i] = q[d + i]
  BY <1>1, DropFirstProperties DEF QueueAfterWrap
<1>3. e \in 0 .. Len(qw) /\ 1 .. e \subseteq Overlapping(f)
  <2>1. Len(qw) \in Nat
    BY <1>2, LenProperties
  <2> QED
    BY <2>1, PopCountStops DEF OverlapCount
<1>4. e \in Overlapping(f) /\ e \in 1 .. Len(q) - d
  BY <1>1, <1>2, <1>3
<1>5. qw[e].offset < OffsetFor(f) + f.len
  BY <1>4 DEF Overlapping, Occupies
<1> QED
  BY <1>2, <1>4, <1>5

\* The arithmetic of an eviction: from the last evicted frame on, the queue and
\* the new frame together do not fit.
LEMMA EvictionStep ==
    ASSUME TypeOK, FullLaps, NEW f \in Offered, IngestFrame(f),
           sessionId' = sessionId, EvictedBy(f) > 0
    PROVE  TotalLength(DropFirst(frames, EvictedBy(f) - 1)) + f.len
               > Capacity - LongestOffered
<1> DEFINE n == EvictedBy(f)
           d == DiscardCount(f)
           e == OverlapCount(f)
           r == DropFirst(frames, n - 1)
           size == Len(frames) - n + 1
<1>1. ~SessionRestarts(f)
  BY DEF SessionRestarts, IngestFrame
<1>2. QueueInSession(f) = frames /\ PointerInSession(f) = writeOffset /\ n = d + e
  <2>1. n = 0 + d + e
    BY <1>1 DEF EvictedBy
  <2>2. d \in Nat /\ e \in Nat
    BY KeptOfSession
  <2> QED
    BY <1>1, <2>1, <2>2 DEF QueueInSession, PointerInSession
<1>3. PICK k \in 0 .. Len(frames) :
        LapSplit(frames, writeOffset, k) /\ EndToEnd(frames, writeOffset, k)
  BY DEF FullLaps
<1>4. /\ Len(frames) \in Nat /\ n \in 1 .. Len(frames) /\ d \in Nat /\ e \in Nat
      /\ frames \in Seq(FrameDescriptor)
  BY <1>2, KeptOfSession
<1>5. /\ d = IF Wraps(f) THEN k ELSE 0
      /\ ~Wraps(f) => e <= k
  <2> HIDE DEF d, e
  <2> QED
    BY <1>2, <1>3, LapsAfterEviction DEF IngestFrame, d, e
<1>6. /\ f.len \in Nat \ {0} /\ f.len <= Capacity
      /\ writeOffset \in Nat
      /\ Wraps(f) <=> writeOffset + f.len > Capacity
      /\ OffsetFor(f) = IF Wraps(f) THEN 0 ELSE writeOffset
  BY <1>2, NewFrameFits, CapacityAssumption
     DEF IngestFrame, Accepts, TooLarge, TypeOK, Wraps, OffsetFor
<1>7. LongestOffered \in Nat /\ f.len <= LongestOffered
  BY <1>6, LongestIsLongest
<1>8. /\ \A i \in 1 .. Len(frames) - 1 : i # k => EndOffset(frames[i]) = frames[i + 1].offset
      /\ k < Len(frames) => EndOffset(frames[Len(frames)]) = writeOffset
      /\ k >= 1 => /\ k < Len(frames)
                   /\ frames[k + 1].offset = 0
                   /\ EndOffset(frames[k]) > Capacity - LongestOffered
  BY <1>3 DEF EndToEnd
<1>9. e > 0 => frames[n].offset < OffsetFor(f) + f.len
  BY <1>2, LastEvictedOverlaps
<1>10. \A i \in 1 .. Len(frames) : /\ frames[i].offset \in Nat /\ frames[i].len \in Nat \ {0}
                                   /\ EndOffset(frames[i]) \in Nat
                                   /\ EndOffset(frames[i]) = frames[i].offset + frames[i].len
  BY IndexedFrame DEF EndOffset
<1> HIDE DEF n, d, e
<1>11. /\ r \in Seq(FrameDescriptor) /\ Len(r) = size /\ size \in Nat \ {0}
       /\ \A i \in 1 .. size : r[i] = frames[(n - 1) + i]
  <2>1. n - 1 \in 0 .. Len(frames) /\ Len(frames) - (n - 1) = size /\ size \in Nat \ {0}
    BY <1>4
  <2> HIDE DEF size
  <2> QED
    BY <1>4, <2>1, DropFirstProperties
<1>12. /\ r[1] = frames[n] /\ r[size] = frames[Len(frames)]
       /\ Len(frames) \in 1 .. Len(frames)
  <2>1. 1 \in 1 .. size /\ size \in 1 .. size
        /\ (n - 1) + 1 = n /\ (n - 1) + size = Len(frames)
    BY <1>4, <1>11
  <2> HIDE DEF r, size
  <2> QED
    BY <1>4, <1>11, <2>1
<1> HIDE DEF r
\* Where the previous lap ends in what is left of the queue.
<1>13. ASSUME NEW j \in 0 .. size - 1, (n - 1) + j = k \/ (j = 0 /\ n - 1 >= k)
       PROVE  TotalLength(r) = (IF j = 0 THEN 0 ELSE EndOffset(r[j]) - r[1].offset)
                                   + (EndOffset(r[size]) - r[j + 1].offset)
  <2>1. ASSUME NEW i \in 1 .. size - 1, i # j
        PROVE  EndOffset(r[i]) = r[i + 1].offset
    <3>1. /\ (n - 1) + i \in 1 .. Len(frames) - 1 /\ (n - 1) + i # k
          /\ (n - 1) + (i + 1) = ((n - 1) + i) + 1
      BY <1>3, <1>4, <1>11, <1>13, <2>1
    <3>2. i \in 1 .. size /\ i + 1 \in 1 .. size
      BY <1>11
    <3> QED
      BY <1>8, <1>11, <3>1, <3>2
  <2> HIDE DEF size
  <2>2. j \in 0 .. Len(r) - 1
    BY <1>11
  <2> QED
    BY <1>11, <2>1, <2>2, LengthOfLaps
<1> HIDE DEF size
<1>14. CASE ~Wraps(f)
  <2> DEFINE j == k - (n - 1)
  <2>1. n = e /\ n <= k /\ k >= 1 /\ k < Len(frames) /\ k \in Nat
    BY <1>2, <1>3, <1>4, <1>5, <1>8, <1>14
  <2>2. j \in 1 .. size - 1 /\ (n - 1) + j = k /\ (n - 1) + (j + 1) = k + 1
    BY <1>4, <1>11, <2>1 DEF size
  <2> HIDE DEF j
  <2>3. j \in 0 .. size - 1 /\ j \in 1 .. size /\ j + 1 \in 1 .. size /\ j # 0
    BY <1>11, <2>2
  <2>4. r[j] = frames[k] /\ r[j + 1] = frames[k + 1]
    BY <1>11, <2>2, <2>3
  <2>5. TotalLength(r) = (EndOffset(r[j]) - r[1].offset) + (EndOffset(r[size]) - r[j + 1].offset)
    BY <1>13, <2>2, <2>3
  <2>6. TotalLength(r) = (EndOffset(frames[k]) - frames[n].offset) + (writeOffset - 0)
    BY <1>8, <1>12, <2>1, <2>4, <2>5
  <2>7. frames[n].offset < writeOffset + f.len
    BY <1>4, <1>6, <1>9, <1>14, <2>1
  <2>8. EndOffset(frames[k]) > Capacity - LongestOffered /\ EndOffset(frames[k]) \in Nat
        /\ frames[n].offset \in Nat
    BY <1>4, <1>8, <1>10, <2>1
  <2> QED
    BY <1>6, <1>7, <2>6, <2>7, <2>8, CapacityAssumption DEF r, n
<1>15. CASE Wraps(f) /\ e = 0
  <2>1. n = k /\ k >= 1 /\ k < Len(frames) /\ k \in Nat
    BY <1>2, <1>3, <1>4, <1>5, <1>8, <1>15
  <2>2. /\ 1 \in 0 .. size - 1 /\ (n - 1) + 1 = k /\ 1 + 1 \in 1 .. size
        /\ (n - 1) + (1 + 1) = k + 1
    BY <1>4, <1>11, <2>1 DEF size
  <2>3. r[1 + 1] = frames[k + 1]
    BY <1>11, <2>2
  <2>4. TotalLength(r) = (EndOffset(r[1]) - r[1].offset) + (EndOffset(r[size]) - r[1 + 1].offset)
    BY <1>13, <2>2
  <2>5. TotalLength(r) = (EndOffset(frames[n]) - frames[n].offset) + (writeOffset - 0)
    BY <1>8, <1>12, <2>1, <2>3, <2>4
  <2>6. frames[n].offset \in Nat /\ frames[n].len \in Nat \ {0}
        /\ EndOffset(frames[n]) = frames[n].offset + frames[n].len
    BY <1>4, <1>10
  <2>7. TotalLength(r) = frames[n].len + writeOffset
    BY <1>6, <2>5, <2>6
  <2>8. writeOffset + f.len > Capacity
    BY <1>6, <1>15
  <2>9. TotalLength(r) + f.len > Capacity - LongestOffered
    BY <1>6, <1>7, <2>6, <2>7, <2>8, CapacityAssumption
  <2> QED
    BY <2>9 DEF r, n
<1>16. CASE Wraps(f) /\ e # 0
  <2>1. n - 1 >= k /\ k < Len(frames) /\ e > 0
    BY <1>2, <1>3, <1>4, <1>5, <1>16
  <2>2. 0 \in 0 .. size - 1 /\ 0 + 1 = 1
    BY <1>11
  <2>3. TotalLength(r) = 0 + (EndOffset(r[size]) - r[1].offset)
    BY <1>13, <2>1, <2>2
  <2>4. TotalLength(r) = 0 + (writeOffset - frames[n].offset)
    BY <1>8, <1>12, <2>1, <2>3
  <2>5. frames[n].offset < f.len /\ frames[n].offset \in Nat
    BY <1>4, <1>6, <1>9, <1>10, <1>16, <2>1
  <2> QED
    BY <1>6, <1>7, <1>16, <2>4, <2>5, CapacityAssumption DEF r, n
<1> QED
  BY <1>14, <1>15, <1>16

\* Within a session no frame leaves while there is room for the new one.
THEOREM EvictionIsNeededAlways == Spec => EvictionIsNeeded
<1> DEFINE evicted == Len(frames) + 1 - Len(frames')
           Needed ==
               (nextSequence' # nextSequence /\ sessionId' = sessionId /\ evicted > 0) =>
                   TotalLength(DropFirst(frames, evicted - 1)) + frames'[Len(frames')].len
                       > Capacity - LongestOffered
<1>1. Init => FullLaps
  <2> SUFFICES ASSUME Init PROVE FullLaps
    OBVIOUS
  <2>1. frames = <<>> /\ Len(frames) = 0
    BY EmptySeq DEF Init
  <2>2. LapSplit(frames, writeOffset, 0) /\ EndToEnd(frames, writeOffset, 0)
    BY <2>1 DEF LapSplit, Ascending, EndToEnd
  <2> QED
    BY <2>1, <2>2 DEF FullLaps
<1>2. TypeOK /\ FullLaps /\ [Next]_vars => FullLaps'
  <2> SUFFICES ASSUME TypeOK, FullLaps, [Next]_vars
               PROVE  FullLaps'
    OBVIOUS
  <2>1. CASE UNCHANGED vars
    BY <2>1 DEF vars, FullLaps, LapSplit, Ascending, EndToEnd, EndOffset
  <2> QED
    BY <2>1, FullLapsStep DEF Next, RejectFrame
<1>3. TypeOK /\ FullLaps /\ [Next]_vars => [Needed]_frames
  <2> SUFFICES ASSUME TypeOK, FullLaps, NEW f \in Offered, IngestFrame(f),
                      sessionId' = sessionId, evicted > 0
               PROVE  TotalLength(DropFirst(frames, evicted - 1)) + frames'[Len(frames')].len
                          > Capacity - LongestOffered
    BY DEF Next, RejectFrame, vars
  <2>1. /\ EvictedBy(f) \in 0 .. Len(frames) /\ Len(frames) \in Nat
        /\ Len(frames') = Len(frames) - EvictedBy(f) + 1
        /\ frames'[Len(frames')] = DescriptorFor(f)
    BY IngestedQueue
  <2>2. evicted = EvictedBy(f)
    BY <2>1
  <2>3. frames'[Len(frames')].len = f.len
    BY <2>1 DEF DescriptorFor
  <2> HIDE DEF evicted
  <2> QED
    BY <2>2, <2>3, EvictionStep
<1> QED
  BY <1>1, <1>2, <1>3, TypeInvariant, PTL DEF Spec, EvictionIsNeeded

=============================================================================
