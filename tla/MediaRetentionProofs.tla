------------------------ MODULE MediaRetentionProofs ------------------------
(***************************************************************************)
(* Proofs about MediaRetention: for any clips, any events they share, any  *)
(* policy, any number of sweeps and crashes and whatever may fail, the log *)
(* is true; and while stat() does not fail, released media is gone.  The   *)
(* quota deletes oldest first and, while no two clips share a file, only   *)
(* at its target or above.                                                 *)
(***************************************************************************)
EXTENDS MediaRetention, SequenceTheorems, FiniteSetTheorems, WellFoundedInduction, TLAPS

Outcomes == {"none", "deleted", "already_missing", "kept_for_other_clip"}

StoreType ==
    /\ rows \in [Clips -> Row \cup {NoRow}]
    /\ files \in [Events -> Clips \cup {NoFile, Torn}]
    /\ log \in [Clips -> Seq(Outcomes)]
    /\ extraction \in [Clips -> {"none", "written", "saved", "failed"}]
    /\ now \in Nat
    /\ outcome \in Outcomes

\* Only a finished extraction has a row, and no row is ever taken away.
RowsAreSaved == \A c \in Clips : HasRow(c) <=> extraction[c] = "saved"

\* The sweep holds a clip that nobody released and whose log is empty, until
\* its own update releases it.
HeldClip ==
    stage \in Purging =>
        /\ current \in Clips /\ copy \in Row /\ HasRow(current)
        /\ log[current] = <<>>
        /\ rows[current].retained <=> stage # "log"

LogInv == StoreType /\ RowsAreSaved /\ HeldClip /\ LogTellsTruth

RetainedSibling(c) ==
    \E d \in Clips \ {c} : EventOf[d] = EventOf[c] /\ HasRow(d) /\ rows[d].retained

\* When the row is about to be released, the file is another clip's, or a
\* retained clip names it too.
ReleasedFile ==
    stage = "update" =>
        \/ RetainedSibling(current)
        \/ \A c \in Clips : File = c => c # current /\ ~Purged(c)

MediaInv == PurgedMediaGone /\ ReleasedFile

-----------------------------------------------------------------------------
(***************************************************************************)
(* The log.                                                                *)
(***************************************************************************)

\* Every clip starts without row and without log line.
LEMMA LogInvInit == Init => LogInv
BY NullAssumption DEF Init, LogInv, StoreType, Row, Outcomes, RowsAreSaved, HasRow,
       HeldClip, Purging, LogTellsTruth, Purged

\* Steps that touch neither the rows nor the log, and leave the clip in hand
\* or let it go.
LEMMA StoreKept ==
    ASSUME LogInv, UNCHANGED <<rows, log>>, StoreType', RowsAreSaved',
           \/ stage' \notin Purging
           \/ /\ stage \in Purging /\ stage' \in Purging
              /\ stage = "log" <=> stage' = "log"
              /\ UNCHANGED <<current, copy>>
    PROVE  LogInv'
BY DEF LogInv, HeldClip, LogTellsTruth, Purged, HasRow

\* An extraction never touches a clip that is being purged: the row it saves
\* is a new one.
LEMMA ExtractionKeepsLog ==
    ASSUME LogInv, NEW c \in Clips, Extraction(c)
    PROVE  LogInv'
<1> USE DEF LogInv
<1>1. CASE WriteContainer(c)
  <2>1. StoreType'
    BY <1>1, EventAssumption DEF WriteContainer, Extracts, StoreType, sweepVars, clipVars
  <2>2. RowsAreSaved'
    BY <1>1 DEF WriteContainer, Extracts, StoreType, RowsAreSaved, HasRow
  <2> QED
    BY <1>1, <2>1, <2>2, StoreKept DEF WriteContainer, Extracts, sweepVars, clipVars
<1>2. CASE WriteFails(c)
  <2>1. StoreType'
    BY <1>2, EventAssumption DEF WriteFails, Extracts, StoreType, sweepVars, clipVars
  <2>2. RowsAreSaved'
    BY <1>2 DEF WriteFails, Extracts, StoreType, RowsAreSaved, HasRow
  <2> QED
    BY <1>2, <2>1, <2>2, StoreKept DEF WriteFails, Extracts, sweepVars, clipVars
<1>3. CASE SaveFails(c)
  <2>1. StoreType'
    BY <1>3 DEF SaveFails, Extracts, StoreType, sweepVars, clipVars
  <2>2. RowsAreSaved'
    BY <1>3 DEF SaveFails, Extracts, StoreType, RowsAreSaved, HasRow
  <2> QED
    BY <1>3, <2>1, <2>2, StoreKept DEF SaveFails, Extracts, sweepVars, clipVars
<1>4. CASE SaveClip(c)
  <2>1. [created |-> now, retained |-> TRUE, locked |-> FALSE] \in Row
    BY DEF StoreType, Row
  <2>2. rows[c] = NoRow /\ \A d \in Clips : d # c => rows'[d] = rows[d]
    BY <1>4 DEF SaveClip, Extracts, StoreType, RowsAreSaved, HasRow
  <2>3. StoreType'
    BY <1>4, <2>1 DEF SaveClip, Extracts, StoreType, sweepVars, clipVars
  <2>4. RowsAreSaved'
    BY <1>4, <2>1, NullAssumption
       DEF SaveClip, Extracts, StoreType, RowsAreSaved, HasRow, Row
  <2>5. stage \in Purging => current # c
    BY <2>2 DEF HeldClip, HasRow
  <2>6. HeldClip'
    BY <1>4, <2>2, <2>5 DEF SaveClip, Extracts, HeldClip, HasRow, sweepVars, clipVars
  <2>7. LogTellsTruth'
    BY <1>4, <2>2 DEF SaveClip, Extracts, LogTellsTruth, Purged, HasRow
  <2> QED
    BY <2>3, <2>4, <2>6, <2>7
<1> QED
  BY <1>1, <1>2, <1>3, <1>4 DEF Extraction

\* A lock changes neither whether a clip is released nor the log.
LEMMA LockKeepsLog ==
    ASSUME LogInv, NEW c \in Clips, LockForAudit(c)
    PROVE  LogInv'
<1> USE DEF LogInv
<1>1. rows[c] \in Row /\ rows' = [rows EXCEPT ![c] = [rows[c] EXCEPT !.locked = TRUE]]
  BY DEF LockForAudit, StoreType, HasRow
<1>2. [rows[c] EXCEPT !.locked = TRUE] \in Row
  BY <1>1 DEF Row
<1>3. \A d \in Clips : /\ HasRow(d)' <=> HasRow(d)
                       /\ HasRow(d) => (rows'[d].retained <=> rows[d].retained)
  BY <1>1, <1>2, NullAssumption DEF StoreType, HasRow, Row
<1>4. StoreType'
  BY <1>1, <1>2 DEF LockForAudit, StoreType, sweepVars, clipVars
<1>5. RowsAreSaved'
  BY <1>3 DEF LockForAudit, RowsAreSaved
<1>6. HeldClip'
  BY <1>3 DEF LockForAudit, HeldClip, sweepVars, clipVars
<1>7. LogTellsTruth'
  BY <1>3 DEF LockForAudit, LogTellsTruth, Purged
<1> QED
  BY <1>4, <1>5, <1>6, <1>7

\* Between two clips the sweep only plans; a crash and an exception that
\* ends the sweep let go of the clip in hand.
LEMMA PlanKeepsLog ==
    ASSUME LogInv,
           \/ SweepStarts \/ ApplyStrategy \/ QuotaThrows \/ UsageThrows
           \/ StrategyEnds \/ RereadThrows \/ SweepEnds \/ Crash \/ Tick
    PROVE  LogInv'
<1> USE DEF LogInv, storeVars, World, clipVars, sweepVars, ExecuteEnds, ClipEnds, SweepThrows
<1>1. /\ UNCHANGED <<rows, files, log>>
      /\ now' \in Nat /\ outcome' \in Outcomes
  BY DEF SweepStarts, ApplyStrategy, QuotaThrows, UsageThrows, StrategyEnds, RereadThrows,
         SweepEnds, Crash, Tick, StoreType, Outcomes
<1>2. /\ extraction' \in [Clips -> {"none", "written", "saved", "failed"}]
      /\ \A c \in Clips : extraction'[c] = "saved" <=> extraction[c] = "saved"
  BY DEF SweepStarts, ApplyStrategy, QuotaThrows, UsageThrows, StrategyEnds, RereadThrows,
         SweepEnds, Crash, Tick, StoreType
<1>3. \/ stage' \notin Purging
      \/ UNCHANGED <<stage, current, copy>>
  BY DEF SweepStarts, ApplyStrategy, QuotaThrows, UsageThrows, StrategyEnds, RereadThrows,
         SweepEnds, Crash, Tick, Purging
<1>4. StoreType' /\ RowsAreSaved'
  BY <1>1, <1>2 DEF StoreType, RowsAreSaved, HasRow
<1> QED
  BY <1>1, <1>3, <1>4, StoreKept

\* The clip the sweep takes in hand has a row, and nobody released it, so
\* its log is empty.
LEMMA RereadKeepsLog ==
    ASSUME LogInv, Reread
    PROVE  LogInv'
<1> USE DEF LogInv
<1> DEFINE c == Head(selected).clip
<1>1. UNCHANGED <<rows, files, log, now, extraction, outcome>>
  BY DEF Reread, storeVars, World
<1>2. StoreType' /\ RowsAreSaved' /\ LogTellsTruth'
  BY <1>1 DEF StoreType, RowsAreSaved, LogTellsTruth, Purged, HasRow
<1>3. CASE Eligible(FindById(c))
  <2>1. c \in Clips /\ rows[c] \in Row /\ rows[c].retained /\ FindById(c) = rows[c]
    BY <1>3 DEF Eligible, FindById, StoreType
  <2>2. stage' = "exists" /\ current' = c /\ copy' = rows[c]
    BY <1>3, <2>1 DEF Reread
  <2>3. log[c] = <<>> /\ HasRow(c)
    BY <2>1, NullAssumption DEF LogTellsTruth, Purged, HasRow, Row
  <2> QED
    BY <1>1, <1>2, <2>1, <2>2, <2>3 DEF HeldClip, HasRow
<1>4. CASE ~Eligible(FindById(c))
  BY <1>2, <1>4 DEF Reread, HeldClip, Purging
<1> QED
  BY <1>3, <1>4

\* The log line comes after the release and is the clip's first.
LEMMA PurgeClipKeepsLog ==
    ASSUME LogInv, PurgeClip
    PROVE  LogInv'
<1> USE DEF LogInv, storeVars, World, clipVars, planVars, PurgeFrame
<1>1. stage \in Purging
  BY DEF PurgeClip, FileMissing, FileExists, FileShared, FileNotShared, QueryFails, RemoveFile,
         RemoveFails, UpdateRow, UpdateFails, RecordLog, RecordFails, Purging
<1>2. /\ current \in Clips /\ copy \in Row /\ HasRow(current) /\ log[current] = <<>>
      /\ EventOf[current] \in Events
  BY <1>1, EventAssumption DEF HeldClip
<1>3. CASE UpdateRow
  <2>1. [copy EXCEPT !.retained = FALSE] \in Row /\ ~[copy EXCEPT !.retained = FALSE].retained
    BY <1>2 DEF Row
  <2>2. /\ rows'[current] = [copy EXCEPT !.retained = FALSE]
        /\ \A d \in Clips : d # current => rows'[d] = rows[d]
        /\ rows' \in [Clips -> Row \cup {NoRow}]
    BY <1>2, <1>3, <2>1 DEF UpdateRow, StoreType
  <2>3. stage' = "log" /\ UNCHANGED <<log, extraction, current, copy>>
    BY <1>3 DEF UpdateRow, StepDone, StepsAfterRelease
  <2>4. \A d \in Clips : HasRow(d)' <=> HasRow(d)
    BY <1>2, <2>1, <2>2, NullAssumption DEF HasRow, Row
  <2>5. StoreType'
    BY <1>3, <2>2 DEF UpdateRow, StepDone, StepsAfterRelease, StoreType
  <2>6. RowsAreSaved'
    BY <2>3, <2>4 DEF RowsAreSaved
  <2>7. HeldClip'
    BY <1>2, <2>1, <2>2, <2>3, <2>4 DEF HeldClip
  <2>8. LogTellsTruth'
    BY <1>2, <2>1, <2>2, <2>3, <2>4 DEF LogTellsTruth, Purged
  <2> QED
    BY <2>5, <2>6, <2>7, <2>8
<1>4. CASE RecordLog
  <2>1. /\ stage = "log" /\ stage' = "purge" /\ outcome' = "none"
        /\ UNCHANGED <<rows, files, now, extraction>>
        /\ log' = [log EXCEPT ![current] = Append(log[current], outcome)]
    BY <1>4 DEF RecordLog, StepDone, StepsAfterRelease, ClipEnds
  <2>2. Append(log[current], outcome) \in Seq(Outcomes) /\ Len(Append(log[current], outcome)) = 1
    <3>1. <<>> \in Seq(Outcomes) /\ Len(<<>>) = 0 /\ outcome \in Outcomes
      BY EmptySeq DEF StoreType
    <3> QED
      BY <1>2, <3>1, AppendProperties
  <2>3. /\ log'[current] = Append(log[current], outcome)
        /\ \A d \in Clips : d # current => log'[d] = log[d]
        /\ log' \in [Clips -> Seq(Outcomes)]
    BY <1>2, <2>1, <2>2 DEF StoreType
  <2>4. StoreType' /\ RowsAreSaved'
    BY <2>1, <2>3 DEF StoreType, RowsAreSaved, HasRow, Outcomes
  <2>5. HeldClip'
    BY <2>1 DEF HeldClip, Purging
  <2>6. Purged(current)
    BY <1>1, <1>2, <2>1 DEF HeldClip, Purged
  <2>7. LogTellsTruth'
    BY <2>1, <2>2, <2>3, <2>6 DEF LogTellsTruth, Purged, HasRow
  <2> QED
    BY <2>4, <2>5, <2>7
<1>5. CASE \/ FileMissing \/ FileExists \/ FileShared \/ FileNotShared \/ QueryFails
           \/ RemoveFile \/ RemoveFails \/ UpdateFails \/ RecordFails
  <2>1. UNCHANGED <<rows, log, now, extraction>>
    BY <1>5 DEF FileMissing, FileExists, FileShared, FileNotShared, QueryFails, RemoveFile,
                RemoveFails, UpdateFails, RecordFails, Released, ClipFails
  <2>2. outcome' \in Outcomes /\ files' \in [Events -> Clips \cup {NoFile, Torn}]
    BY <1>2, <1>5
       DEF FileMissing, FileExists, FileShared, FileNotShared, QueryFails, RemoveFile,
           RemoveFails, UpdateFails, RecordFails, Released, ClipFails, ClipEnds, StoreType, Outcomes
  <2>3. \/ stage' \notin Purging
        \/ /\ stage # "log" /\ stage' \in Purging /\ stage' # "log"
           /\ UNCHANGED <<current, copy>>
    BY <1>5
       DEF FileMissing, FileExists, FileShared, FileNotShared, QueryFails, RemoveFile,
           RemoveFails, UpdateFails, RecordFails, Released, ClipFails, AfterFailure,
           StepsAfterRelease, Purging
  <2>4. StoreType' /\ RowsAreSaved'
    BY <2>1, <2>2 DEF StoreType, RowsAreSaved, HasRow
  <2> QED
    BY <1>1, <2>1, <2>3, <2>4, StoreKept
<1> QED
  BY <1>3, <1>4, <1>5 DEF PurgeClip

\* Every step keeps the invariant, and so does a stutter.
LEMMA LogInvNext == ASSUME LogInv, Next PROVE LogInv'
BY ExtractionKeepsLog, LockKeepsLog, PlanKeepsLog, RereadKeepsLog, PurgeClipKeepsLog
   DEF Next, SweepStep

\* What the state does not change, the invariant does not notice.
LEMMA LogInvStutters == ASSUME LogInv, UNCHANGED vars PROVE LogInv'
BY DEF LogInv, StoreType, RowsAreSaved, HeldClip, LogTellsTruth, Purged, HasRow,
       vars, storeVars, sweepVars, clipVars

\* The table and the extractions agree, the sweep holds a clip nobody else
\* releases (PurgeMediaUseCase::purge from its re-read to its log line), and
\* the log is true.
THEOREM LogInvAlways == Spec => []LogInv
<1>1. LogInv /\ [Next]_vars => LogInv'
  BY LogInvNext, LogInvStutters
<1> QED
  BY <1>1, LogInvInit, PTL DEF Spec

\* The purge log (JsonLinesPurgeLog::record, written by PurgeMediaUseCase::
\* purge) never holds two lines for a clip, and none for a clip that is not
\* released, whatever fails and wherever the process dies.
THEOREM LogTellsTruthAlways == Spec => []LogTellsTruth
<1>1. LogInv => LogTellsTruth
  BY DEF LogInv
<1> QED
  BY <1>1, LogInvAlways, PTL

-----------------------------------------------------------------------------
(***************************************************************************)
(* The files.                                                              *)
(***************************************************************************)

\* Steps after which the same clips are released, at least the same are
\* retained, and no file is that of a released clip that was not before.
LEMMA MediaKept ==
    ASSUME LogInv, MediaInv,
           \A c \in Clips :
               /\ Purged(c)' <=> Purged(c)
               /\ HasRow(c) /\ rows[c].retained => (HasRow(c) /\ rows[c].retained)',
           \A e \in Events, c \in Clips : files'[e] = c => files[e] = c \/ ~HasRow(c),
           \/ stage' # "update"
           \/ stage = "update" /\ UNCHANGED current
    PROVE  MediaInv'
<1> USE DEF LogInv, MediaInv
<1>1. \A c \in Clips : EventOf[c] \in Events /\ (RetainedSibling(c) => RetainedSibling(c)')
  BY EventAssumption DEF RetainedSibling
<1>2. PurgedMediaGone'
  BY <1>1 DEF PurgedMediaGone, RetainedSibling, Purged
<1>3. ASSUME stage' = "update" PROVE ReleasedFile'
  <2>1. stage = "update" /\ current' = current /\ current \in Clips /\ HasRow(current)
    BY <1>3 DEF HeldClip, Purging
  <2>2. CASE RetainedSibling(current)
    BY <1>1, <2>1, <2>2 DEF ReleasedFile, RetainedSibling
  <2>3. CASE \A c \in Clips : File = c => c # current /\ ~Purged(c)
    <3>1. ASSUME NEW c \in Clips, files'[EventOf[current]] = c
          PROVE  c # current /\ ~Purged(c)'
      BY <1>1, <2>1, <2>3, <3>1 DEF File, Purged
    <3> QED
      BY <2>1, <3>1 DEF ReleasedFile, File
  <2> QED
    BY <2>1, <2>2, <2>3 DEF ReleasedFile
<1> QED
  BY <1>2, <1>3 DEF ReleasedFile

\* A new container is that of a clip without row, and its row is retained.
LEMMA ExtractionKeepsMedia ==
    ASSUME LogInv, MediaInv, NEW c \in Clips, Extraction(c)
    PROVE  MediaInv'
<1> USE DEF LogInv
<1>1. UNCHANGED <<stage, current>>
  BY DEF Extraction, WriteContainer, WriteFails, SaveClip, SaveFails, Extracts, sweepVars, clipVars
<1>2. \A d \in Clips :
          /\ Purged(d)' <=> Purged(d)
          /\ HasRow(d) /\ rows[d].retained => (HasRow(d) /\ rows[d].retained)'
  <2>1. CASE SaveClip(c)
    <3>1. rows[c] = NoRow /\ rows'[c].retained /\ \A d \in Clips : d # c => rows'[d] = rows[d]
      BY <2>1 DEF SaveClip, Extracts, StoreType, RowsAreSaved, HasRow
    <3> QED
      BY <3>1 DEF Purged, HasRow
  <2>2. CASE UNCHANGED rows
    BY <2>2 DEF Purged, HasRow
  <2> QED
    BY <2>1, <2>2 DEF Extraction, WriteContainer, WriteFails, SaveFails
<1>3. \A e \in Events, d \in Clips : files'[e] = d => files[e] = d \/ ~HasRow(d)
  <2>1. CASE WriteContainer(c)
    BY <2>1, EventAssumption DEF WriteContainer, Extracts, StoreType, RowsAreSaved
  <2>2. CASE WriteFails(c)
    BY <2>2, EventAssumption, NullAssumption DEF WriteFails, StoreType
  <2>3. CASE UNCHANGED files
    BY <2>3
  <2> QED
    BY <2>1, <2>2, <2>3 DEF Extraction, SaveClip, SaveFails
<1> QED
  BY <1>1, <1>2, <1>3, MediaKept

\* A lock releases nothing and touches no file.
LEMMA LockKeepsMedia ==
    ASSUME LogInv, MediaInv, NEW c \in Clips, LockForAudit(c)
    PROVE  MediaInv'
<1> USE DEF LogInv
<1>1. rows[c] \in Row /\ rows' = [rows EXCEPT ![c] = [rows[c] EXCEPT !.locked = TRUE]]
  BY DEF LockForAudit, StoreType, HasRow
<1>2. [rows[c] EXCEPT !.locked = TRUE] \in Row
  BY <1>1 DEF Row
<1>3. \A d \in Clips : /\ HasRow(d)' <=> HasRow(d)
                       /\ HasRow(d) => (rows'[d].retained <=> rows[d].retained)
  BY <1>1, <1>2, NullAssumption DEF StoreType, HasRow, Row
<1> QED
  BY <1>3, MediaKept DEF LockForAudit, sweepVars, clipVars, Purged

\* The steps of the sweep that leave rows and files alone and release nothing.
LEMMA PlanKeepsMedia ==
    ASSUME LogInv, MediaInv,
           \/ SweepStarts \/ ApplyStrategy \/ QuotaThrows \/ UsageThrows
           \/ StrategyEnds \/ RereadThrows \/ SweepEnds \/ Crash \/ Tick
           \/ Reread \/ FileExists \/ FileNotShared \/ QueryFails \/ RemoveFails
           \/ UpdateFails \/ RecordLog \/ RecordFails
    PROVE  MediaInv'
<1>1. UNCHANGED <<rows, files>>
  BY DEF SweepStarts, ApplyStrategy, QuotaThrows, UsageThrows, StrategyEnds, RereadThrows,
         SweepEnds, Crash, Tick, Reread, FileExists, FileNotShared, QueryFails, RemoveFails,
         UpdateFails, RecordLog, RecordFails, ClipFails, SweepThrows, storeVars
<1>2. stage' # "update" \/ UNCHANGED <<stage, current>>
  BY DEF SweepStarts, ApplyStrategy, QuotaThrows, UsageThrows, StrategyEnds, RereadThrows,
         SweepEnds, Crash, Tick, Reread, FileExists, FileNotShared, QueryFails, RemoveFails,
         UpdateFails, RecordLog, RecordFails, ClipFails, AfterFailure, SweepThrows,
         ExecuteEnds, StepDone, StepsAfterRelease, sweepVars, clipVars
<1> QED
  BY <1>1, <1>2, MediaKept DEF Purged, HasRow

\* FileStorage::remove and the checks before it: what is about to be
\* released is gone, or somebody else's.
LEMMA ReleaseKeepsMedia ==
    ASSUME LogInv, MediaInv, "stat" \notin Faults, FileMissing \/ FileShared \/ RemoveFile
    PROVE  MediaInv'
<1> USE DEF LogInv, MediaInv
<1>1. /\ UNCHANGED <<rows, current>> /\ current \in Clips
      /\ EventOf[current] \in Events
      /\ \A c \in Clips : EventOf[c] \in Events
  BY EventAssumption DEF FileMissing, FileShared, RemoveFile, Released, HeldClip, Purging
<1>2. \A e \in Events : files'[e] = files[e] \/ files'[e] = NoFile
  BY <1>1 DEF FileMissing, FileShared, RemoveFile, StoreType
<1>3. PurgedMediaGone'
  BY <1>1, <1>2, NullAssumption DEF PurgedMediaGone, Purged, HasRow
<1>4. RetainedSibling(current) \/ files'[EventOf[current]] = NoFile
  BY <1>1 DEF FileMissing, FileShared, RemoveFile, Fault, IsSibling, AnySibling,
              RetainedSibling, File, StoreType
<1>5. ReleasedFile'
  BY <1>1, <1>4, NullAssumption DEF ReleasedFile, RetainedSibling, HasRow, File
<1> QED
  BY <1>3, <1>5

\* The row is released: by ReleasedFile its file is not its own any more, or
\* a retained clip names it.
LEMMA UpdateKeepsMedia ==
    ASSUME LogInv, MediaInv, UpdateRow
    PROVE  MediaInv'
<1> USE DEF LogInv, MediaInv
<1>1. /\ current \in Clips /\ copy \in Row /\ stage = "update" /\ stage' = "log"
      /\ UNCHANGED <<files, current>>
  BY DEF UpdateRow, HeldClip, Purging, StepDone, StepsAfterRelease, clipVars
<1>2. /\ rows'[current] = [copy EXCEPT !.retained = FALSE]
      /\ \A d \in Clips : d # current => rows'[d] = rows[d]
  BY <1>1 DEF UpdateRow, StoreType
<1>3. ASSUME NEW c \in Clips, Purged(c)', files[EventOf[c]] = c
      PROVE  RetainedSibling(c)'
  <2>1. ASSUME NEW d \in Clips, d # c, d # current, EventOf[d] = EventOf[c],
               HasRow(d), rows[d].retained
        PROVE  RetainedSibling(c)'
    BY <1>2, <2>1 DEF RetainedSibling, HasRow
  <2>2. CASE EventOf[c] # EventOf[current]
    <3>1. Purged(c)
      BY <1>2, <1>3, <2>2 DEF Purged, HasRow
    <3> QED
      BY <1>3, <2>1, <2>2, <3>1 DEF PurgedMediaGone
  <2>3. CASE EventOf[c] = EventOf[current]
    <3>1. RetainedSibling(current)
      <4>1. c = current \/ Purged(c)
        BY <1>2, <1>3 DEF Purged, HasRow
      <4> QED
        BY <1>1, <1>3, <2>3, <4>1 DEF ReleasedFile, File
    <3>2. PICK d \in Clips \ {current} : /\ EventOf[d] = EventOf[current]
                                         /\ HasRow(d) /\ rows[d].retained
      BY <3>1 DEF RetainedSibling
    <3>3. d # c
      BY <1>2, <1>3, <3>2 DEF Purged
    <3> QED
      BY <2>1, <2>3, <3>2, <3>3
  <2> QED
    BY <2>2, <2>3
<1> QED
  BY <1>1, <1>3 DEF PurgedMediaGone, RetainedSibling, ReleasedFile

\* Every step keeps the invariant about the files, and so does a stutter.
LEMMA MediaInvInit == Init => MediaInv
BY DEF Init, MediaInv, PurgedMediaGone, Purged, HasRow, ReleasedFile

LEMMA MediaInvNext ==
    ASSUME "stat" \notin Faults, LogInv, MediaInv, [Next]_vars
    PROVE  MediaInv'
<1>1. ASSUME Next PROVE MediaInv'
  BY <1>1, ExtractionKeepsMedia, LockKeepsMedia, PlanKeepsMedia, ReleaseKeepsMedia,
     UpdateKeepsMedia DEF Next, SweepStep, PurgeClip
<1>2. ASSUME UNCHANGED vars PROVE MediaInv'
  BY <1>2, MediaKept DEF vars, storeVars, sweepVars, clipVars, Purged, HasRow
<1> QED
  BY <1>1, <1>2

\* purge_media.hpp: file first, row second.  While stat() does not fail, a
\* released clip leaves no media of its own, unless a retained clip of the
\* same event names the file too; for any clips, faults and crashes.
THEOREM PurgedMediaGoneAlways ==
    ASSUME "stat" \notin Faults
    PROVE  Spec => []PurgedMediaGone
<1>1. LogInv /\ MediaInv /\ [Next]_vars => MediaInv'
  BY MediaInvNext
<1>2. MediaInv => PurgedMediaGone
  BY DEF MediaInv
<1> QED
  BY <1>1, <1>2, MediaInvInit, LogInvAlways, PTL DEF Spec

-----------------------------------------------------------------------------
(***************************************************************************)
(* The ledger.  Whatever is not a call on the table, the files or the log  *)
(* leaves it alone.                                                        *)
(***************************************************************************)
OutcomeKnown == stage \in {"update", "log"} => outcome \in Ledger!Outcomes

\* releaseFile returns one of its three outcomes before the row is released.
LEMMA OutcomeKnownAlways == Spec => []OutcomeKnown
<1>1. Init => OutcomeKnown
  BY DEF Init, OutcomeKnown
<1>2. OutcomeKnown /\ [Next]_vars => OutcomeKnown'
  <2> SUFFICES ASSUME OutcomeKnown, [Next]_vars
               PROVE  OutcomeKnown'
    OBVIOUS
  <2> USE DEF OutcomeKnown, Ledger!Outcomes
  <2>1. ASSUME NEW c \in Clips, Extraction(c) \/ LockForAudit(c)
        PROVE  OutcomeKnown'
    BY <2>1 DEF Extraction, WriteContainer, WriteFails, SaveClip, SaveFails, Extracts,
                LockForAudit, sweepVars, clipVars
  <2>2. CASE \/ SweepStarts \/ ApplyStrategy \/ QuotaThrows \/ UsageThrows
             \/ StrategyEnds \/ Reread \/ RereadThrows \/ SweepEnds \/ Crash \/ Tick
    BY <2>2 DEF SweepStarts, ApplyStrategy, QuotaThrows, UsageThrows, StrategyEnds, Reread,
                RereadThrows, SweepEnds, Crash, Tick, SweepThrows, ExecuteEnds, sweepVars,
                clipVars
  <2>3. CASE PurgeClip
    BY <2>3 DEF PurgeClip, FileMissing, FileExists, FileShared, FileNotShared, QueryFails,
                RemoveFile, RemoveFails, UpdateRow, UpdateFails, RecordLog, RecordFails,
                Released, ClipFails, AfterFailure, StepDone, StepsAfterRelease, clipVars
  <2>4. CASE UNCHANGED vars
    BY <2>4 DEF vars, sweepVars, clipVars
  <2> QED
    BY <2>1, <2>2, <2>3, <2>4 DEF Next, SweepStep
<1> QED
  BY <1>1, <1>2, PTL DEF Spec

\* What the ledger shows of a clip.
LEMMA LifeCases ==
    ASSUME StoreType, NEW c \in Clips
    PROVE  /\ LifeOf(c) = "none" <=> ~HasRow(c)
           /\ LifeOf(c) = "retained" <=> HasRow(c) /\ rows[c].retained
           /\ LifeOf(c) = "released" <=> Purged(c)
BY DEF LifeOf, Purged

\* Steps that neither save, release nor touch a file or the log are stutters.
LEMMA LedgerStutters ==
    ASSUME UNCHANGED <<files, log>>,
           \A c \in Clips : LifeOf(c)' = LifeOf(c)
    PROVE  UNCHANGED Ledger!ledgerVars
BY DEF Ledger!ledgerVars

LEMMA SameRowsSameLives ==
    ASSUME UNCHANGED rows
    PROVE  \A c \in Clips : LifeOf(c)' = LifeOf(c)
BY DEF LifeOf, Purged, HasRow

\* An extraction writes for a clip that is not in the table, then keeps it.
LEMMA ExtractionIsLedgerStep ==
    ASSUME LogInv, NEW c \in Clips, Extraction(c)
    PROVE  [Ledger!LedgerNext]_Ledger!ledgerVars
<1> USE DEF LogInv
<1> DEFINE life == [d \in Clips |-> LifeOf(d)]
           media == {d \in Clips : files[EventOf[d]] = d}
<1>1. ASSUME extraction[c] = "none" \/ extraction[c] = "written"
      PROVE  ~HasRow(c) /\ life[c] = "none"
  BY <1>1, LifeCases DEF RowsAreSaved
<1>2. CASE WriteContainer(c) \/ WriteFails(c)
  <2>1. UNCHANGED <<rows, log>> /\ life[c] = "none"
    BY <1>1, <1>2 DEF WriteContainer, WriteFails, Extracts
  <2>2. \/ files' = [files EXCEPT ![EventOf[c]] = c]
        \/ files' = [files EXCEPT ![EventOf[c]] = Torn]
    BY <1>2 DEF WriteContainer, WriteFails
  <2>3. \E own \in {{}, {c}} : media' = (media \ Ledger!SameFile(c)) \cup own
    <3>1. \A d \in Clips : EventOf[d] \in Events
      BY EventAssumption
    <3>2. CASE files' = [files EXCEPT ![EventOf[c]] = c]
      <4>1. media' = (media \ Ledger!SameFile(c)) \cup {c}
        BY <3>1, <3>2 DEF StoreType, Ledger!SameFile
      <4> QED
        BY <4>1
    <3>3. CASE files' = [files EXCEPT ![EventOf[c]] = Torn]
      <4>1. media' = (media \ Ledger!SameFile(c)) \cup {}
        BY <3>1, <3>3, NullAssumption DEF StoreType, Ledger!SameFile
      <4> QED
        BY <4>1
    <3> QED
      BY <2>2, <3>2, <3>3
  <2>4. life' = life
    BY <2>1, SameRowsSameLives
  <2>5. Ledger!Write(c)
    BY <2>1, <2>3, <2>4 DEF Ledger!Write
  <2> QED
    BY <2>5 DEF Ledger!LedgerNext
<1>3. CASE SaveClip(c)
  <2>1. life[c] = "none" /\ UNCHANGED <<files, log>>
    BY <1>1, <1>3 DEF SaveClip, Extracts
  <2>2. [created |-> now, retained |-> TRUE, locked |-> FALSE] \in Row
    BY DEF StoreType, Row
  <2>3. /\ rows'[c] = [created |-> now, retained |-> TRUE, locked |-> FALSE]
        /\ \A d \in Clips : d # c => rows'[d] = rows[d]
    BY <1>3 DEF SaveClip, StoreType
  <2>4. LifeOf(c)' = "retained"
    BY <2>2, <2>3, NullAssumption DEF LifeOf, Purged, HasRow, Row
  <2>5. \A d \in Clips : d # c => LifeOf(d)' = LifeOf(d)
    BY <2>3 DEF LifeOf, Purged, HasRow
  <2>6. life' = [life EXCEPT ![c] = "retained"]
    BY <2>4, <2>5
  <2>7. Ledger!Keep(c)
    BY <2>1, <2>6 DEF Ledger!Keep
  <2> QED
    BY <2>7 DEF Ledger!LedgerNext
<1>4. CASE SaveFails(c)
  BY <1>4, SameRowsSameLives, LedgerStutters DEF SaveFails, Extracts
<1> QED
  BY <1>2, <1>3, <1>4 DEF Extraction

\* The last three calls of purge delete, release and record.
LEMMA PurgeIsLedgerStep ==
    ASSUME LogInv, MediaInv, OutcomeKnown, RemoveFile \/ UpdateRow \/ RecordLog,
           NEW c \in Clips, c = current
    PROVE  Ledger!Delete(c) \/ Ledger!Release(c) \/ Ledger!Record(c)
<1> USE DEF LogInv
<1> DEFINE life == [d \in Clips |-> LifeOf(d)]
           media == {d \in Clips : files[EventOf[d]] = d}
           same == Ledger!SameFile(c)
<1>1. /\ c \in Clips /\ copy \in Row /\ HasRow(c) /\ log[c] = <<>>
      /\ \A d \in Clips : EventOf[d] \in Events
      /\ rows[c].retained <=> stage # "log"
  BY EventAssumption DEF RemoveFile, UpdateRow, RecordLog, HeldClip, Purging
<1>2. CASE RemoveFile
  <2>1. /\ life[c] = "retained" /\ UNCHANGED <<rows, log>>
    BY <1>1, <1>2, LifeCases DEF RemoveFile, Released
  <2>2. media' = media \ same
    BY <1>1, <1>2, NullAssumption DEF RemoveFile, StoreType, Ledger!SameFile
  <2>3. life' = life
    BY <2>1, SameRowsSameLives
  <2>4. Ledger!Delete(c)
    BY <2>1, <2>2, <2>3 DEF Ledger!Delete
  <2> QED
    BY <2>4
<1>3. CASE UpdateRow
  <2>1. life[c] = "retained" /\ stage = "update" /\ UNCHANGED <<files, log>>
    BY <1>1, <1>3, LifeCases DEF UpdateRow
  <2>2. /\ rows'[c] = [copy EXCEPT !.retained = FALSE]
        /\ [copy EXCEPT !.retained = FALSE] \in Row
        /\ ~[copy EXCEPT !.retained = FALSE].retained
        /\ \A d \in Clips : d # c => rows'[d] = rows[d]
    BY <1>1, <1>3 DEF UpdateRow, StoreType, Row
  <2>3. LifeOf(c)' = "released"
    BY <2>2, NullAssumption DEF LifeOf, Purged, HasRow, Row
  <2>4. \A d \in Clips : d # c => LifeOf(d)' = LifeOf(d)
    BY <2>2 DEF LifeOf, Purged, HasRow
  <2>5. life' = [life EXCEPT ![c] = "released"]
    BY <2>3, <2>4
  <2>6. \/ \E d \in same \ {c} : life[d] = "retained"
        \/ \A d \in same \cap media : life[d] = "none"
    <3>1. CASE RetainedSibling(current)
      BY <3>1, LifeCases DEF RetainedSibling, Ledger!SameFile
    <3>2. CASE \A d \in Clips : File = d => d # c /\ ~Purged(d)
      <4>1. ASSUME NEW d \in same \cap media, HasRow(d)
            PROVE  d \in same \ {c} /\ life[d] = "retained"
        BY <3>2, <4>1, LifeCases DEF File, Ledger!SameFile, Purged
      <4>2. \A d \in same \cap media : HasRow(d) \/ life[d] = "none"
        BY LifeCases
      <4> HIDE DEF life, media, same
      <4> QED
        BY <4>1, <4>2
    <3> QED
      BY <2>1, <3>1, <3>2 DEF MediaInv, ReleasedFile
  <2>7. Ledger!Release(c)
    BY <2>1, <2>5, <2>6 DEF Ledger!Release
  <2> QED
    BY <2>7
<1>4. CASE RecordLog
  <2>1. life[c] = "released" /\ UNCHANGED <<rows, files>>
    BY <1>1, <1>4, LifeCases DEF RecordLog, Purged
  <2>2. outcome \in Ledger!Outcomes
    BY <1>4 DEF RecordLog, OutcomeKnown
  <2>3. log' = [log EXCEPT ![c] = <<outcome>>]
    <3>1. Append(log[c], outcome) = <<outcome>>
      BY <1>1
    <3> QED
      BY <1>4, <3>1 DEF RecordLog
  <2>4. life' = life
    BY <2>1, SameRowsSameLives
  <2>5. Ledger!Record(c)
    BY <1>1, <2>1, <2>2, <2>3, <2>4 DEF Ledger!Record
  <2> QED
    BY <2>5
<1> QED
  BY <1>2, <1>3, <1>4

\* A lock, a plan, a check, a failure and a crash are stutters of the ledger.
LEMMA OtherStepsAreStutters ==
    ASSUME LogInv,
           \/ \E c \in Clips : LockForAudit(c)
           \/ SweepStarts \/ ApplyStrategy \/ QuotaThrows \/ UsageThrows
           \/ StrategyEnds \/ RereadThrows \/ SweepEnds \/ Crash \/ Tick
           \/ Reread \/ FileMissing \/ FileExists \/ FileShared \/ FileNotShared
           \/ QueryFails \/ RemoveFails \/ UpdateFails \/ RecordFails
           \/ UNCHANGED vars
    PROVE  UNCHANGED Ledger!ledgerVars
<1> USE DEF LogInv
<1>1. ASSUME NEW c \in Clips, LockForAudit(c)
      PROVE  UNCHANGED Ledger!ledgerVars
  <2>1. rows[c] \in Row /\ rows' = [rows EXCEPT ![c] = [rows[c] EXCEPT !.locked = TRUE]]
    BY <1>1 DEF LockForAudit, StoreType, HasRow
  <2>2. [rows[c] EXCEPT !.locked = TRUE] \in Row
    BY <2>1 DEF Row
  <2>3. \A d \in Clips : /\ HasRow(d)' <=> HasRow(d)
                         /\ HasRow(d) => (rows'[d].retained <=> rows[d].retained)
    BY <2>1, <2>2, NullAssumption DEF StoreType, HasRow, Row
  <2>4. \A d \in Clips : LifeOf(d)' = LifeOf(d)
    BY <2>3 DEF LifeOf, Purged
  <2> QED
    BY <1>1, <2>4, LedgerStutters DEF LockForAudit
<1>2. ASSUME UNCHANGED <<rows, files, log>>
      PROVE  UNCHANGED Ledger!ledgerVars
  BY <1>2, SameRowsSameLives, LedgerStutters
<1>3. ASSUME \/ SweepStarts \/ ApplyStrategy \/ QuotaThrows \/ UsageThrows
             \/ StrategyEnds \/ RereadThrows \/ SweepEnds \/ Crash \/ Tick
             \/ Reread \/ FileMissing \/ FileExists \/ FileShared \/ FileNotShared
             \/ QueryFails \/ RemoveFails \/ UpdateFails \/ RecordFails
             \/ UNCHANGED vars
      PROVE  UNCHANGED <<rows, files, log>>
  BY <1>3 DEF SweepStarts, ApplyStrategy, QuotaThrows, UsageThrows, StrategyEnds, RereadThrows,
         SweepEnds, Crash, Tick, Reread, FileMissing, FileExists, FileShared, FileNotShared,
         QueryFails, RemoveFails, UpdateFails, RecordFails, ClipFails, Released, SweepThrows,
         storeVars, vars
<1> QED
  BY <1>1, <1>2, <1>3

\* Extraction, sweep, auditor and crash together implement the ledger: the
\* lives of the clips go one way, the media of a clip goes before its release
\* and its line comes after, for any clips, faults and crashes, while stat()
\* does not fail.
THEOREM RetentionImplementsLedger ==
    ASSUME "stat" \notin Faults
    PROVE  Spec => ImplementsLedger
<1>1. Init => Ledger!LedgerInit
  <2> SUFFICES ASSUME Init PROVE Ledger!LedgerInit
    OBVIOUS
  <2>1. \A c \in Clips : LifeOf(c) = "none"
    BY DEF Init, LifeOf, Purged, HasRow
  <2>2. {c \in Clips : files[EventOf[c]] = c} = {}
    BY EventAssumption, NullAssumption DEF Init
  <2> QED
    BY <2>1, <2>2 DEF Ledger!LedgerInit, Init
<1>2. LogInv /\ MediaInv /\ OutcomeKnown /\ [Next]_vars
        => [Ledger!LedgerNext]_Ledger!ledgerVars
  <2>1. ASSUME LogInv, MediaInv, OutcomeKnown, RemoveFile \/ UpdateRow \/ RecordLog
        PROVE  Ledger!LedgerNext
    <3>1. current \in Clips
      BY <2>1 DEF RemoveFile, UpdateRow, RecordLog, LogInv, HeldClip, Purging
    <3>2. PICK c \in Clips : c = current
      BY <3>1
    <3> QED
      BY <2>1, <3>2, PurgeIsLedgerStep DEF Ledger!LedgerNext
  <2> QED
    BY <2>1, ExtractionIsLedgerStep, OtherStepsAreStutters DEF Next, SweepStep, PurgeClip
<1>3. LogInv /\ MediaInv /\ [Next]_vars => MediaInv'
  BY MediaInvNext
<1> QED
  BY <1>1, <1>2, <1>3, MediaInvInit, LogInvAlways, OutcomeKnownAlways, PTL
     DEF Spec, ImplementsLedger, Ledger!LedgerSpec

-----------------------------------------------------------------------------
(***************************************************************************)
(* The loops of the sweep.                                                 *)
(***************************************************************************)

\* A set of naturals has a least element; what the library says of well-founded
\* relations, without an operator as a parameter.
LEMMA LeastNatural ==
    ASSUME NEW T \in SUBSET Nat, T # {}
    PROVE  \E n \in T : \A m \in T : n <= m
<1>1. PICK n \in T : \A m \in T : <<m, n>> \notin OpToRel(<, Nat)
  BY NatLessThanWellFounded, WFMin, Zenon
<1>2. ASSUME NEW m \in T
      PROVE  n <= m
  <2>1. <<m, n>> \notin OpToRel(<, Nat)
    BY <1>1
  <2>2. m \in Nat /\ n \in Nat
    OBVIOUS
  <2>3. ~(m < n)
    BY <2>1, <2>2 DEF OpToRel
  <2> QED
    BY <2>2, <2>3
<1> QED
  BY <1>2

\* One turn of the loop of Kept, and the loop of the first n entries.
Turn(s, I, g, n) ==
    IF n = 0 THEN <<>> ELSE IF n \in I THEN Append(g[n - 1], s[n]) ELSE g[n - 1]
IsLoop(s, I, g, n) == g = [m \in 0 .. n |-> Turn(s, I, g, m)]

\* The loop runs to its end: a run of n - 1 turns goes on for one more.
LEMMA LoopRuns ==
    ASSUME NEW s, NEW I, NEW n \in Nat
    PROVE  \E g : IsLoop(s, I, g, n)
<1> DEFINE stuck == {m \in 0 .. n : ~ \E g : IsLoop(s, I, g, m)}
<1>1. ASSUME stuck # {} PROVE FALSE
  <2>1. PICK m \in stuck : \A k \in stuck : m <= k
    <3>1. stuck \in SUBSET Nat
      OBVIOUS
    <3> HIDE DEF stuck
    <3> QED
      BY <1>1, <3>1, LeastNatural
  <2>2. m \in 0 .. n /\ m \in Nat
    OBVIOUS
  <2>3. CASE m = 0
    <3> DEFINE g == [k \in 0 .. 0 |-> <<>>]
    <3>1. \A k \in 0 .. 0 : Turn(s, I, g, k) = <<>>
      BY DEF Turn
    <3>2. IsLoop(s, I, g, 0)
      BY <3>1 DEF IsLoop
    <3> QED
      BY <2>3, <3>2
  <2>4. CASE m # 0
    <3>1. m - 1 \in 0 .. n /\ ~(m <= m - 1)
      BY <2>2, <2>4
    <3>2. PICK g : IsLoop(s, I, g, m - 1)
      BY <2>1, <3>1
    <3> DEFINE h == [k \in 0 .. m |-> IF k < m THEN g[k] ELSE Turn(s, I, g, m)]
    <3>3. ASSUME NEW k \in 0 .. m
          PROVE  h[k] = Turn(s, I, h, k)
      <4>1. CASE k < m
        <5>1. k \in 0 .. m - 1 /\ (k # 0 => k - 1 \in 0 .. m /\ k - 1 < m)
          BY <2>2, <4>1
        <5>2. g[k] = Turn(s, I, g, k)
          BY <3>2, <5>1 DEF IsLoop
        <5>3. k # 0 => h[k - 1] = g[k - 1]
          BY <5>1
        <5>4. Turn(s, I, h, k) = Turn(s, I, g, k)
          <6> HIDE DEF h
          <6> QED
            BY <5>3 DEF Turn
        <5> QED
          BY <4>1, <5>2, <5>4
      <4>2. CASE k = m
        <5>1. m - 1 \in 0 .. m /\ m - 1 < m
          BY <2>2, <2>4
        <5>2. h[m - 1] = g[m - 1]
          BY <5>1
        <5>3. Turn(s, I, h, m) = Turn(s, I, g, m)
          <6> HIDE DEF h
          <6> QED
            BY <2>4, <5>2 DEF Turn
        <5>4. h[m] = Turn(s, I, g, m)
          BY <2>2
        <5> HIDE DEF h
        <5> QED
          BY <4>2, <5>3, <5>4
      <4> QED
        BY <2>2, <4>1, <4>2
    <3>4. DOMAIN h = 0 .. m /\ h = [k \in 0 .. m |-> h[k]]
      OBVIOUS
    <3>5. IsLoop(s, I, h, m)
      <4> HIDE DEF h
      <4> QED
        BY <3>3, <3>4 DEF IsLoop
    <3> HIDE DEF h
    <3> QED
      BY <2>1, <3>5
  <2> QED
    BY <2>3, <2>4
<1>2. n \in 0 .. n
  OBVIOUS
<1> QED
  BY <1>1, <1>2

\* t is made of the entries of s at some indices, up to n and in I, in order.
PickedFrom(t, s, I, n) ==
    \E h \in [1 .. Len(t) -> (1 .. n) \cap I] :
        /\ \A i \in 1 .. Len(t) : t[i] = s[h[i]]
        /\ \A i, j \in 1 .. Len(t) : i < j => h[i] < h[j]

\* One turn of the loop keeps the order.
LEMMA TurnPicks ==
    ASSUME NEW S, NEW s \in Seq(S), NEW I, NEW n \in 1 .. Len(s),
           NEW t \in Seq(S), PickedFrom(t, s, I, n - 1)
    PROVE  /\ n \in I => /\ Append(t, s[n]) \in Seq(S)
                         /\ PickedFrom(Append(t, s[n]), s, I, n)
           /\ PickedFrom(t, s, I, n)
<1>1. Len(s) \in Nat /\ Len(t) \in Nat /\ s[n] \in S /\ n \in Nat
  BY LenProperties, ElementOfSeq
<1>2. PICK h \in [1 .. Len(t) -> (1 .. n - 1) \cap I] :
        /\ \A i \in 1 .. Len(t) : t[i] = s[h[i]]
        /\ \A i, j \in 1 .. Len(t) : i < j => h[i] < h[j]
  BY DEF PickedFrom
<1>3. PickedFrom(t, s, I, n)
  <2>1. (1 .. n - 1) \cap I \subseteq (1 .. n) \cap I
    BY <1>1
  <2>2. h \in [1 .. Len(t) -> (1 .. n) \cap I]
    BY <1>2, <2>1
  <2> QED
    BY <1>2, <2>2 DEF PickedFrom
<1>4. ASSUME n \in I
      PROVE  /\ Append(t, s[n]) \in Seq(S)
             /\ PickedFrom(Append(t, s[n]), s, I, n)
  <2> DEFINE u == Append(t, s[n])
             last == Len(t) + 1
             g == [i \in 1 .. last |-> IF i = last THEN n ELSE h[i]]
  <2>1. /\ u \in Seq(S) /\ Len(u) = last
        /\ \A i \in 1 .. Len(t) : u[i] = t[i]
        /\ u[last] = s[n]
    BY <1>1, AppendProperties
  <2>2. \A i \in 1 .. last : i = last \/ i \in 1 .. Len(t)
    BY <1>1
  <2>3. \A i \in 1 .. Len(t) : h[i] \in 1 .. n - 1 /\ h[i] \in I /\ i # last
    BY <1>1, <1>2
  <2>4. g \in [1 .. last -> (1 .. n) \cap I]
    <3>1. ASSUME NEW i \in 1 .. last
          PROVE  g[i] \in (1 .. n) \cap I
      BY <1>1, <1>4, <2>2, <2>3
    <3> QED
      BY <3>1
  <2> HIDE DEF u
  <2>5. \A i \in 1 .. last : u[i] = s[g[i]]
    BY <1>2, <2>1, <2>2, <2>3
  <2>6. ASSUME NEW i \in 1 .. last, NEW j \in 1 .. last, i < j
        PROVE  g[i] < g[j]
    <3>1. i \in 1 .. Len(t) /\ i # last
      BY <1>1, <2>6
    <3>2. CASE j = last
      BY <1>1, <2>3, <3>1, <3>2
    <3>3. CASE j \in 1 .. Len(t)
      BY <1>2, <2>3, <2>6, <3>1, <3>3
    <3> QED
      BY <2>2, <3>2, <3>3
  <2> HIDE DEF g, last
  <2> QED
    BY <2>1, <2>4, <2>5, <2>6 DEF PickedFrom, u
<1> QED
  BY <1>3, <1>4

\* Kept is a subsequence: std::remove_if and a loop of push_back keep the order.
LEMMA KeptIsSubsequence ==
    ASSUME NEW S, NEW s \in Seq(S), NEW I
    PROVE  Kept(s, I) \in Seq(S) /\ PickedFrom(Kept(s, I), s, I, Len(s))
<1>1. Len(s) \in Nat
  BY LenProperties
<1>2. Kept(s, I) = (CHOOSE g : IsLoop(s, I, g, Len(s)))[Len(s)]
  BY DEF Kept, IsLoop, Turn
<1> DEFINE g == CHOOSE g : IsLoop(s, I, g, Len(s))
<1>3. IsLoop(s, I, g, Len(s))
  BY <1>1, LoopRuns
<1> HIDE DEF g
<1>4. \A n \in 0 .. Len(s) : g[n] = Turn(s, I, g, n)
  BY <1>3 DEF IsLoop
<1> DEFINE wrong == {n \in 0 .. Len(s) : ~(g[n] \in Seq(S) /\ PickedFrom(g[n], s, I, n))}
<1>5. ASSUME wrong # {} PROVE FALSE
  <2>1. PICK n \in wrong : \A m \in wrong : n <= m
    <3>1. wrong \in SUBSET Nat
      OBVIOUS
    <3> HIDE DEF wrong
    <3> QED
      BY <1>5, <3>1, LeastNatural
  <2>2. n \in 0 .. Len(s) /\ g[n] = Turn(s, I, g, n)
        /\ ~(g[n] \in Seq(S) /\ PickedFrom(g[n], s, I, n))
    BY <1>4, <2>1
  <2>3. CASE n = 0
    <3>1. g[n] = <<>> /\ g[n] \in Seq(S) /\ Len(g[n]) = 0
      BY <2>2, <2>3, EmptySeq DEF Turn
    <3> DEFINE u == g[n]
               h == [i \in 1 .. Len(u) |-> i]
    <3>2. /\ h \in [1 .. Len(u) -> (1 .. n) \cap I]
          /\ \A i \in 1 .. Len(u) : u[i] = s[h[i]]
          /\ \A i, j \in 1 .. Len(u) : i < j => h[i] < h[j]
      <4>1. \A i \in 1 .. Len(u) : FALSE
        BY <3>1
      <4> HIDE DEF u
      <4> QED
        BY <4>1
    <3> HIDE DEF u, h
    <3>3. PickedFrom(u, s, I, n)
      BY <3>2 DEF PickedFrom
    <3> USE DEF u
    <3> QED
      BY <2>2, <3>1, <3>3
  <2>4. CASE n # 0
    <3>1. n \in 1 .. Len(s) /\ n - 1 \in 0 .. Len(s) /\ ~(n <= n - 1)
      BY <1>1, <2>2, <2>4
    <3>2. g[n - 1] \in Seq(S) /\ PickedFrom(g[n - 1], s, I, n - 1)
      BY <2>1, <3>1
    <3>3. g[n] = IF n \in I THEN Append(g[n - 1], s[n]) ELSE g[n - 1]
      BY <2>2, <2>4 DEF Turn
    <3>4. g[n] \in Seq(S) /\ PickedFrom(g[n], s, I, n)
      BY <3>1, <3>2, <3>3, TurnPicks
    <3> QED
      BY <2>2, <3>4
  <2> QED
    BY <2>3, <2>4
<1>6. Len(s) \in 0 .. Len(s)
  BY <1>1
<1> QED
  BY <1>2, <1>5, <1>6 DEF g

-----------------------------------------------------------------------------
(***************************************************************************)
(* Sums over sets.                                                         *)
(***************************************************************************)

\* Some subsets of a finite set: one of them has no other inside it.
LEMMA SmallestSet ==
    ASSUME NEW S, IsFiniteSet(S), NEW B \in SUBSET SUBSET S, B # {}
    PROVE  \E s \in B : \A t \in B : t \subseteq s => t = s
<1> DEFINE sizes == {Cardinality(s) : s \in B}
<1>1. \A s \in B : IsFiniteSet(s) /\ Cardinality(s) \in Nat
  BY FS_Subset, FS_CardinalityType
<1>2. PICK n \in sizes : \A m \in sizes : n <= m
  <2>1. sizes \in SUBSET Nat /\ sizes # {}
    BY <1>1
  <2> HIDE DEF sizes
  <2> QED
    BY <2>1, LeastNatural
<1>3. PICK s \in B : n = Cardinality(s)
  OBVIOUS
<1>4. ASSUME NEW t \in B, t \subseteq s, t # s PROVE FALSE
  <2>1. Cardinality(t) < Cardinality(s)
    BY <1>1, <1>4, FS_Subset
  <2>2. Cardinality(s) <= Cardinality(t)
    BY <1>2, <1>3
  <2> QED
    BY <1>1, <2>1, <2>2
<1> QED
  BY <1>3, <1>4

\* The recursion of SumFunctionOnSet, which takes some element first.
Some(s) == CHOOSE x \in s : TRUE
Added(f, g, s) == IF s = {} THEN 0 ELSE f[Some(s)] + g[s \ {Some(s)}]
Adds(f, S, g) == g = [s \in SUBSET S |-> Added(f, g, s)]

\* CHOOSE takes an element if there is one.
LEMMA SomeIsIn ==
    ASSUME NEW s, s # {}
    PROVE  Some(s) \in s
BY DEF Some

\* What the recursion yields for a set is the same within any larger one.
LEMMA AddsTheSame ==
    ASSUME NEW S, IsFiniteSet(S), NEW f, NEW T \in SUBSET S,
           NEW g, Adds(f, S, g), NEW h, Adds(f, T, h), NEW s \in SUBSET T
    PROVE  g[s] = h[s]
<1> DEFINE B == {t \in SUBSET T : g[t] # h[t]}
<1>1. ASSUME B # {} PROVE FALSE
  <2>1. IsFiniteSet(T)
    BY FS_Subset
  <2>2. PICK t \in B : \A u \in B : u \subseteq t => u = t
    <3>1. B \in SUBSET SUBSET T
      OBVIOUS
    <3> HIDE DEF B
    <3> QED
      BY <1>1, <2>1, <3>1, SmallestSet
  <2>3. t \in SUBSET T /\ t \in SUBSET S /\ g[t] # h[t]
    OBVIOUS
  <2>4. g[t] = Added(f, g, t) /\ h[t] = Added(f, h, t)
    BY <2>3 DEF Adds
  <2>5. t # {}
    BY <2>3, <2>4 DEF Added
  <2> DEFINE u == t \ {Some(t)}
  <2>6. u \in SUBSET T /\ u # t /\ u \subseteq t
    BY <2>3, <2>5, SomeIsIn
  <2>7. g[u] = h[u]
    <3> HIDE DEF u
    <3>1. u \notin B
      BY <2>2, <2>6
    <3> QED
      BY <2>6, <3>1
  <2> QED
    BY <2>3, <2>4, <2>5, <2>7 DEF Added
<1> QED
  BY <1>1

\* The recursion has a result: where it is stuck for a set and not inside it, the
\* results for its subsets are one for the set.
LEMMA AddsExists ==
    ASSUME NEW S, IsFiniteSet(S), NEW f
    PROVE  \E g : Adds(f, S, g)
<1> DEFINE B == {s \in SUBSET S : ~ \E g : Adds(f, s, g)}
<1>1. ASSUME B # {} PROVE FALSE
  <2>1. PICK s \in B : \A t \in B : t \subseteq s => t = s
    <3>1. B \in SUBSET SUBSET S
      OBVIOUS
    <3> HIDE DEF B
    <3> QED
      BY <1>1, <3>1, SmallestSet
  <2>2. s \in SUBSET S /\ ~ \E g : Adds(f, s, g)
    OBVIOUS
  <2>3. \A t \in SUBSET s : t # s => \E h : Adds(f, t, h)
    BY <2>1, <2>2
  <2> DEFINE For(t) == CHOOSE h : Adds(f, t, h)
             value(t) == IF t = {} THEN 0
                         ELSE f[Some(t)] + For(t \ {Some(t)})[t \ {Some(t)}]
             g == [t \in SUBSET s |-> value(t)]
  <2>4. ASSUME NEW t \in SUBSET s, t # s
        PROVE  Adds(f, t, For(t)) /\ g[t] = For(t)[t]
    <3>1. Adds(f, t, For(t))
      BY <2>3, <2>4
    <3>2. For(t)[t] = Added(f, For(t), t)
      <4> HIDE DEF For
      <4> QED
        BY <3>1 DEF Adds
    <3>3. CASE t = {}
      <4> HIDE DEF For
      <4> QED
        BY <3>1, <3>2, <3>3 DEF Added
    <3>4. CASE t # {}
      <4> DEFINE u == t \ {Some(t)}
      <4>1. u \in SUBSET t /\ u # s /\ u \in SUBSET s /\ IsFiniteSet(t)
        BY <2>2, <2>4, <3>4, FS_Subset
      <4>2. Adds(f, u, For(u))
        <5> HIDE DEF u
        <5> QED
          BY <2>3, <4>1
      <4> HIDE DEF For
      <4>3. For(t)[u] = For(u)[u]
        <5> HIDE DEF u
        <5>1. PICK a, b : a = For(t) /\ b = For(u)
          OBVIOUS
        <5>2. Adds(f, t, a) /\ Adds(f, u, b)
          BY <3>1, <4>2, <5>1
        <5>3. a[u] = b[u]
          BY <4>1, <5>2, AddsTheSame
        <5> QED
          BY <5>1, <5>3
      <4> QED
        BY <3>1, <3>2, <3>4, <4>3 DEF Added
    <3> HIDE DEF For
    <3> QED
      BY <3>1, <3>3, <3>4
  <2>5. ASSUME NEW t \in SUBSET s PROVE g[t] = Added(f, g, t)
    <3>1. CASE t = {}
      BY <3>1 DEF Added
    <3>2. CASE t # {}
      <4> DEFINE u == t \ {Some(t)}
      <4>1. u \in SUBSET s /\ u # s
        BY <3>2, SomeIsIn
      <4>2. g[u] = For(u)[u]
        <5> HIDE DEF u, g, For
        <5> QED
          BY <2>4, <4>1
      <4>3. g[t] = f[Some(t)] + For(u)[u]
        BY <3>2
      <4> HIDE DEF g, For
      <4> QED
        BY <3>2, <4>2, <4>3 DEF Added
    <3> QED
      BY <3>1, <3>2
  <2>6. Adds(f, s, g)
    <3>1. g = [t \in SUBSET s |-> g[t]]
      OBVIOUS
    <3> HIDE DEF g
    <3> QED
      BY <2>5, <3>1 DEF Adds
  <2> QED
    BY <2>2, <2>6
<1>2. S \notin B
  BY <1>1
<1> QED
  BY <1>2

\* The sum is what the recursion yields.
LEMMA SumRuns ==
    ASSUME NEW S, IsFiniteSet(S), NEW f
    PROVE  \E g : Adds(f, S, g) /\ SumFunctionOnSet(f, S) = g[S]
<1> DEFINE g == CHOOSE g : Adds(f, S, g)
<1>1. Adds(f, S, g)
  BY AddsExists
<1>2. SumFunctionOnSet(f, S) = g[S]
  BY DEF SumFunctionOnSet, FoldFunctionOnSet, MapThenFoldSet, Adds, Added, Some
<1> QED
  BY <1>1, <1>2

\* Whichever element is taken first.
LEMMA AnyElementFirst ==
    ASSUME NEW S, IsFiniteSet(S), NEW f, \A x \in S : f[x] \in Nat,
           NEW g, Adds(f, S, g)
    PROVE  \A s \in SUBSET S : g[s] \in Nat /\ \A x \in s : g[s] = f[x] + g[s \ {x}]
<1>0. \A s \in SUBSET S : g[s] = Added(f, g, s)
  BY DEF Adds
<1> DEFINE A == {s \in SUBSET S : g[s] \notin Nat}
<1>1. ASSUME A # {} PROVE FALSE
  <2>1. PICK s \in A : \A t \in A : t \subseteq s => t = s
    <3>1. A \in SUBSET SUBSET S
      OBVIOUS
    <3> HIDE DEF A
    <3> QED
      BY <1>1, <3>1, SmallestSet
  <2>2. s \in SUBSET S /\ g[s] \notin Nat /\ g[s] = Added(f, g, s)
    BY <1>0
  <2>3. s # {}
    BY <2>2 DEF Added
  <2> DEFINE u == s \ {Some(s)}
  <2>4. u \in SUBSET S /\ u # s /\ u \subseteq s /\ Some(s) \in S
    BY <2>2, <2>3, SomeIsIn
  <2>5. g[u] \in Nat
    <3> HIDE DEF u
    <3>1. u \notin A
      BY <2>1, <2>4
    <3> QED
      BY <2>4, <3>1
  <2>6. f[Some(s)] \in Nat
    BY <2>4
  <2> QED
    BY <2>2, <2>3, <2>5, <2>6 DEF Added
<1>2. \A s \in SUBSET S : g[s] \in Nat
  BY <1>1
<1> HIDE DEF A
<1> DEFINE B == {s \in SUBSET S : \E x \in s : g[s] # f[x] + g[s \ {x}]}
<1>3. ASSUME B # {} PROVE FALSE
  <2>1. PICK s \in B : \A t \in B : t \subseteq s => t = s
    <3>1. B \in SUBSET SUBSET S
      OBVIOUS
    <3> HIDE DEF B
    <3> QED
      BY <1>3, <3>1, SmallestSet
  <2>2. s \in SUBSET S
    OBVIOUS
  <2>3. PICK x \in s : g[s] # f[x] + g[s \ {x}]
    OBVIOUS
  <2>4. PICK y \in s : y = Some(s)
    BY SomeIsIn
  <2>5. g[s] = f[y] + g[s \ {y}]
    BY <1>0, <2>2, <2>4 DEF Added
  <2>6. x # y
    BY <2>3, <2>5
  <2>7. s \ {y} \notin B /\ s \ {x} \notin B /\ s \ {y} \in SUBSET S /\ s \ {x} \in SUBSET S
    <3> HIDE DEF B
    <3>1. s \ {y} # s /\ s \ {x} # s
      OBVIOUS
    <3> QED
      BY <2>1, <2>2, <3>1
  <2> DEFINE rest == s \ {x, y}
  <2>8. (s \ {y}) \ {x} = rest /\ (s \ {x}) \ {y} = rest /\ rest \in SUBSET S
    BY <2>2
  <2>9. g[s \ {y}] = f[x] + g[rest] /\ g[s \ {x}] = f[y] + g[rest]
    <3>1. x \in s \ {y} /\ y \in s \ {x}
      BY <2>6
    <3>2. /\ g[s \ {y}] = f[x] + g[(s \ {y}) \ {x}]
          /\ g[s \ {x}] = f[y] + g[(s \ {x}) \ {y}]
      BY <2>7, <3>1
    <3> HIDE DEF rest
    <3> QED
      BY <2>8, <3>2
  <2>10. g[rest] \in Nat /\ f[x] \in Nat /\ f[y] \in Nat
    <3> HIDE DEF rest
    <3> QED
      BY <1>2, <2>2, <2>8
  <2> HIDE DEF rest, B
  <2> QED
    BY <2>3, <2>5, <2>9, <2>10
<1> QED
  BY <1>2, <1>3

\* A sum of naturals grows by what is added to the set.
LEMMA SumOfMore ==
    ASSUME NEW S, IsFiniteSet(S), NEW x, x \notin S, NEW f,
           f[x] \in Nat, \A y \in S : f[y] \in Nat
    PROVE  /\ SumFunctionOnSet(f, S) \in Nat
           /\ SumFunctionOnSet(f, S \cup {x}) = f[x] + SumFunctionOnSet(f, S)
<1> DEFINE T == S \cup {x}
<1>1. IsFiniteSet(T) /\ S \in SUBSET T /\ T \ {x} = S /\ x \in T
      /\ \A y \in T : f[y] \in Nat
  BY FS_AddElement
<1> HIDE DEF T
<1>2. PICK g : Adds(f, T, g) /\ SumFunctionOnSet(f, T) = g[T]
  BY <1>1, SumRuns
<1>3. PICK h : Adds(f, S, h) /\ SumFunctionOnSet(f, S) = h[S]
  BY SumRuns
<1>4. g[S] = h[S]
  BY <1>1, <1>2, <1>3, AddsTheSame
<1>5. g[S] \in Nat /\ g[T] = f[x] + g[T \ {x}]
  BY <1>1, <1>2, AnyElementFirst
<1> QED
  BY <1>1, <1>2, <1>3, <1>4, <1>5 DEF T

\* Nothing adds up to nothing.
LEMMA SumOfNone ==
    ASSUME NEW f
    PROVE  SumFunctionOnSet(f, {}) = 0
<1>1. IsFiniteSet({})
  BY FS_EmptySet
<1>2. PICK g : Adds(f, {}, g) /\ SumFunctionOnSet(f, {}) = g[{}]
  BY <1>1, SumRuns
<1> QED
  BY <1>2 DEF Adds, Added

-----------------------------------------------------------------------------
(***************************************************************************)
(* The order of a sweep.                                                   *)
(***************************************************************************)
Candidate == [clip : Clips, size : Nat]

\* A candidate the quota selected is no younger than any remaining one that
\* is not selected before it.
InQuotaOrder ==
    \A i \in 1 .. Len(selected) : \A k \in ToSet(remaining) :
        \/ \E j \in 1 .. i - 1 : selected[j].clip = k.clip
        \/ rows[selected[i].clip].created <= rows[k.clip].created

QuotaPurges == strategy = "quota" /\ stage \in Purging \cup {"purge"}

\* The sweep holds candidates with a row, oldest first; the clip in hand is
\* not among them any more, and under the quota none of them is older.
SweepInv ==
    /\ remaining \in Seq(Candidate) /\ selected \in Seq(Candidate)
    /\ \A i \in 1 .. Len(remaining) : HasRow(remaining[i].clip)
    /\ \A i \in 1 .. Len(selected) : HasRow(selected[i].clip)
    /\ OldestFirst(remaining)
    /\ QuotaPurges => InQuotaOrder
    /\ stage \in Purging =>
        /\ copy.created = rows[current].created
        /\ \A k \in ToSet(remaining) :
              /\ k.clip # current
              /\ strategy = "quota" => copy.created <= rows[k.clip].created

\* The indices and the elements of a list of candidates.
LEMMA CandidateList ==
    ASSUME NEW s \in Seq(Candidate)
    PROVE  /\ Len(s) \in Nat
           /\ ToSet(s) = {s[i] : i \in 1 .. Len(s)}
           /\ \A i \in 1 .. Len(s) : s[i] \in Candidate /\ s[i].clip \in Clips
<1>1. Len(s) \in Nat /\ DOMAIN s = 1 .. Len(s)
  BY LenProperties
<1>2. \A i \in 1 .. Len(s) : s[i] \in Candidate
  BY ElementOfSeq
<1> QED
  BY <1>1, <1>2 DEF ToSet, Candidate

\* A prefix of the list.
LEMMA CandidatePrefix ==
    ASSUME NEW s \in Seq(Candidate), NEW n \in 0 .. Len(s)
    PROVE  /\ SubSeq(s, 1, n) \in Seq(Candidate)
           /\ Len(SubSeq(s, 1, n)) = n
           /\ \A i \in 1 .. n : SubSeq(s, 1, n)[i] = s[i]
<1>1. Len(s) \in Nat /\ \A i \in 1 .. n : s[i] \in Candidate
  BY CandidateList
<1>2. /\ SubSeq(s, 1, n) \in Seq(Candidate)
      /\ Len(SubSeq(s, 1, n)) = IF 1 <= n THEN n - 1 + 1 ELSE 0
      /\ \A i \in 1 .. n - 1 + 1 : SubSeq(s, 1, n)[i] = s[1 + i - 1]
  BY <1>1, SubSeqProperties
<1> QED
  BY <1>1, <1>2

\* findPurgeCandidates answers a finite list of clips that have a row.
LEMMA CandidatesAreFinite ==
    ASSUME LogInv
    PROVE  /\ Cardinality(Candidates) \in Nat
           /\ Candidates \subseteq Candidate
           /\ \A k \in Candidates : HasRow(k.clip)
<1> DEFINE D == {c \in Clips : Eligible(rows[c])}
           f == [c \in D |-> [clip |-> c, size |-> MeasuredSize(EventOf[c])]]
<1>1. IsFiniteSet(D)
  BY ClipsAssumption, FS_Subset
<1>2. \A c \in D : MeasuredSize(EventOf[c]) \in Nat
  BY EventAssumption, QuotaAssumption DEF MeasuredSize
<1>3. Candidates = {f[c] : c \in D}
  BY DEF Candidates
<1> HIDE DEF f, D
<1>4. f \in Surjection(D, Candidates)
  <2>1. f \in [D -> Candidates]
    BY <1>3 DEF f
  <2> QED
    BY <1>3, <2>1 DEF Surjection
<1>5. Cardinality(Candidates) \in Nat
  BY <1>1, <1>4, FS_Surjection, FS_CardinalityType
<1>6. \A k \in Candidates : k \in Candidate /\ HasRow(k.clip)
  <2> SUFFICES ASSUME NEW k \in Candidates
               PROVE  k \in Candidate /\ HasRow(k.clip)
    OBVIOUS
  <2>1. PICK c \in D : k = f[c]
    BY <1>3
  <2>2. f[c] = [clip |-> c, size |-> MeasuredSize(EventOf[c])]
    BY DEF f
  <2>3. c \in Clips /\ HasRow(c) /\ MeasuredSize(EventOf[c]) \in Nat
    BY <1>2 DEF D, Eligible, HasRow
  <2> HIDE DEF HasRow
  <2> QED
    BY <2>1, <2>2, <2>3 DEF Candidate
<1> QED
  BY <1>5, <1>6

\* What the first n of some candidates free.
FreedBy(s, n) == SumFunctionOnSet([i \in 1 .. Len(s) |-> s[i].size], 1 .. n)

\* takeUntilTargetIsReached stops within the list, and where it has not stopped
\* yet what it has taken is not enough.
LEMMA TakesPrefix ==
    ASSUME NEW s \in Seq(Candidate), NEW usage
    PROVE  \E n \in 0 .. Len(s) :
               /\ TakeUntilTargetIsReached(s, usage) = SubSeq(s, 1, n)
               /\ \A m \in 0 .. n - 1 : ~(usage < Target + FreedBy(s, m))
<1> DEFINE enough == {n \in 0 .. Len(s) : usage < Target + FreedBy(s, n)}
           Stops(n) == /\ n \in enough \/ (enough = {} /\ n = Len(s))
                       /\ \A m \in enough : n <= m
           stop == CHOOSE n \in 0 .. Len(s) : Stops(n)
<1>1. TakeUntilTargetIsReached(s, usage) = SubSeq(s, 1, stop)
  BY DEF TakeUntilTargetIsReached, FreedBy
<1>2. Len(s) \in Nat
  BY CandidateList
<1>3. /\ enough \in SUBSET (0 .. Len(s)) /\ enough \in SUBSET Nat
      /\ \A m \in 0 .. Len(s) : m \notin enough => ~(usage < Target + FreedBy(s, m))
  OBVIOUS
<1> HIDE DEF enough
<1>4. \E n \in 0 .. Len(s) : Stops(n)
  <2>1. CASE enough = {}
    BY <1>2, <2>1
  <2>2. CASE enough # {}
    <3>1. PICK n \in enough : \A m \in enough : n <= m
      BY <1>3, <2>2, LeastNatural
    <3> QED
      BY <1>3, <3>1
  <2> QED
    BY <2>1, <2>2
<1>5. stop \in 0 .. Len(s) /\ Stops(stop)
  <2> HIDE DEF Stops
  <2> QED
    BY <1>4
<1> HIDE DEF stop
<1>6. ASSUME NEW m \in 0 .. stop - 1 PROVE ~(usage < Target + FreedBy(s, m))
  <2>1. m \in 0 .. Len(s) /\ ~(stop <= m)
    BY <1>2, <1>5
  <2>2. m \notin enough
    BY <1>5, <2>1
  <2> QED
    BY <1>3, <2>1, <2>2
<1> QED
  BY <1>1, <1>5, <1>6

\* Steps that leave the lists alone, keep the creation times and do not take
\* a clip in hand keep the order.
LEMMA OrderKept ==
    ASSUME LogInv, SweepInv, UNCHANGED <<remaining, selected, strategy>>,
           \A c \in Clips : HasRow(c) =>
               HasRow(c)' /\ rows'[c].created = rows[c].created,
           stage' \in Purging => stage \in Purging /\ UNCHANGED <<current, copy>>,
           stage' \in Purging \cup {"purge"} => stage \in Purging \cup {"purge"}
    PROVE  SweepInv'
<1> USE DEF SweepInv
<1>1. /\ \A i \in 1 .. Len(remaining) : remaining[i].clip \in Clips
      /\ \A i \in 1 .. Len(selected) : selected[i].clip \in Clips
      /\ \A k \in ToSet(remaining) : k.clip \in Clips /\ HasRow(k.clip)
      /\ Len(remaining) \in Nat /\ Len(selected) \in Nat
  BY CandidateList
<1>2. \A i \in 1 .. Len(remaining) :
          HasRow(remaining[i].clip)' /\ rows'[remaining[i].clip].created
                                           = rows[remaining[i].clip].created
  BY <1>1
<1>3. \A i \in 1 .. Len(selected) :
          HasRow(selected[i].clip)' /\ rows'[selected[i].clip].created
                                           = rows[selected[i].clip].created
  BY <1>1
<1>4. \A k \in ToSet(remaining) : rows'[k.clip].created = rows[k.clip].created
  BY <1>1
<1>5. OldestFirst(remaining)'
  BY <1>1, <1>2 DEF OldestFirst
<1>6. QuotaPurges' => InQuotaOrder'
  BY <1>3, <1>4 DEF QuotaPurges, InQuotaOrder
<1>7. ASSUME stage' \in Purging
      PROVE  /\ copy'.created = rows'[current'].created
             /\ \A k \in ToSet(remaining) :
                   /\ k.clip # current'
                   /\ strategy' = "quota" => copy'.created <= rows'[k.clip].created
  <2>1. stage \in Purging /\ UNCHANGED <<current, copy>>
    BY <1>7
  <2>2. current \in Clips /\ HasRow(current)
    BY <2>1 DEF LogInv, HeldClip
  <2> QED
    BY <1>4, <2>1, <2>2
<1> QED
  BY <1>1, <1>2, <1>3, <1>5, <1>6, <1>7

\* An idle sweep holds nothing.
LEMMA NothingHeld ==
    ASSUME remaining' = <<>>, selected' = <<>>, stage' = "idle"
    PROVE  SweepInv'
<1>1. <<>> \in Seq(Candidate) /\ Len(<<>>) = 0
  BY EmptySeq
<1> QED
  BY <1>1 DEF SweepInv, OldestFirst, QuotaPurges, Purging

\* The query of a sweep lists candidates by age.
LEMMA SweepStartsInOrder ==
    ASSUME LogInv, SweepInv, SweepStarts
    PROVE  SweepInv'
<1> USE DEF SweepInv
<1>1. PICK s \in SetToSeqs(Candidates) : OldestFirst(s) /\ remaining' = s
  BY DEF SweepStarts
<1>2. s \in [1 .. Cardinality(Candidates) -> Candidates]
  BY DEF SetToSeqs
<1>3. s \in Seq(Candidate) /\ \A i \in 1 .. Len(s) : s[i] \in Candidates
  <2>1. s \in Seq(Candidates)
    BY <1>2, CandidatesAreFinite, SeqDef
  <2>2. Candidates \subseteq Candidate
    BY CandidatesAreFinite
  <2>3. \A i \in 1 .. Len(s) : s[i] \in Candidates
    BY <2>1, ElementOfSeq
  <2>4. s \in [1 .. Len(s) -> Candidate] /\ Len(s) \in Nat
    BY <2>1, <2>2, <2>3, LenProperties
  <2> QED
    BY <2>3, <2>4, SeqDef
<1>4. UNCHANGED <<rows, selected>> /\ stage' = "strategy"
  BY DEF SweepStarts, storeVars
<1>5. OldestFirst(remaining)'
  BY <1>1, <1>4 DEF OldestFirst
<1>6. \A i \in 1 .. Len(s) : HasRow(s[i].clip)'
  BY <1>3, <1>4, CandidatesAreFinite DEF HasRow
<1>7. \A i \in 1 .. Len(selected) : HasRow(selected[i].clip)'
  BY <1>4 DEF HasRow
<1> QED
  BY <1>1, <1>3, <1>4, <1>5, <1>6, <1>7 DEF QuotaPurges, Purging

\* The retention period picks some of the candidates, the quota the first
\* ones: whoever is not selected before is no older.
LEMMA SelectionInOrder ==
    ASSUME LogInv, SweepInv, ApplyStrategy
    PROVE  SweepInv'
<1> USE DEF SweepInv
<1>1. /\ UNCHANGED <<rows, remaining, strategy>> /\ stage' = "purge"
      /\ selected' = Selection
  BY DEF ApplyStrategy, storeVars
<1>2. /\ Len(remaining) \in Nat
      /\ \A i \in 1 .. Len(remaining) : remaining[i] \in Candidate
      /\ ToSet(remaining) = {remaining[i] : i \in 1 .. Len(remaining)}
  BY CandidateList
<1>3. CASE strategy = "lgpd"
  <2>1. PICK I : selected' = Kept(remaining, I)
    BY <1>1, <1>3 DEF Selection, SelectLgpd
  <2>2. selected' \in Seq(Candidate) /\ PickedFrom(selected', remaining, I, Len(remaining))
    BY <2>1, KeptIsSubsequence
  <2>3. \A i \in 1 .. Len(selected') : \E m \in 1 .. Len(remaining) :
            selected'[i] = remaining[m]
    BY <2>2 DEF PickedFrom
  <2>4. \A i \in 1 .. Len(selected') : HasRow(selected[i].clip)'
    BY <1>1, <2>3 DEF HasRow
  <2> QED
    BY <1>1, <1>3, <2>2, <2>4 DEF OldestFirst, QuotaPurges, Purging, HasRow
<1>4. CASE strategy # "lgpd"
  <2>1. \E n \in 0 .. Len(remaining) : selected' = SubSeq(remaining, 1, n)
    <3>1. selected' = SelectQuota
      BY <1>1, <1>4 DEF Selection
    <3>2. CASE ContextUsage < Trigger
      <4>1. selected' = <<>> /\ SubSeq(remaining, 1, 0) = <<>>
        BY <3>1, <3>2, SubSeqEmpty DEF SelectQuota
      <4> QED
        BY <1>2, <4>1
    <3>3. CASE ~(ContextUsage < Trigger)
      <4>1. selected' = TakeUntilTargetIsReached(remaining, ContextUsage)
        BY <3>1, <3>3 DEF SelectQuota, EligibleOldestFirst
      <4> QED
        BY <4>1, TakesPrefix
    <3> QED
      BY <3>2, <3>3
  <2>2. PICK n \in 0 .. Len(remaining) : selected' = SubSeq(remaining, 1, n)
    BY <2>1
  <2>3. /\ selected' \in Seq(Candidate) /\ Len(selected') = n
        /\ \A i \in 1 .. n : selected'[i] = remaining[i]
    BY <2>2, CandidatePrefix
  <2>4. n \in Nat /\ \A i \in 1 .. n : i \in 1 .. Len(remaining)
    BY <1>2
  <2>5. \A i \in 1 .. Len(selected') : HasRow(selected[i].clip)'
    BY <1>1, <2>3, <2>4 DEF HasRow
  <2>6. ASSUME NEW i \in 1 .. n, NEW k \in ToSet(remaining)
        PROVE  \/ \E j \in 1 .. i - 1 : remaining[j].clip = k.clip
               \/ rows[remaining[i].clip].created <= rows[k.clip].created
    <3>1. PICK m \in 1 .. Len(remaining) : k = remaining[m]
      BY <1>2
    <3>2. CASE m < i
      BY <2>4, <3>1, <3>2
    <3>3. CASE m = i
      <4>1. rows[k.clip] \in Row /\ k = remaining[i]
        BY <1>2, <3>1, <3>3 DEF LogInv, StoreType, HasRow, Candidate
      <4>2. rows[k.clip].created \in Nat
        BY <4>1 DEF Row
      <4> QED
        BY <4>1, <4>2
    <3>4. CASE i < m
      BY <2>4, <3>1, <3>4 DEF OldestFirst
    <3> QED
      BY <2>4, <3>2, <3>3, <3>4
  <2>7. InQuotaOrder'
    <3>1. ASSUME NEW i \in 1 .. Len(selected'), NEW k \in ToSet(remaining')
          PROVE  \/ \E j \in 1 .. i - 1 : selected'[j].clip = k.clip
                 \/ rows'[selected'[i].clip].created <= rows'[k.clip].created
      <4>1. \A j \in 1 .. i - 1 : j \in 1 .. n
        BY <2>3, <2>4
      <4> QED
        BY <1>1, <2>3, <2>6, <4>1
    <3> QED
      BY <3>1 DEF InQuotaOrder
  <2> QED
    BY <1>1, <2>3, <2>5, <2>7 DEF OldestFirst, QuotaPurges, Purging, HasRow
<1> QED
  BY <1>3, <1>4

\* remove_candidate keeps the order and leaves no other entry of the clip.
LEMMA WithoutClipInOrder ==
    ASSUME NEW s \in Seq(Candidate), NEW c, OldestFirst(s)
    PROVE  /\ WithoutClip(s, c) \in Seq(Candidate)
           /\ OldestFirst(WithoutClip(s, c))
           /\ \A i \in 1 .. Len(WithoutClip(s, c)) :
                  /\ WithoutClip(s, c)[i].clip # c
                  /\ \E m \in 1 .. Len(s) : WithoutClip(s, c)[i] = s[m]
<1> DEFINE t == WithoutClip(s, c)
           I == {i \in 1 .. Len(s) : s[i].clip # c}
<1>1. t \in Seq(Candidate) /\ PickedFrom(t, s, I, Len(s))
  BY KeptIsSubsequence DEF WithoutClip
<1> HIDE DEF t
<1>2. PICK h \in [1 .. Len(t) -> (1 .. Len(s)) \cap I] :
        /\ \A i \in 1 .. Len(t) : t[i] = s[h[i]]
        /\ \A i, j \in 1 .. Len(t) : i < j => h[i] < h[j]
  BY <1>1 DEF PickedFrom
<1>3. \A i \in 1 .. Len(t) : h[i] \in 1 .. Len(s) /\ s[h[i]].clip # c
  BY <1>2
<1>4. OldestFirst(t)
  BY <1>2, <1>3 DEF OldestFirst
<1> QED
  BY <1>1, <1>2, <1>3, <1>4 DEF t

\* purge takes the first selected clip in hand: whatever is left is no older.
LEMMA RereadInOrder ==
    ASSUME LogInv, SweepInv, Reread
    PROVE  SweepInv'
<1> USE DEF SweepInv
<1> DEFINE c == Head(selected).clip
<1>1. /\ selected # <<>> /\ stage = "purge"
      /\ UNCHANGED <<rows, strategy>>
      /\ remaining' = WithoutClip(remaining, c)
      /\ selected' = Tail(selected)
  BY DEF Reread, storeVars
<1>2. /\ Len(selected) \in Nat \ {0}
      /\ \A i \in 1 .. Len(selected) : selected[i].clip \in Clips
      /\ Head(selected) = selected[1] /\ c = selected[1].clip
  BY <1>1, CandidateList, EmptySeq
<1>3. /\ selected' \in Seq(Candidate) /\ Len(selected') = Len(selected) - 1
      /\ \A i \in 1 .. Len(selected') : selected'[i] = selected[i + 1]
  BY <1>1, HeadTailProperties
<1>4. /\ remaining' \in Seq(Candidate) /\ OldestFirst(remaining')
      /\ \A i \in 1 .. Len(remaining') :
            /\ remaining'[i].clip # c
            /\ \E m \in 1 .. Len(remaining) : remaining'[i] = remaining[m]
  BY <1>1, WithoutClipInOrder
<1> HIDE DEF c
<1>5. \A k \in ToSet(remaining') : k.clip # c /\ k \in ToSet(remaining)
  <2>1. /\ ToSet(remaining') = {remaining'[i] : i \in 1 .. Len(remaining')}
        /\ ToSet(remaining) = {remaining[i] : i \in 1 .. Len(remaining)}
    BY <1>4, CandidateList
  <2> QED
    BY <1>4, <2>1
<1>6. /\ OldestFirst(remaining)'
      /\ \A i \in 1 .. Len(remaining') : HasRow(remaining[i].clip)'
      /\ \A i \in 1 .. Len(selected') : HasRow(selected[i].clip)'
  <2>1. \A i \in 1 .. Len(selected') : i + 1 \in 1 .. Len(selected)
    BY <1>2, <1>3
  <2> QED
    BY <1>1, <1>3, <1>4, <2>1 DEF OldestFirst, HasRow
<1>7. QuotaPurges' => InQuotaOrder'
  <2> SUFFICES ASSUME QuotaPurges', NEW i \in 1 .. Len(selected'), NEW k \in ToSet(remaining')
               PROVE  \/ \E j \in 1 .. i - 1 : selected'[j].clip = k.clip
                      \/ rows'[selected'[i].clip].created <= rows'[k.clip].created
    BY DEF InQuotaOrder
  <2>1. InQuotaOrder /\ i + 1 \in 1 .. Len(selected) /\ selected'[i] = selected[i + 1]
    BY <1>1, <1>2, <1>3 DEF QuotaPurges
  <2>2. k \in ToSet(remaining) /\ k.clip # c
    BY <1>5
  <2>3. \/ \E j \in 1 .. (i + 1) - 1 : selected[j].clip = k.clip
        \/ rows[selected[i + 1].clip].created <= rows[k.clip].created
    BY <2>1, <2>2 DEF InQuotaOrder
  <2>4. ASSUME NEW j \in 1 .. (i + 1) - 1, selected[j].clip = k.clip
        PROVE  \E m \in 1 .. i - 1 : selected'[m].clip = k.clip
    <3>1. j # 1
      BY <1>2, <2>2, <2>4
    <3>2. j - 1 \in 1 .. i - 1 /\ j - 1 \in 1 .. Len(selected') /\ (j - 1) + 1 = j
      BY <1>2, <1>3, <2>1, <2>4, <3>1
    <3>3. selected'[j - 1] = selected[j]
      BY <1>3, <3>2
    <3> QED
      BY <2>4, <3>2, <3>3
  <2> QED
    BY <1>1, <2>1, <2>3, <2>4
<1>8. ASSUME stage' \in Purging
      PROVE  /\ copy'.created = rows'[current'].created
             /\ \A k \in ToSet(remaining') :
                   /\ k.clip # current'
                   /\ strategy' = "quota" => copy'.created <= rows'[k.clip].created
  <2>1. current' = c /\ copy' = rows[c]
    <3>1. c \in Clips
      BY <1>2
    <3>2. stage' # stage
      BY <1>1, <1>8 DEF Purging
    <3> QED
      BY <3>1, <3>2 DEF Reread, FindById, c
  <2>2. ASSUME NEW k \in ToSet(remaining'), strategy = "quota"
        PROVE  rows[c].created <= rows[k.clip].created
    <3>1. 1 \in 1 .. Len(selected) /\ ~ \E j \in 1 .. 1 - 1 : selected[j].clip = k.clip
      BY <1>2
    <3> QED
      BY <1>1, <1>2, <1>5, <2>2, <3>1 DEF QuotaPurges, InQuotaOrder
  <2> QED
    BY <1>1, <1>5, <2>1, <2>2
<1> QED
  BY <1>3, <1>4, <1>6, <1>7, <1>8

\* The other steps leave the lists and the creation times alone.
LEMMA OtherStepsKeepOrder ==
    ASSUME LogInv, SweepInv,
           \/ \E c \in Clips : Extraction(c) \/ LockForAudit(c)
           \/ StrategyEnds \/ PurgeClip \/ Tick \/ UNCHANGED vars
    PROVE  SweepInv'
<1> USE DEF LogInv
<1>1. ASSUME NEW c \in Clips, Extraction(c) \/ LockForAudit(c)
      PROVE  SweepInv'
  <2>1. UNCHANGED sweepVars
    BY <1>1 DEF Extraction, WriteContainer, WriteFails, SaveClip, SaveFails, Extracts, LockForAudit
  <2>2. \A d \in Clips : HasRow(d) => HasRow(d)' /\ rows'[d].created = rows[d].created
    <3>1. CASE SaveClip(c)
      <4>1. rows[c] = NoRow /\ \A d \in Clips : d # c => rows'[d] = rows[d]
        BY <3>1 DEF SaveClip, Extracts, StoreType, RowsAreSaved, HasRow
      <4> QED
        BY <4>1 DEF HasRow
    <3>2. CASE LockForAudit(c)
      <4>1. /\ rows[c] \in Row
            /\ rows'[c] = [rows[c] EXCEPT !.locked = TRUE]
            /\ \A d \in Clips : d # c => rows'[d] = rows[d]
        BY <3>2 DEF LockForAudit, StoreType, HasRow
      <4>2. rows'[c] \in Row /\ rows'[c].created = rows[c].created
        BY <4>1 DEF Row
      <4> QED
        BY <4>1, <4>2, NullAssumption DEF HasRow, Row
    <3>3. CASE UNCHANGED rows
      BY <3>3 DEF HasRow
    <3> QED
      BY <1>1, <3>1, <3>2, <3>3 DEF Extraction, WriteContainer, WriteFails, SaveFails
  <2> QED
    BY <2>1, <2>2, OrderKept DEF sweepVars, planVars, clipVars
<1>2. CASE UpdateRow
  <2>1. /\ current \in Clips /\ copy \in Row /\ HasRow(current)
        /\ copy.created = rows[current].created /\ stage = "update"
    BY <1>2 DEF UpdateRow, HeldClip, Purging, SweepInv
  <2>2. /\ rows'[current] = [copy EXCEPT !.retained = FALSE]
        /\ \A d \in Clips : d # current => rows'[d] = rows[d]
    BY <1>2, <2>1 DEF UpdateRow, StoreType
  <2>3. rows'[current] \in Row /\ rows'[current].created = copy.created
    BY <2>1, <2>2 DEF Row
  <2>4. \A d \in Clips : HasRow(d) => HasRow(d)' /\ rows'[d].created = rows[d].created
    BY <2>1, <2>2, <2>3, NullAssumption DEF HasRow, Row
  <2>5. /\ UNCHANGED <<remaining, selected, strategy, current, copy>>
        /\ stage' = "log"
    BY <1>2, <2>1 DEF UpdateRow, StepDone, StepsAfterRelease, PurgeFrame, planVars, clipVars
  <2> QED
    BY <2>1, <2>4, <2>5, OrderKept DEF Purging
<1>3. CASE \/ StrategyEnds \/ Tick \/ UNCHANGED vars
  <2>1. \A d \in Clips : HasRow(d) => HasRow(d)' /\ rows'[d].created = rows[d].created
    BY <1>3 DEF StrategyEnds, Tick, vars, storeVars, HasRow
  <2>2. CASE Tick \/ UNCHANGED vars
    BY <2>1, <2>2, OrderKept DEF Tick, vars, sweepVars, planVars, clipVars
  <2>3. CASE StrategyEnds
    <3>1. stage' \notin Purging \cup {"purge"} /\ UNCHANGED <<rows, remaining, selected>>
      BY <2>3 DEF StrategyEnds, Purging, planVars, storeVars
    <3> QED
      BY <3>1 DEF SweepInv, OldestFirst, QuotaPurges, HasRow
  <2> QED
    BY <1>3, <2>2, <2>3
<1>4. CASE \/ FileMissing \/ FileExists \/ FileShared \/ FileNotShared \/ QueryFails
           \/ RemoveFile \/ RemoveFails \/ UpdateFails \/ RecordLog \/ RecordFails
  <2>1. UNCHANGED <<rows, remaining, selected, strategy>> /\ stage \in Purging
    BY <1>4 DEF FileMissing, FileExists, FileShared, FileNotShared, QueryFails, RemoveFile,
                RemoveFails, UpdateFails, RecordLog, RecordFails, Released, ClipFails,
                PurgeFrame, planVars, storeVars, Purging
  <2>2. stage' \in Purging => UNCHANGED <<current, copy>>
    BY <1>4 DEF FileMissing, FileExists, FileShared, FileNotShared, QueryFails, RemoveFile,
                RemoveFails, UpdateFails, RecordLog, RecordFails, Released, ClipFails,
                AfterFailure, StepDone, StepsAfterRelease, clipVars, Purging
  <2>3. \A d \in Clips : HasRow(d) => HasRow(d)' /\ rows'[d].created = rows[d].created
    BY <2>1 DEF HasRow
  <2> QED
    BY <2>1, <2>2, <2>3, OrderKept
<1> QED
  BY <1>1, <1>2, <1>3, <1>4 DEF PurgeClip

\* The sweep keeps its candidates in order (PurgeMediaUseCase::execute).
LEMMA SweepInvAlways == Spec => []SweepInv
<1>1. Init => SweepInv
  <2> SUFFICES ASSUME Init PROVE SweepInv
    OBVIOUS
  <2>1. remaining = <<>> /\ selected = <<>> /\ stage = "idle"
    BY DEF Init
  <2>2. <<>> \in Seq(Candidate) /\ Len(<<>>) = 0
    BY EmptySeq
  <2> QED
    BY <2>1, <2>2 DEF SweepInv, OldestFirst, QuotaPurges, Purging
<1>2. LogInv /\ SweepInv /\ [Next]_vars => SweepInv'
  <2>1. ASSUME LogInv, SweepInv,
               QuotaThrows \/ UsageThrows \/ RereadThrows \/ SweepEnds \/ Crash
        PROVE  SweepInv'
    BY <2>1, NothingHeld
       DEF QuotaThrows, UsageThrows, RereadThrows, SweepEnds, Crash, SweepThrows, ExecuteEnds
  <2> QED
    BY <2>1, SweepStartsInOrder, SelectionInOrder, RereadInOrder, OtherStepsKeepOrder
       DEF Next, SweepStep
<1> QED
  BY <1>1, <1>2, LogInvAlways, PTL DEF Spec

\* The quota is first in, first out (DiskQuotaFifoStrategy): no file goes by
\* the quota while an older candidate of the sweep is still to be tried, for
\* any clips, ties, policy, faults and crashes.
THEOREM QuotaTakesOldestAlways == Spec => QuotaTakesOldest
<1> DEFINE Oldest == RemoveFile /\ strategy = "quota" =>
               \A k \in ToSet(remaining) : copy.created <= rows[k.clip].created
<1>1. SweepInv => Oldest
  BY DEF SweepInv, RemoveFile, Purging
<1> QED
  BY <1>1, SweepInvAlways, PTL DEF Spec, QuotaTakesOldest

-----------------------------------------------------------------------------
(***************************************************************************)
(* The target of the quota, while no two clips share a file.               *)
(***************************************************************************)
NoneShared == \A c, d \in Clips : EventOf[c] = EventOf[d] => c = d

\* A file was written for some clip.
FilesAreOfClips == \A e \in Events : files[e] # NoFile => \E c \in Clips : EventOf[c] = e

\* A file weighs no more than its candidate was measured to.
MeasuredBefore ==
    /\ \A i \in 1 .. Len(remaining) : MeasuredSize(EventOf[remaining[i].clip]) <= remaining[i].size
    /\ \A i \in 1 .. Len(selected) : MeasuredSize(EventOf[selected[i].clip]) <= selected[i].size

\* Where the file of the clip in hand may still be there.
MayHaveFile == {"exists", "shared", "remove"}
Held == IF stage \in MayHaveFile THEN MeasuredSize(EventOf[current]) ELSE 0

\* Before each clip the quota selected, the volume is at the target or above,
\* and will be so whatever is freed by those that come first.
BeyondTarget ==
    QuotaPurges =>
        /\ stage \in MayHaveFile => Target <= Usage
        /\ \A m \in 0 .. Len(selected) - 1 : Target + Held + FreedBy(selected, m) <= Usage

QuotaInv == FilesAreOfClips /\ MeasuredBefore /\ BeyondTarget

\* What is freed, candidate by candidate.
LEMMA FreedFacts ==
    ASSUME NEW s \in Seq(Candidate)
    PROVE  /\ FreedBy(s, 0) = 0
           /\ \A n \in 0 .. Len(s) : FreedBy(s, n) \in Nat
           /\ \A n \in 1 .. Len(s) : FreedBy(s, n) = FreedBy(s, n - 1) + s[n].size
<1> DEFINE f == [i \in 1 .. Len(s) |-> s[i].size]
<1>1. Len(s) \in Nat /\ \A i \in 1 .. Len(s) : f[i] \in Nat /\ f[i] = s[i].size
  BY CandidateList DEF Candidate
<1> HIDE DEF f
<1>2. FreedBy(s, 0) = 0
  <2>1. 1 .. 0 = {}
    OBVIOUS
  <2> QED
    BY <2>1, SumOfNone DEF FreedBy
<1>3. ASSUME NEW n \in 1 .. Len(s)
      PROVE  /\ FreedBy(s, n - 1) \in Nat
             /\ FreedBy(s, n) = FreedBy(s, n - 1) + s[n].size
             /\ FreedBy(s, n) \in Nat
  <2> DEFINE S == 1 .. n - 1
  <2>1. /\ IsFiniteSet(S) /\ n \notin S /\ S \cup {n} = 1 .. n
        /\ f[n] \in Nat /\ \A i \in S : f[i] \in Nat
    <3>1. n \in Nat /\ n - 1 \in Int /\ \A i \in S : i \in 1 .. Len(s)
      BY <1>1
    <3>2. IsFiniteSet(S)
      BY <3>1, FS_Interval
    <3>3. n \notin S /\ S \cup {n} = 1 .. n
      BY <3>1
    <3> QED
      BY <1>1, <3>1, <3>2, <3>3
  <2> HIDE DEF S
  <2>2. SumFunctionOnSet(f, S) \in Nat
        /\ SumFunctionOnSet(f, S \cup {n}) = f[n] + SumFunctionOnSet(f, S)
    BY <2>1, SumOfMore
  <2>3. FreedBy(s, n - 1) = SumFunctionOnSet(f, S) /\ FreedBy(s, n) = SumFunctionOnSet(f, S \cup {n})
    BY <2>1 DEF FreedBy, f, S
  <2>4. f[n] = s[n].size /\ f[n] \in Nat
    BY <1>1
  <2> QED
    BY <2>2, <2>3, <2>4
<1>4. \A n \in 0 .. Len(s) : n = 0 \/ n \in 1 .. Len(s)
  BY <1>1
<1> QED
  BY <1>2, <1>3, <1>4

\* Two lists that hold the same from some place on free the same from there.
LEMMA SameFreed ==
    ASSUME NEW s \in Seq(Candidate), NEW t \in Seq(Candidate), NEW k \in 0 .. Len(s),
           NEW n \in 0 .. Len(t), k + n <= Len(s),
           \A i \in 1 .. n : t[i] = s[k + i]
    PROVE  \A m \in 0 .. n : FreedBy(s, k + m) = FreedBy(s, k) + FreedBy(t, m)
<1> DEFINE bad == {m \in 0 .. n : FreedBy(s, k + m) # FreedBy(s, k) + FreedBy(t, m)}
<1>1. Len(s) \in Nat /\ Len(t) \in Nat /\ k \in Nat /\ n \in Nat
  BY CandidateList
<1>2. ASSUME bad # {} PROVE FALSE
  <2>1. PICK m \in bad : \A i \in bad : m <= i
    <3>1. bad \in SUBSET Nat
      BY <1>1
    <3> HIDE DEF bad
    <3> QED
      BY <1>2, <3>1, LeastNatural
  <2>2. m \in 0 .. n /\ FreedBy(s, k + m) # FreedBy(s, k) + FreedBy(t, m)
    OBVIOUS
  <2>3. CASE m = 0
    <3>1. k + 0 = k /\ FreedBy(s, k) \in Nat /\ FreedBy(t, 0) = 0
      BY <1>1, FreedFacts
    <3> QED
      BY <2>2, <2>3, <3>1
  <2>4. CASE m # 0
    <3>1. m - 1 \in 0 .. n /\ m - 1 < m /\ m \in 1 .. n
      BY <1>1, <2>2, <2>4
    <3>2. FreedBy(s, k + (m - 1)) = FreedBy(s, k) + FreedBy(t, m - 1)
      <4>1. m - 1 \notin bad
        <5> HIDE DEF bad
        <5> QED
          BY <1>1, <2>1, <2>2, <3>1
      <4> QED
        BY <3>1, <4>1
    <3>3. k + m \in 1 .. Len(s) /\ m \in 1 .. Len(t) /\ (k + m) - 1 = k + (m - 1)
          /\ m - 1 \in 0 .. Len(t)
      BY <1>1, <3>1
    <3>4. FreedBy(s, k + m) = FreedBy(s, k + (m - 1)) + s[k + m].size
      BY <3>3, FreedFacts
    <3>5. FreedBy(t, m) = FreedBy(t, m - 1) + t[m].size
      BY <3>3, FreedFacts
    <3>6. t[m] = s[k + m] /\ t[m].size \in Nat
      BY <3>1, <3>3, CandidateList DEF Candidate
    <3>7. FreedBy(s, k) \in Nat /\ FreedBy(t, m - 1) \in Nat
      BY <3>3, FreedFacts
    <3> HIDE DEF bad
    <3> QED
      BY <2>2, <3>2, <3>4, <3>5, <3>6, <3>7
  <2> QED
    BY <2>3, <2>4
<1> QED
  BY <1>2

\* The events whose file is there are finitely many, so that the usage is a sum.
Present == {e \in Events : files[e] # NoFile}

LEMMA PresentIsFinite ==
    ASSUME FilesAreOfClips
    PROVE  IsFiniteSet(Present)
<1> DEFINE D == {EventOf[c] : c \in Clips}
           f == [c \in Clips |-> EventOf[c]]
<1>1. f \in Surjection(Clips, D)
  BY DEF Surjection
<1>2. IsFiniteSet(D)
  <2> HIDE DEF f, D
  <2> QED
    BY <1>1, ClipsAssumption, FS_Surjection
<1>3. Present \subseteq D
  BY DEF Present, FilesAreOfClips
<1> QED
  BY <1>2, <1>3, FS_Subset

LEMMA UsageWith ==
    ASSUME NEW S \in SUBSET Events, IsFiniteSet(S), NEW e \in Events, e \notin S
    PROVE  /\ SumFunctionOnSet(SizeOf, S) \in Nat
           /\ SumFunctionOnSet(SizeOf, S \cup {e}) = SizeOf[e] + SumFunctionOnSet(SizeOf, S)
<1>1. SizeOf[e] \in Nat /\ \A x \in S : SizeOf[x] \in Nat
  BY QuotaAssumption
<1> QED
  BY <1>1, SumOfMore

LEMMA UsageIsNatural ==
    ASSUME FilesAreOfClips
    PROVE  Usage \in Nat
<1>1. SumFunctionOnSet(SizeOf, Present) \in Nat
  <2>1. CASE Present = {}
    BY <2>1, SumOfNone
  <2>2. CASE Present # {}
    <3>1. PICK e \in Present : TRUE
      BY <2>2
    <3> DEFINE S == Present \ {e}
    <3>2. /\ S \in SUBSET Events /\ IsFiniteSet(S) /\ e \in Events /\ e \notin S
          /\ S \cup {e} = Present
      BY <3>1, PresentIsFinite, FS_Subset DEF Present
    <3> HIDE DEF S
    <3>3. /\ SumFunctionOnSet(SizeOf, S) \in Nat
          /\ SumFunctionOnSet(SizeOf, S \cup {e}) = SizeOf[e] + SumFunctionOnSet(SizeOf, S)
      BY <3>2, UsageWith
    <3>4. SizeOf[e] \in Nat
      BY <3>2, QuotaAssumption
    <3>5. SumFunctionOnSet(SizeOf, Present) = SizeOf[e] + SumFunctionOnSet(SizeOf, S)
      BY <3>2, <3>3, Zenon
    <3> QED
      BY <3>3, <3>4, <3>5
  <2> QED
    BY <2>1, <2>2
<1> QED
  BY <1>1, QuotaAssumption DEF Usage, Present

\* A file written does not make the volume emptier.
LEMMA UsageGrows ==
    ASSUME StoreType, FilesAreOfClips, NEW e \in Events, NEW v, v # NoFile,
           files' = [files EXCEPT ![e] = v]
    PROVE  Usage <= Usage' /\ Usage' \in Nat
<1>1. Present' = Present \cup {e}
  BY DEF Present, StoreType
<1>2. Usage = OtherBytes + SumFunctionOnSet(SizeOf, Present)
      /\ Usage' = OtherBytes + SumFunctionOnSet(SizeOf, Present')
  BY DEF Usage, Present
<1>3. CASE e \in Present
  <2>1. Present' = Present
    BY <1>1, <1>3
  <2> QED
    BY <1>2, <2>1, UsageIsNatural
<1>4. CASE e \notin Present
  <2>1. Present \in SUBSET Events /\ IsFiniteSet(Present)
    BY PresentIsFinite DEF Present
  <2>2. /\ SumFunctionOnSet(SizeOf, Present) \in Nat
        /\ SumFunctionOnSet(SizeOf, Present \cup {e}) = SizeOf[e] + SumFunctionOnSet(SizeOf, Present)
    BY <1>4, <2>1, UsageWith
  <2>3. SizeOf[e] \in Nat /\ OtherBytes \in Nat
    BY QuotaAssumption
  <2> QED
    BY <1>1, <1>2, <2>2, <2>3
<1> QED
  BY <1>3, <1>4

\* A file removed frees what it was measured to.
LEMMA UsageFalls ==
    ASSUME StoreType, FilesAreOfClips, NEW e \in Events \ Stuck,
           files' = [files EXCEPT ![e] = NoFile]
    PROVE  /\ Usage \in Nat /\ Usage' \in Nat /\ MeasuredSize(e) \in Nat
           /\ Usage' = Usage - MeasuredSize(e)
<1>1. Present' = Present \ {e}
  BY DEF Present, StoreType
<1>2. Usage = OtherBytes + SumFunctionOnSet(SizeOf, Present)
      /\ Usage' = OtherBytes + SumFunctionOnSet(SizeOf, Present')
  BY DEF Usage, Present
<1>3. Usage \in Nat
  BY UsageIsNatural
<1>4. CASE e \in Present
  <2> DEFINE S == Present \ {e}
  <2>1. /\ S \in SUBSET Events /\ IsFiniteSet(S) /\ e \notin S /\ S \cup {e} = Present
    BY <1>4, PresentIsFinite, FS_Subset DEF Present
  <2>2. Present' = S
    BY <1>1
  <2> HIDE DEF S
  <2>3. /\ SumFunctionOnSet(SizeOf, S) \in Nat
        /\ SumFunctionOnSet(SizeOf, S \cup {e}) = SizeOf[e] + SumFunctionOnSet(SizeOf, S)
    BY <2>1, UsageWith
  <2>4. MeasuredSize(e) = SizeOf[e] /\ SizeOf[e] \in Nat /\ OtherBytes \in Nat
    BY <1>4, QuotaAssumption DEF MeasuredSize, Present
  <2>5. SumFunctionOnSet(SizeOf, Present) = SizeOf[e] + SumFunctionOnSet(SizeOf, S)
    BY <2>1, <2>3, Zenon
  <2>6. SumFunctionOnSet(SizeOf, Present') = SumFunctionOnSet(SizeOf, S)
    BY <2>2
  <2> QED
    BY <1>2, <1>3, <2>3, <2>4, <2>5, <2>6
<1>5. CASE e \notin Present
  <2>1. Present' = Present /\ MeasuredSize(e) = 0
    BY <1>1, <1>5 DEF MeasuredSize, Present
  <2> QED
    BY <1>2, <1>3, <2>1
<1> QED
  BY <1>4, <1>5

\* Steps that leave the lists, the weights of their candidates' files and the
\* clip in hand alone, or let it go, and do not empty the volume.
LEMMA TargetKept ==
    ASSUME SweepInv, QuotaInv, UNCHANGED <<remaining, selected, strategy>>, FilesAreOfClips',
           \A e \in Events : MeasuredSize(e)' \in Nat /\ MeasuredSize(e) \in Nat,
           \A i \in 1 .. Len(remaining) :
               MeasuredSize(EventOf[remaining[i].clip])' <= MeasuredSize(EventOf[remaining[i].clip]),
           \A i \in 1 .. Len(selected) :
               MeasuredSize(EventOf[selected[i].clip])' <= MeasuredSize(EventOf[selected[i].clip]),
           stage' \in Purging \cup {"purge"} => stage \in Purging \cup {"purge"},
           stage' \in MayHaveFile => stage \in MayHaveFile /\ Usage <= Usage',
           Usage \in Nat, Usage' \in Nat, Held \in Nat, Held' \in Nat,
           Usage + Held' <= Usage' + Held
    PROVE  QuotaInv'
<1>1. /\ remaining \in Seq(Candidate) /\ selected \in Seq(Candidate)
      /\ Len(remaining) \in Nat /\ Len(selected) \in Nat
  BY CandidateList DEF SweepInv
<1>2. \A i \in 1 .. Len(remaining) :
          remaining[i].size \in Nat /\ remaining[i].clip \in Clips
  BY <1>1, CandidateList DEF Candidate
<1>3. \A i \in 1 .. Len(selected) :
          selected[i].size \in Nat /\ selected[i].clip \in Clips
  BY <1>1, CandidateList DEF Candidate
<1>4. ASSUME NEW i \in 1 .. Len(remaining)
      PROVE  MeasuredSize(EventOf[remaining[i].clip])' <= remaining[i].size
  <2>1. PICK e \in Events : e = EventOf[remaining[i].clip]
    BY <1>2, EventAssumption
  <2>2. /\ MeasuredSize(e)' <= MeasuredSize(e) /\ MeasuredSize(e) <= remaining[i].size
        /\ MeasuredSize(e)' \in Nat /\ MeasuredSize(e) \in Nat
    BY <2>1 DEF QuotaInv, MeasuredBefore
  <2> QED
    BY <1>2, <2>1, <2>2
<1>5. ASSUME NEW i \in 1 .. Len(selected)
      PROVE  MeasuredSize(EventOf[selected[i].clip])' <= selected[i].size
  <2>1. PICK e \in Events : e = EventOf[selected[i].clip]
    BY <1>3, EventAssumption
  <2>2. /\ MeasuredSize(e)' <= MeasuredSize(e) /\ MeasuredSize(e) <= selected[i].size
        /\ MeasuredSize(e)' \in Nat /\ MeasuredSize(e) \in Nat
    BY <2>1 DEF QuotaInv, MeasuredBefore
  <2> QED
    BY <1>3, <2>1, <2>2
<1>6. MeasuredBefore'
  BY <1>4, <1>5 DEF MeasuredBefore
<1>7. ASSUME QuotaPurges', NEW m \in 0 .. Len(selected') - 1
      PROVE  Target + Held' + FreedBy(selected', m) <= Usage'
  <2>1. QuotaPurges /\ m \in 0 .. Len(selected) - 1 /\ m \in 0 .. Len(selected)
    BY <1>1, <1>7 DEF QuotaPurges
  <2>2. PICK freed \in Nat : freed = FreedBy(selected, m)
    BY <1>1, <2>1, FreedFacts
  <2>3. Target + Held + freed <= Usage
    BY <2>1, <2>2 DEF QuotaInv, BeyondTarget
  <2>4. PICK u \in Nat, v \in Nat, h \in Nat, k \in Nat :
          u = Usage /\ v = Usage' /\ h = Held /\ k = Held'
    BY Zenon
  <2>5. Target + h + freed <= u /\ u + k <= v + h
    <3>1. Target + h + freed <= u
      BY <2>3, <2>4, Zenon
    <3>2. u + k <= v + h
      BY <2>4, Zenon
    <3> QED
      BY <3>1, <3>2
  <2>6. Target + k + freed <= v
    BY <2>2, <2>5, QuotaAssumption
  <2> QED
    BY <2>2, <2>4, <2>6, Zenon
<1>8. ASSUME QuotaPurges', stage' \in MayHaveFile
      PROVE  Target <= Usage'
  <2>1. QuotaPurges /\ Target <= Usage
    BY <1>8 DEF QuotaPurges, QuotaInv, BeyondTarget
  <2> QED
    BY <1>8, <2>1, QuotaAssumption
<1>9. BeyondTarget'
  BY <1>7, <1>8 DEF BeyondTarget
<1> QED
  BY <1>6, <1>9 DEF QuotaInv

\* What MeasuredSize says is a number of bytes.
LEMMA MeasuredIsNatural ==
    ASSUME NEW e \in Events
    PROVE  MeasuredSize(e) \in Nat /\ MeasuredSize(e)' \in Nat
  BY QuotaAssumption DEF MeasuredSize

LEMMA HeldIsNatural ==
    ASSUME LogInv, LogInv'
    PROVE  Held \in Nat /\ Held' \in Nat
<1>1. ASSUME stage \in MayHaveFile PROVE Held \in Nat
  <2>1. EventOf[current] \in Events
    BY <1>1, EventAssumption DEF LogInv, HeldClip, Purging, MayHaveFile
  <2> QED
    BY <1>1, <2>1, MeasuredIsNatural DEF Held
<1>2. ASSUME stage' \in MayHaveFile PROVE Held' \in Nat
  <2>1. PICK e \in Events : e = EventOf[current']
    BY <1>2, EventAssumption DEF LogInv, HeldClip, Purging, MayHaveFile
  <2>2. MeasuredSize(e)' \in Nat /\ Held' = MeasuredSize(e)'
    BY <1>2, <2>1, MeasuredIsNatural DEF Held, MeasuredSize
  <2> QED
    BY <2>2
<1> QED
  BY <1>1, <1>2 DEF Held

\* Steps that leave the files and the lists alone, and the clip in hand while
\* its file may still be there.
LEMMA TargetKeptWithFiles ==
    ASSUME LogInv, LogInv', SweepInv, QuotaInv,
           UNCHANGED <<files, remaining, selected, strategy>>,
           stage' \in Purging \cup {"purge"} => stage \in Purging \cup {"purge"},
           stage' \in MayHaveFile => stage \in MayHaveFile /\ UNCHANGED current
    PROVE  QuotaInv'
<1>1. FilesAreOfClips /\ Usage \in Nat
  BY UsageIsNatural DEF QuotaInv
<1>2. /\ FilesAreOfClips' /\ Usage' = Usage
      /\ \A e \in Events : MeasuredSize(e)' = MeasuredSize(e)
  BY <1>1 DEF FilesAreOfClips, Usage, MeasuredSize
<1>3. \A e \in Events : /\ MeasuredSize(e)' \in Nat /\ MeasuredSize(e) \in Nat
                        /\ MeasuredSize(e)' <= MeasuredSize(e)
  BY <1>2, MeasuredIsNatural
<1>4. Held \in Nat /\ Held' \in Nat
  BY HeldIsNatural
<1>5. Held' <= Held
  <2>1. CASE stage' \in MayHaveFile
    <3>1. Held' = Held
      BY <2>1 DEF Held, MeasuredSize
    <3> QED
      BY <1>4, <3>1
  <2>2. CASE stage' \notin MayHaveFile
    <3>1. Held' = 0
      BY <2>2 DEF Held
    <3> QED
      BY <1>4, <3>1
  <2> QED
    BY <2>1, <2>2
<1>6. \A i \in 1 .. Len(remaining) : EventOf[remaining[i].clip] \in Events
  BY CandidateList, EventAssumption DEF SweepInv
<1>7. \A i \in 1 .. Len(selected) : EventOf[selected[i].clip] \in Events
  BY CandidateList, EventAssumption DEF SweepInv
<1>8. /\ Usage' \in Nat /\ Usage + Held' <= Usage' + Held
      /\ stage' \in MayHaveFile => stage \in MayHaveFile /\ Usage <= Usage'
  <2>1. PICK u \in Nat, h \in Nat, k \in Nat :
          u = Usage /\ u = Usage' /\ h = Held /\ k = Held'
    BY <1>1, <1>2, <1>4, Zenon
  <2>2. u + k <= u + h /\ u <= u
    <3>1. k <= h
      BY <1>5, <2>1, Zenon
    <3> QED
      BY <3>1
  <2> QED
    BY <2>1, <2>2, Zenon
<1>9. \A i \in 1 .. Len(remaining) :
          MeasuredSize(EventOf[remaining[i].clip])' <= MeasuredSize(EventOf[remaining[i].clip])
  BY <1>6, <1>3, Zenon
<1>10. \A i \in 1 .. Len(selected) :
          MeasuredSize(EventOf[selected[i].clip])' <= MeasuredSize(EventOf[selected[i].clip])
  BY <1>7, <1>3, Zenon
<1> QED
  BY <1>1, <1>2, <1>3, <1>4, <1>8, <1>9, <1>10, TargetKept

\* An idle sweep promises nothing.
LEMMA NothingPromised ==
    ASSUME remaining' = <<>>, selected' = <<>>, stage' = "idle", UNCHANGED files,
           FilesAreOfClips
    PROVE  QuotaInv'
<1>1. Len(<<>>) = 0
  BY EmptySeq
<1> QED
  BY <1>1 DEF QuotaInv, FilesAreOfClips, MeasuredBefore, BeyondTarget, QuotaPurges, Purging

\* The clips of the lists are saved, so that their files are written no more.
LEMMA ExtractionKeepsTarget ==
    ASSUME NoneShared, LogInv, LogInv', SweepInv, QuotaInv, NEW c \in Clips,
           Extraction(c) \/ LockForAudit(c)
    PROVE  QuotaInv'
<1>1. UNCHANGED sweepVars
  BY DEF Extraction, WriteContainer, WriteFails, SaveClip, SaveFails, Extracts, LockForAudit
<1>2. UNCHANGED <<remaining, selected, strategy, stage, current>>
  BY <1>1 DEF sweepVars, planVars, clipVars
<1>3. CASE UNCHANGED files
  BY <1>2, <1>3, TargetKeptWithFiles
<1>4. CASE ~UNCHANGED files
  <2>1. /\ extraction[c] = "none"
        /\ \E v : v # NoFile /\ files' = [files EXCEPT ![EventOf[c]] = v]
    BY <1>4, NullAssumption
       DEF Extraction, WriteContainer, WriteFails, SaveClip, SaveFails, Extracts, LockForAudit
  <2>2. PICK v : v # NoFile /\ files' = [files EXCEPT ![EventOf[c]] = v]
    BY <2>1
  <2>3. PICK e \in Events : e = EventOf[c]
    BY EventAssumption
  <2>4. StoreType /\ FilesAreOfClips /\ files' = [files EXCEPT ![e] = v]
    BY <2>2, <2>3 DEF LogInv, QuotaInv
  <2>5. Usage \in Nat /\ Usage <= Usage' /\ Usage' \in Nat
    BY <2>2, <2>4, UsageGrows, UsageIsNatural
  <2>6. FilesAreOfClips'
    BY <2>3, <2>4 DEF FilesAreOfClips, StoreType
  <2>7. ASSUME NEW d \in Clips, HasRow(d)
        PROVE  EventOf[d] \in Events /\ MeasuredSize(EventOf[d])' = MeasuredSize(EventOf[d])
    <3>1. d # c
      BY <2>1, <2>7 DEF LogInv, RowsAreSaved
    <3>2. EventOf[d] \in Events /\ EventOf[d] # e
      BY <2>3, <3>1, EventAssumption DEF NoneShared
    <3>3. files'[EventOf[d]] = files[EventOf[d]]
      BY <2>4, <3>2 DEF StoreType
    <3> QED
      BY <3>2, <3>3 DEF MeasuredSize
  <2>8. /\ \A i \in 1 .. Len(remaining) : remaining[i].clip \in Clips /\ HasRow(remaining[i].clip)
        /\ \A i \in 1 .. Len(selected) : selected[i].clip \in Clips /\ HasRow(selected[i].clip)
    BY CandidateList DEF SweepInv
  <2>9. \A e1 \in Events : MeasuredSize(e1)' \in Nat /\ MeasuredSize(e1) \in Nat
    BY MeasuredIsNatural
  <2>10. ASSUME NEW d \in Clips, HasRow(d)
         PROVE  MeasuredSize(EventOf[d])' <= MeasuredSize(EventOf[d])
    <3>1. PICK x \in Events : x = EventOf[d]
      BY EventAssumption
    <3>2. MeasuredSize(x) \in Nat /\ MeasuredSize(x)' = MeasuredSize(x)
      BY <2>7, <2>9, <2>10, <3>1
    <3>3. MeasuredSize(x)' <= MeasuredSize(x)
      BY <3>2
    <3> QED
      BY <3>1, <3>3
  <2>11. Held \in Nat /\ Held' \in Nat /\ Held' = Held
    <3>1. CASE stage \in MayHaveFile
      <4>1. current \in Clips /\ HasRow(current)
        BY <3>1 DEF LogInv, HeldClip, Purging, MayHaveFile
      <4>2. MeasuredSize(EventOf[current])' = MeasuredSize(EventOf[current])
        <5>1. PICK d \in Clips : d = current /\ HasRow(d)
          BY <4>1
        <5>2. MeasuredSize(EventOf[d])' = MeasuredSize(EventOf[d])
          BY <2>7, <5>1
        <5> QED
          BY <1>2, <5>1, <5>2 DEF MeasuredSize
      <4> QED
        BY <1>2, <3>1, <4>2, HeldIsNatural DEF Held
    <3>2. CASE stage \notin MayHaveFile
      BY <1>2, <3>2, HeldIsNatural DEF Held
    <3> QED
      BY <3>1, <3>2
  <2>12. /\ \A i \in 1 .. Len(remaining) :
                MeasuredSize(EventOf[remaining[i].clip])' <= MeasuredSize(EventOf[remaining[i].clip])
         /\ \A i \in 1 .. Len(selected) :
                MeasuredSize(EventOf[selected[i].clip])' <= MeasuredSize(EventOf[selected[i].clip])
    <3>1. ASSUME NEW i \in 1 .. Len(remaining)
          PROVE  MeasuredSize(EventOf[remaining[i].clip])' <= MeasuredSize(EventOf[remaining[i].clip])
      <4>1. PICK d \in Clips : d = remaining[i].clip /\ HasRow(d)
        BY <2>8
      <4>2. MeasuredSize(EventOf[d])' <= MeasuredSize(EventOf[d])
        BY <2>10, <4>1
      <4> QED
        BY <1>2, <4>1, <4>2 DEF MeasuredSize
    <3>2. ASSUME NEW i \in 1 .. Len(selected)
          PROVE  MeasuredSize(EventOf[selected[i].clip])' <= MeasuredSize(EventOf[selected[i].clip])
      <4>1. PICK d \in Clips : d = selected[i].clip /\ HasRow(d)
        BY <2>8
      <4>2. MeasuredSize(EventOf[d])' <= MeasuredSize(EventOf[d])
        BY <2>10, <4>1
      <4> QED
        BY <1>2, <4>1, <4>2 DEF MeasuredSize
    <3> QED
      BY <3>1, <3>2
  <2>13. Usage + Held' <= Usage' + Held
    <3>1. PICK u \in Nat, w \in Nat, h \in Nat :
            u = Usage /\ w = Usage' /\ h = Held /\ h = Held'
      BY <2>5, <2>11, Zenon
    <3>2. u + h <= w + h
      <4>1. u <= w
        BY <2>5, <3>1, Zenon
      <4> QED
        BY <4>1
    <3> QED
      BY <3>1, <3>2, Zenon
  <2> QED
    BY <1>2, <2>5, <2>6, <2>9, <2>11, <2>12, <2>13, TargetKept
<1> QED
  BY <1>3, <1>4

\* Whatever purges of one clip leave the files alone, and the removal frees
\* what the clip in hand was held against.
LEMMA PurgeKeepsTarget ==
    ASSUME LogInv, LogInv', SweepInv, QuotaInv, PurgeClip
    PROVE  QuotaInv'
<1>1. CASE RemoveFile
  <2>1. /\ stage = "remove" /\ stage' = "update" /\ EventOf[current] \notin Stuck
        /\ files' = [files EXCEPT ![EventOf[current]] = NoFile]
        /\ UNCHANGED <<remaining, selected, strategy, current>>
    BY <1>1 DEF RemoveFile, Released, StepsAfterRelease, PurgeFrame, planVars
  <2>2. PICK e \in Events \ Stuck : e = EventOf[current]
    BY <2>1, EventAssumption DEF LogInv, HeldClip, Purging
  <2>3. StoreType /\ FilesAreOfClips /\ files' = [files EXCEPT ![e] = NoFile]
    BY <2>1, <2>2 DEF LogInv, QuotaInv
  <2>4. Usage' = Usage - MeasuredSize(e) /\ Usage \in Nat /\ MeasuredSize(e) \in Nat
    BY <2>3, UsageFalls
  <2>5. Held = MeasuredSize(e) /\ Held' = 0
    BY <2>1, <2>2 DEF Held, MayHaveFile
  <2>6. FilesAreOfClips'
    BY <2>3 DEF FilesAreOfClips, StoreType
  <2>7. \A x \in Events : MeasuredSize(x)' \in Nat /\ MeasuredSize(x) \in Nat
    BY MeasuredIsNatural
  <2>8. \A x \in Events : MeasuredSize(x)' <= MeasuredSize(x)
    <3>1. ASSUME NEW x \in Events
          PROVE  MeasuredSize(x)' = 0 \/ MeasuredSize(x)' = MeasuredSize(x)
      BY <2>3 DEF MeasuredSize, StoreType
    <3> QED
      BY <2>7, <3>1
  <2>9. Usage' \in Nat
    BY <2>3, UsageFalls
  <2>10. Usage + Held' <= Usage' + Held
    <3>1. PICK u \in Nat, h \in Nat : u = Usage /\ h = MeasuredSize(e)
      BY <2>4, Zenon
    <3>2. u + 0 <= (u - h) + h
      OBVIOUS
    <3>3. Usage' = u - h /\ Held = h /\ Held' = 0
      BY <2>4, <2>5, <3>1, Zenon
    <3> QED
      BY <3>1, <3>2, <3>3, Zenon
  <2>11. \A i \in 1 .. Len(remaining) :
           MeasuredSize(EventOf[remaining[i].clip])' <= MeasuredSize(EventOf[remaining[i].clip])
    <3>1. \A i \in 1 .. Len(remaining) : EventOf[remaining[i].clip] \in Events
      BY CandidateList, EventAssumption DEF SweepInv
    <3>2. UNCHANGED remaining
      BY <2>1
    <3> QED
      BY <2>8, <3>1, <3>2 DEF MeasuredSize
  <2>12. \A i \in 1 .. Len(selected) :
           MeasuredSize(EventOf[selected[i].clip])' <= MeasuredSize(EventOf[selected[i].clip])
    <3>1. \A i \in 1 .. Len(selected) : EventOf[selected[i].clip] \in Events
      BY CandidateList, EventAssumption DEF SweepInv
    <3>2. UNCHANGED selected
      BY <2>1
    <3> QED
      BY <2>8, <3>1, <3>2 DEF MeasuredSize
  <2>13. /\ stage \in Purging /\ stage' \notin MayHaveFile
         /\ Held \in Nat /\ Held' \in Nat
    BY <2>1, HeldIsNatural DEF Purging, MayHaveFile
  <2> QED
    BY <2>1, <2>4, <2>6, <2>7, <2>9, <2>10, <2>11, <2>12, <2>13, TargetKept
<1>2. CASE \/ FileMissing \/ FileExists \/ FileShared \/ FileNotShared \/ QueryFails
           \/ RemoveFails \/ UpdateRow \/ UpdateFails \/ RecordLog \/ RecordFails
  <2>1. UNCHANGED <<files, remaining, selected, strategy>> /\ stage \in Purging
    BY <1>2 DEF FileMissing, FileExists, FileShared, FileNotShared, QueryFails, RemoveFails,
                UpdateRow, UpdateFails, RecordLog, RecordFails, Released, ClipFails,
                PurgeFrame, planVars, storeVars, Purging
  <2>2. stage' \in MayHaveFile => stage \in MayHaveFile /\ UNCHANGED current
    BY <1>2 DEF FileMissing, FileExists, FileShared, FileNotShared, QueryFails, RemoveFails,
                UpdateRow, UpdateFails, RecordLog, RecordFails, Released, ClipFails,
                AfterFailure, StepDone, StepsAfterRelease, clipVars, MayHaveFile
  <2> QED
    BY <2>1, <2>2, TargetKeptWithFiles
<1> QED
  BY <1>1, <1>2 DEF PurgeClip

\* A step that neither plans nor ends leaves everything of the sweep alone.
LEMMA IdleStepsKeepTarget ==
    ASSUME LogInv, LogInv', SweepInv, QuotaInv, Tick \/ UNCHANGED vars
    PROVE  QuotaInv'
<1>1. UNCHANGED <<files, remaining, selected, strategy, stage, current>>
  BY DEF Tick, vars, storeVars, sweepVars, planVars, clipVars
<1> QED
  BY <1>1, TargetKeptWithFiles

\* Steps that leave the files alone and in which the quota purges nothing:
\* what the lists hold was measured.
LEMMA NothingPurged ==
    ASSUME QuotaInv, UNCHANGED files, ~QuotaPurges',
           \A i \in 1 .. Len(remaining') :
               MeasuredSize(EventOf[remaining'[i].clip]) <= remaining'[i].size,
           \A i \in 1 .. Len(selected') :
               MeasuredSize(EventOf[selected'[i].clip]) <= selected'[i].size
    PROVE  QuotaInv'
  BY DEF QuotaInv, FilesAreOfClips, MeasuredBefore, MeasuredSize, BeyondTarget

\* The sweep measures its candidates when it starts.
LEMMA SweepStartsMeasured ==
    ASSUME LogInv, SweepInv, QuotaInv, SweepStarts
    PROVE  QuotaInv'
<1>1. PICK s \in SetToSeqs(Candidates) : remaining' = s
  BY DEF SweepStarts
<1>2. s \in [1 .. Cardinality(Candidates) -> Candidates]
  BY DEF SetToSeqs
<1>3. s \in Seq(Candidates)
  BY <1>2, CandidatesAreFinite, SeqDef
<1>4. ASSUME NEW i \in 1 .. Len(s)
      PROVE  MeasuredSize(EventOf[s[i].clip]) <= s[i].size
  <2>1. s[i] \in Candidates
    BY <1>3, ElementOfSeq
  <2>2. PICK c \in Clips : s[i] = [clip |-> c, size |-> MeasuredSize(EventOf[c])]
    BY <2>1 DEF Candidates
  <2>3. s[i].clip = c /\ s[i].size = MeasuredSize(EventOf[c])
    BY <2>2
  <2>4. PICK n \in Nat : n = MeasuredSize(EventOf[c])
    BY MeasuredIsNatural, EventAssumption
  <2>5. s[i].size = n /\ MeasuredSize(EventOf[s[i].clip]) = n
    BY <2>3, <2>4, Zenon
  <2> QED
    BY <2>5
<1>5. UNCHANGED <<files, selected>> /\ stage' = "strategy"
  BY DEF SweepStarts, storeVars
<1>6. \A i \in 1 .. Len(selected') :
          MeasuredSize(EventOf[selected'[i].clip]) <= selected'[i].size
  BY <1>5 DEF QuotaInv, MeasuredBefore
<1>7. ~QuotaPurges'
  BY <1>5 DEF QuotaPurges, Purging
<1>8. \A i \in 1 .. Len(remaining') :
          MeasuredSize(EventOf[remaining'[i].clip]) <= remaining'[i].size
  BY <1>1, <1>4
<1> QED
  BY <1>5, <1>6, <1>7, <1>8, NothingPurged

\* The quota decides about the disk of now: it selects on while what it has
\* selected does not reach the target.
LEMMA SelectionBeyondTarget ==
    ASSUME LogInv, SweepInv, QuotaInv, ApplyStrategy
    PROVE  QuotaInv'
<1>1. /\ UNCHANGED <<files, remaining, strategy>> /\ stage' = "purge"
      /\ selected' = Selection /\ remaining \in Seq(Candidate)
  BY DEF ApplyStrategy, storeVars, SweepInv
<1>2. Len(remaining) \in Nat
  BY <1>1, CandidateList
<1>3. \A i \in 1 .. Len(remaining) :
          MeasuredSize(EventOf[remaining[i].clip]) <= remaining[i].size
  BY DEF QuotaInv, MeasuredBefore
<1>4. \A i \in 1 .. Len(remaining') :
          MeasuredSize(EventOf[remaining'[i].clip]) <= remaining'[i].size
  BY <1>1, <1>3
<1>5. CASE strategy = "lgpd"
  <2>1. PICK I : selected' = Kept(remaining, I)
    BY <1>1, <1>5 DEF Selection, SelectLgpd
  <2>2. PickedFrom(selected', remaining, I, Len(remaining))
    BY <1>1, <2>1, KeptIsSubsequence
  <2>3. \A i \in 1 .. Len(selected') : \E m \in 1 .. Len(remaining) :
            selected'[i] = remaining[m]
    BY <2>2 DEF PickedFrom
  <2>4. \A i \in 1 .. Len(selected') :
            MeasuredSize(EventOf[selected'[i].clip]) <= selected'[i].size
    BY <1>3, <2>3
  <2>5. ~QuotaPurges'
    BY <1>1, <1>5 DEF QuotaPurges
  <2> QED
    BY <1>1, <1>4, <2>4, <2>5, NothingPurged
<1>6. CASE strategy # "lgpd"
  <2>1. PICK n \in 0 .. Len(remaining) :
          /\ selected' = SubSeq(remaining, 1, n)
          /\ \A m \in 0 .. n - 1 : ~(Usage < Target + FreedBy(remaining, m))
    <3>1. selected' = SelectQuota
      BY <1>1, <1>6 DEF Selection
    <3>2. CASE ContextUsage < Trigger
      <4>1. selected' = <<>> /\ SubSeq(remaining, 1, 0) = <<>>
        BY <1>1, <3>1, <3>2, SubSeqEmpty DEF SelectQuota
      <4> QED
        BY <1>2, <4>1
    <3>3. CASE ~(ContextUsage < Trigger)
      <4>1. selected' = TakeUntilTargetIsReached(remaining, Usage)
        BY <3>1, <3>3 DEF SelectQuota, EligibleOldestFirst, ContextUsage
      <4> QED
        BY <1>1, <4>1, TakesPrefix
    <3> QED
      BY <3>2, <3>3
  <2>2. PICK t \in Seq(Candidate) : t = selected'
    BY <1>1, <2>1, CandidatePrefix
  <2>3. Len(t) = n /\ n \in Nat /\ n <= Len(remaining) /\ \A i \in 1 .. n : t[i] = remaining[i]
    BY <1>1, <1>2, <2>1, <2>2, CandidatePrefix
  <2>4. MeasuredBefore'
    <3>1. ASSUME NEW i \in 1 .. Len(t)
          PROVE  MeasuredSize(EventOf[t[i].clip]) <= t[i].size
      <4>1. i \in 1 .. Len(remaining) /\ t[i] = remaining[i]
        BY <1>2, <2>3
      <4> QED
        BY <1>3, <4>1
    <3> QED
      BY <1>1, <1>4, <2>2, <3>1 DEF MeasuredBefore, MeasuredSize
  <2>5. ASSUME NEW m \in 0 .. n - 1
        PROVE  Target + 0 + FreedBy(t, m) <= Usage
    <3>1. m \in 0 .. n /\ m \in 0 .. Len(t) /\ m \in 0 .. Len(remaining)
      BY <2>3
    <3>2. FreedBy(remaining, 0 + m) = FreedBy(remaining, 0) + FreedBy(t, m)
      <4>1. 0 \in 0 .. Len(remaining) /\ n \in 0 .. Len(t) /\ 0 + n <= Len(remaining)
            /\ \A i \in 1 .. n : t[i] = remaining[0 + i]
        BY <1>2, <2>3
      <4> QED
        BY <1>1, <3>1, <4>1, SameFreed
    <3>3. FreedBy(remaining, 0) = 0 /\ FreedBy(t, m) \in Nat /\ 0 + m = m
      BY <1>1, <3>1, FreedFacts
    <3>4. PICK f \in Nat : f = FreedBy(t, m)
      BY <3>3
    <3>5. f = FreedBy(remaining, m)
      <4>1. FreedBy(remaining, m) = 0 + f
        BY <3>2, <3>3, <3>4, Zenon
      <4> QED
        BY <4>1
    <3>6. PICK u \in Nat : u = Usage
      BY UsageIsNatural DEF QuotaInv
    <3>7. ~(u < Target + f)
      BY <2>1, <3>5, <3>6, Zenon
    <3>8. Target + 0 + f <= u
      BY <3>7, QuotaAssumption
    <3> QED
      BY <3>4, <3>6, <3>8, Zenon
  <2>6. BeyondTarget'
    <3>1. Held' = 0 /\ stage' \notin MayHaveFile /\ Usage' = Usage
      BY <1>1 DEF Held, MayHaveFile, Usage
    <3>2. ASSUME NEW m \in 0 .. Len(selected') - 1
          PROVE  Target + Held' + FreedBy(selected', m) <= Usage'
      <4>1. m \in 0 .. n - 1
        BY <2>2, <2>3
      <4>2. Target + 0 + FreedBy(t, m) <= Usage
        BY <2>5, <4>1
      <4> QED
        BY <2>2, <3>1, <4>2, Zenon
    <3> QED
      BY <3>1, <3>2 DEF BeyondTarget
  <2>7. FilesAreOfClips'
    BY <1>1 DEF QuotaInv, FilesAreOfClips
  <2> QED
    BY <2>4, <2>6, <2>7 DEF QuotaInv
<1> QED
  BY <1>5, <1>6

\* Taking the first clip in hand spends its share: the others come after it.
LEMMA RereadBeyondTarget ==
    ASSUME LogInv, SweepInv, QuotaInv, Reread
    PROVE  QuotaInv'
<1> DEFINE c == Head(selected).clip
<1>1. /\ selected # <<>> /\ stage = "purge"
      /\ UNCHANGED <<files, strategy>>
      /\ remaining' = WithoutClip(remaining, c)
      /\ selected' = Tail(selected)
      /\ remaining \in Seq(Candidate) /\ selected \in Seq(Candidate) /\ OldestFirst(remaining)
  BY DEF Reread, storeVars, SweepInv
<1>2. Len(selected) \in Nat \ {0} /\ Head(selected) = selected[1] /\ c = selected[1].clip
  BY <1>1, CandidateList, EmptySeq
<1>3. PICK t \in Seq(Candidate) :
        /\ t = selected' /\ Len(t) = Len(selected) - 1
        /\ \A i \in 1 .. Len(t) : t[i] = selected[i + 1]
  BY <1>1, HeadTailProperties
<1>4. /\ remaining' \in Seq(Candidate)
      /\ \A i \in 1 .. Len(remaining') : \E m \in 1 .. Len(remaining) : remaining'[i] = remaining[m]
  BY <1>1, WithoutClipInOrder
<1>5. stage' = "purge" \/ (stage' = "exists" /\ current' = c)
  BY <1>1 DEF Reread
<1> HIDE DEF c
<1>6. MeasuredBefore'
  <2>1. ASSUME NEW i \in 1 .. Len(remaining')
        PROVE  MeasuredSize(EventOf[remaining'[i].clip]) <= remaining'[i].size
    BY <1>4 DEF QuotaInv, MeasuredBefore
  <2>2. ASSUME NEW i \in 1 .. Len(t)
        PROVE  MeasuredSize(EventOf[t[i].clip]) <= t[i].size
    <3>1. i + 1 \in 1 .. Len(selected) /\ t[i] = selected[i + 1]
      BY <1>2, <1>3
    <3> QED
      BY <3>1 DEF QuotaInv, MeasuredBefore
  <2> QED
    BY <1>1, <1>3, <2>1, <2>2 DEF MeasuredBefore, MeasuredSize
<1>7. FilesAreOfClips' /\ Usage' = Usage
  BY <1>1 DEF QuotaInv, FilesAreOfClips, Usage
<1>8. ASSUME QuotaPurges' PROVE BeyondTarget'
  <2>1. QuotaPurges /\ Held = 0
    <3>1. QuotaPurges
      BY <1>1, <1>8 DEF QuotaPurges
    <3>2. Held = 0
      BY <1>1 DEF Held, MayHaveFile
    <3> QED
      BY <3>1, <3>2
  <2>2. PICK u \in Nat : u = Usage
    BY UsageIsNatural DEF QuotaInv
  <2>3. PICK first \in Nat : first = selected[1].size
    <3>1. 1 \in 1 .. Len(selected)
      BY <1>2
    <3>2. selected[1] \in Candidate
      BY <1>1, <3>1, CandidateList
    <3> QED
      BY <3>2 DEF Candidate
  <2>4. PICK h \in Nat : h = Held' /\ h <= first
    <3>1. CASE stage' = "purge"
      <4>1. Held' = 0
        BY <3>1 DEF Held, MayHaveFile
      <4> QED
        BY <4>1
    <3>2. CASE stage' = "exists" /\ current' = c
      <4>1. PICK e \in Events : e = EventOf[c]
        BY <1>1, <1>2, CandidateList, EventAssumption
      <4>2. PICK n \in Nat : n = MeasuredSize(e)
        BY MeasuredIsNatural
      <4>3. Held' = n
        BY <1>1, <3>2, <4>1, <4>2 DEF Held, MayHaveFile, MeasuredSize
      <4>4. n <= first
        <5>1. MeasuredSize(EventOf[selected[1].clip]) <= selected[1].size
          BY <1>2 DEF QuotaInv, MeasuredBefore
        <5> QED
          BY <1>2, <2>3, <4>1, <4>2, <5>1, Zenon
      <4> QED
        BY <4>3, <4>4
    <3> QED
      BY <1>5, <3>1, <3>2
  <2>5. ASSUME NEW m \in 0 .. Len(selected) - 1
        PROVE  Target + FreedBy(selected, m) <= u
    <3>1. Target + Held + FreedBy(selected, m) <= Usage
      BY <2>1 DEF QuotaInv, BeyondTarget
    <3>2. Target + 0 + FreedBy(selected, m) <= u
      BY <2>1, <2>2, <3>1, Zenon
    <3>3. m \in 0 .. Len(selected)
      BY <1>2
    <3>4. PICK f \in Nat : f = FreedBy(selected, m)
      BY <1>1, <3>3, FreedFacts
    <3>5. Target + 0 + f <= u
      BY <3>2, <3>4, Zenon
    <3>6. Target + f <= u
      BY <3>5, QuotaAssumption
    <3> QED
      BY <3>4, <3>6, Zenon
  <2>6. Target <= u
    <3>1. Target + FreedBy(selected, 0) <= u
      BY <1>2, <2>5
    <3>2. FreedBy(selected, 0) = 0
      BY <1>1, FreedFacts
    <3>3. Target + 0 <= u
      BY <3>1, <3>2, Zenon
    <3> QED
      BY <3>3, QuotaAssumption
  <2>7. ASSUME NEW m \in 0 .. Len(t) - 1
        PROVE  Target + h + FreedBy(t, m) <= u
    <3>1. /\ 1 \in 0 .. Len(selected) /\ 1 \in 1 .. Len(selected)
          /\ Len(t) \in Nat /\ Len(t) \in 0 .. Len(t) /\ 1 + Len(t) <= Len(selected)
          /\ m \in 0 .. Len(t) /\ 1 + m \in 0 .. Len(selected) - 1
          /\ \A i \in 1 .. Len(t) : t[i] = selected[1 + i]
      BY <1>2, <1>3
    <3>2. FreedBy(selected, 1 + m) = FreedBy(selected, 1) + FreedBy(t, m)
      BY <1>1, <3>1, SameFreed
    <3>3. FreedBy(selected, 1) = first
      <4>1. FreedBy(selected, 1) = FreedBy(selected, 1 - 1) + selected[1].size
            /\ FreedBy(selected, 0) = 0
        BY <1>1, <3>1, FreedFacts
      <4>2. 1 - 1 = 0 /\ 0 + first = first
        OBVIOUS
      <4> QED
        BY <2>3, <4>1, <4>2, Zenon
    <3>4. PICK f \in Nat : f = FreedBy(t, m)
      BY <3>1, FreedFacts
    <3>5. Target + FreedBy(selected, 1 + m) <= u
      BY <2>5, <3>1
    <3>6. Target + (first + f) <= u
      <4>1. FreedBy(selected, 1 + m) = first + f
        BY <3>2, <3>3, <3>4, Zenon
      <4> QED
        BY <3>5, <4>1, Zenon
    <3>7. Target + h + f <= u
      <4>1. h <= first
        BY <2>4
      <4> QED
        BY <3>6, <4>1, QuotaAssumption
    <3> QED
      BY <3>4, <3>7, Zenon
  <2>8. ASSUME NEW m \in 0 .. Len(selected') - 1
        PROVE  Target + Held' + FreedBy(selected', m) <= Usage'
    <3>1. m \in 0 .. Len(t) - 1
      BY <1>3
    <3>2. Target + h + FreedBy(t, m) <= u
      BY <2>7, <3>1
    <3> QED
      BY <1>3, <1>7, <2>2, <2>4, <3>2, Zenon
  <2>9. Target <= Usage'
    BY <1>7, <2>2, <2>6, Zenon
  <2> QED
    BY <2>8, <2>9 DEF BeyondTarget
<1>9. BeyondTarget'
  BY <1>8 DEF BeyondTarget
<1> QED
  BY <1>6, <1>7, <1>9 DEF QuotaInv

\* Every step keeps it.
LEMMA QuotaInvNext ==
    ASSUME NoneShared, LogInv, LogInv', SweepInv, QuotaInv, [Next]_vars
    PROVE  QuotaInv'
<1>1. CASE QuotaThrows \/ UsageThrows \/ RereadThrows \/ SweepEnds \/ Crash
  <2>1. remaining' = <<>> /\ selected' = <<>> /\ stage' = "idle" /\ UNCHANGED files
    BY <1>1 DEF QuotaThrows, UsageThrows, RereadThrows, SweepEnds, Crash, SweepThrows,
                ExecuteEnds, storeVars
  <2> QED
    BY <2>1, NothingPromised DEF QuotaInv
<1>2. CASE StrategyEnds
  <2>1. UNCHANGED <<files, remaining, selected>> /\ ~QuotaPurges'
    BY <1>2 DEF StrategyEnds, storeVars, planVars, QuotaPurges, Purging
  <2> QED
    BY <2>1, NothingPurged DEF QuotaInv, MeasuredBefore
<1> QED
  BY <1>1, <1>2, ExtractionKeepsTarget, SweepStartsMeasured, SelectionBeyondTarget,
     RereadBeyondTarget, PurgeKeepsTarget, IdleStepsKeepTarget
     DEF Next, SweepStep

\* "The quota must decide about the disk of now" (PurgeMediaUseCase::
\* applyStrategy): while no two clips share a file, the quota removes none
\* unless the volume is at its target or above, for any clips, sizes, policy,
\* faults and crashes.
THEOREM QuotaDeletesOnlyAboveTargetAlways ==
    ASSUME NoneShared
    PROVE  Spec => QuotaDeletesOnlyAboveTarget
<1> DEFINE Needed == RemoveFile /\ strategy = "quota" => Target <= Usage
<1>1. Init => QuotaInv
  <2> SUFFICES ASSUME Init PROVE QuotaInv
    OBVIOUS
  <2>1. remaining = <<>> /\ selected = <<>> /\ stage = "idle" /\ \A e \in Events : files[e] = NoFile
    BY DEF Init
  <2>2. Len(<<>>) = 0
    BY EmptySeq
  <2> QED
    BY <2>1, <2>2 DEF QuotaInv, FilesAreOfClips, MeasuredBefore, BeyondTarget, QuotaPurges, Purging
<1>2. LogInv /\ LogInv' /\ SweepInv /\ QuotaInv /\ [Next]_vars => QuotaInv'
  BY QuotaInvNext
<1>3. QuotaInv => Needed
  BY DEF QuotaInv, BeyondTarget, QuotaPurges, MayHaveFile, RemoveFile, Purging
<1> QED
  BY <1>1, <1>2, <1>3, LogInvAlways, SweepInvAlways, PTL DEF Spec, QuotaDeletesOnlyAboveTarget

=============================================================================
