--------------------------- MODULE MediaRetention ---------------------------
(***************************************************************************)
(* S4.2 and S4.3 over one media directory and one table of clips:          *)
(*                                                                         *)
(*   an extraction  (ExtractClipUseCase, one per event received) writes    *)
(*                  the container, then saves the row                      *)
(*   the sweep      (PurgeMediaUseCase, on the thread of the PurgeDaemon)  *)
(*                  deletes the file, releases the row, appends the log    *)
(*   the auditor    locks a clip (MediaClip::lockForAudit, then update)    *)
(*                                                                         *)
(* Nothing is held across two of their calls: every call of the            *)
(* repository, the file storage and the log is a step.  A container is     *)
(* known by the clip it was written for.  The ratios of QuotaPolicy are    *)
(* bytes of a disk of fixed capacity, and all media is of one kind.        *)
(***************************************************************************)
EXTENDS Naturals, Sequences, FiniteSets, SequencesExt

CONSTANTS
    Clips,        \* the clips extracted, one per request
    Events,       \* event ids; the file is mediaDir/<event id>.mp4
    EventOf,      \* the event each clip is extracted for
    SizeOf,       \* bytes of the container of an event
    OtherBytes,   \* bytes in use on the volume that are not media
    Trigger,      \* QuotaPolicy::triggerRatio, in bytes
    Target,       \* QuotaPolicy::targetRatio, in bytes
    MaxAge,       \* RetentionPolicy::maxAgeFor
    Stuck,        \* the events whose file cannot be measured or removed
    Faults,       \* what may fail: see FaultKinds
    NoRow, NoFile, Torn, NoClip,
    MaxTime,      \* bound on the clock
    MaxCrashes    \* bound on the crashes

FaultKinds == {"write", "save", "stat", "query", "update", "log", "usage"}

ASSUME ClipsAssumption == IsFiniteSet(Clips)
ASSUME EventAssumption == EventOf \in [Clips -> Events]
ASSUME FaultAssumption == Faults \subseteq FaultKinds /\ Stuck \subseteq Events
ASSUME QuotaAssumption ==
    /\ SizeOf \in [Events -> Nat] /\ OtherBytes \in Nat
    /\ Trigger \in Nat /\ Target \in Nat /\ 0 < Target /\ Target <= Trigger
ASSUME AgeAssumption == MaxAge \in Nat \ {0} /\ MaxTime \in Nat /\ MaxCrashes \in Nat
ASSUME NullAssumption == NoRow \notin [created : Nat, retained : BOOLEAN, locked : BOOLEAN]
                         /\ {NoFile, Torn, NoClip} \cap Clips = {} /\ Torn # NoFile

VARIABLES
    rows,         \* the table media_clips: clip -> its row
    files,        \* event -> the clip whose container its file holds
    log,          \* clip -> the outcomes in its lines of the purge log
    now,          \* system_clock::now()
    extraction,   \* where the extraction of each clip is
    crashes,
    stage,        \* where the sweep is
    strategy,     \* the strategy being applied
    usageBefore,  \* PurgeReport::diskUsageBefore
    remaining,    \* execute's remaining: [clip, size], oldest first
    selected,     \* what the strategy selected and is still to be purged
    current,      \* the clip being purged
    copy,         \* its row, as findById returned it
    outcome,      \* what releaseFile returned
    failures,     \* the clips in PurgeReport::failures
    reported      \* the clips in the failures printed so far

storeVars == <<rows, files, log>>
planVars == <<usageBefore, remaining, selected>>
clipVars == <<current, copy, outcome>>
sweepVars == <<stage, strategy, planVars, clipVars, failures, reported>>
vars == <<storeVars, now, extraction, crashes, sweepVars>>

Row == [created : Nat, retained : BOOLEAN, locked : BOOLEAN]
Fault(kind) == kind \in Faults
HasRow(c) == rows[c] # NoRow

\* is_eligible_for_purge
Eligible(row) == row # NoRow /\ row.retained /\ ~row.locked

\* IDiskUsageProvider::currentUsage; a torn file weighs as much as a whole one.
Usage == OtherBytes + SumFunctionOnSet(SizeOf, {e \in Events : files[e] # NoFile})

Init ==
    /\ rows = [c \in Clips |-> NoRow]
    /\ files = [e \in Events |-> NoFile]
    /\ log = [c \in Clips |-> <<>>]
    /\ now = 0
    /\ extraction = [c \in Clips |-> "none"]
    /\ crashes = 0
    /\ stage = "idle"
    /\ strategy = "lgpd"
    /\ usageBefore = 0
    /\ remaining = <<>>
    /\ selected = <<>>
    /\ current = NoClip
    /\ copy = NoRow
    /\ outcome = "none"
    /\ failures = {}
    /\ reported = {}

-----------------------------------------------------------------------------
(***************************************************************************)
(* Extraction: FileStorage::write truncates the file that is there; the    *)
(* row comes only when the container is on disk.                           *)
(***************************************************************************)
Extracts(c, from, to) ==
    /\ extraction[c] = from
    /\ extraction' = [extraction EXCEPT ![c] = to]
    /\ UNCHANGED <<log, now, crashes, sweepVars>>

WriteContainer(c) ==
    /\ Extracts(c, "none", "written")
    /\ files' = [files EXCEPT ![EventOf[c]] = c]
    /\ UNCHANGED rows

WriteFails(c) ==
    /\ Fault("write")
    /\ Extracts(c, "none", "failed")
    /\ files' = [files EXCEPT ![EventOf[c]] = Torn]
    /\ UNCHANGED rows

SaveClip(c) ==
    /\ Extracts(c, "written", "saved")
    /\ rows' = [rows EXCEPT ![c] = [created |-> now, retained |-> TRUE, locked |-> FALSE]]
    /\ UNCHANGED files

\* toWallClock or save throws after the container was written.
SaveFails(c) ==
    /\ Fault("save")
    /\ Extracts(c, "written", "failed")
    /\ UNCHANGED <<rows, files>>

Extraction(c) == WriteContainer(c) \/ WriteFails(c) \/ SaveClip(c) \/ SaveFails(c)

LockForAudit(c) ==
    /\ HasRow(c)
    /\ rows[c].retained /\ ~rows[c].locked
    /\ rows' = [rows EXCEPT ![c].locked = TRUE]
    /\ UNCHANGED <<files, log, now, extraction, crashes, sweepVars>>

-----------------------------------------------------------------------------
(***************************************************************************)
(* The sweep: PurgeMediaUseCase::execute.                                  *)
(***************************************************************************)
World == <<now, extraction, crashes>>

\* findPurgeCandidates orders by created_at_ms only.
OldestFirst(s) ==
    \A i, j \in 1 .. Len(s) : i < j => rows[s[i].clip].created <= rows[s[j].clip].created

\* measuredSize: a file that is missing or cannot be read weighs 0.
MeasuredSize(e) == IF files[e] # NoFile /\ e \notin Stuck THEN SizeOf[e] ELSE 0

Candidates ==
    {[clip |-> c, size |-> MeasuredSize(EventOf[c])] : c \in {d \in Clips : Eligible(rows[d])}}

SweepStarts ==
    /\ stage = "idle"
    /\ usageBefore' = Usage
    /\ \E s \in SetToSeqs(Candidates) : OldestFirst(s) /\ remaining' = s
    /\ stage' = "strategy"
    /\ UNCHANGED <<storeVars, World, strategy, selected, clipVars, failures, reported>>

\* The locals of execute and of purge go out of scope.
ClipEnds == current' = NoClip /\ copy' = NoRow /\ outcome' = "none"
ExecuteEnds ==
    /\ stage' = "idle"
    /\ strategy' = "lgpd"
    /\ usageBefore' = 0
    /\ remaining' = <<>>
    /\ selected' = <<>>
    /\ failures' = {}
    /\ ClipEnds

\* An exception of currentUsage or findById ends execute: the report is lost.
SweepThrows == ExecuteEnds /\ UNCHANGED <<storeVars, World, reported>>

UsageThrows ==
    /\ stage \in {"strategy", "finish"}
    /\ Fault("usage")
    /\ SweepThrows

\* The loop over a vector that keeps, in order, the entries at indices I.
Kept(s, I) ==
    LET loop[n \in 0 .. Len(s)] ==
            IF n = 0 THEN <<>>
            ELSE IF n \in I THEN Append(loop[n - 1], s[n]) ELSE loop[n - 1]
    IN  loop[Len(s)]

\* LgpdRetentionStrategy::selectClipsToPurge
Expired(c) == MaxAge <= now - rows[c].created
SelectLgpd ==
    Kept(remaining, {i \in 1 .. Len(remaining) : Expired(remaining[i].clip)})

\* Slip: newest first.
EligibleNewestFirst(s) == Reverse(s)
\* DiskQuotaFifoStrategy: the shortest prefix projected below the target.
\* The candidates come sorted from the repository; stable_sort keeps them.
EligibleOldestFirst(s) == s

TakeUntilTargetIsReached(s, usage) ==
    LET size == [i \in 1 .. Len(s) |-> s[i].size]
        Freed(n) == SumFunctionOnSet(size, 1 .. n)
        Enough == {n \in 0 .. Len(s) : usage < Target + Freed(n)}
    IN  SubSeq(s, 1, CHOOSE n \in 0 .. Len(s) :
                        /\ n \in Enough \/ (Enough = {} /\ n = Len(s))
                        /\ \A m \in Enough : n <= m)

\* Slip: the measure taken when the sweep began.
StaleUsage == usageBefore
\* The disk is measured again for each strategy.
ContextUsage == Usage

SelectQuota ==
    IF ContextUsage < Trigger THEN <<>>
    ELSE TakeUntilTargetIsReached(EligibleOldestFirst(remaining), ContextUsage)

Selection == IF strategy = "lgpd" THEN SelectLgpd ELSE SelectQuota

QuotaUnreachable == strategy = "quota" /\ Trigger <= ContextUsage /\ remaining = <<>>

ApplyStrategy ==
    /\ stage = "strategy"
    /\ ~QuotaUnreachable
    /\ selected' = Selection
    /\ stage' = "purge"
    /\ UNCHANGED <<storeVars, World, strategy, usageBefore, remaining, clipVars,
                   failures, reported>>

QuotaThrows ==
    /\ stage = "strategy"
    /\ QuotaUnreachable
    /\ SweepThrows

StrategyEnds ==
    /\ stage = "purge"
    /\ selected = <<>>
    /\ strategy' = "quota"
    /\ stage' = IF strategy = "lgpd" THEN "strategy" ELSE "finish"
    /\ UNCHANGED <<storeVars, World, planVars, clipVars, failures, reported>>

WithoutClip(s, c) == Kept(s, {i \in 1 .. Len(s) : s[i].clip # c})

FindById(c) == IF c \in Clips THEN rows[c] ELSE NoRow

\* purge re-reads the row: a clip locked since the query is skipped.
Reread ==
    /\ stage = "purge"
    /\ selected # <<>>
    /\ LET c == Head(selected).clip IN
       /\ IF Eligible(FindById(c))
          THEN stage' = "exists" /\ current' = c /\ copy' = FindById(c)
          ELSE UNCHANGED <<stage, current, copy>>
       /\ remaining' = WithoutClip(remaining, c)
    /\ selected' = Tail(selected)
    /\ UNCHANGED <<storeVars, World, strategy, usageBefore, outcome, failures, reported>>

RereadThrows ==
    /\ stage = "purge"
    /\ selected # <<>>
    /\ Fault("query")
    /\ SweepThrows

-----------------------------------------------------------------------------
\* What the purge of current leaves alone, and the order of its last steps.
PurgeFrame == <<World, strategy, planVars, reported>>
\* Slip: the log before the database.
LogsFirst == <<"log", "update">>
StepsAfterRelease == <<"update", "log">>

\* Slip: the exception leaves the loop over the clips.
FailureLeaves == "finish"
\* An ApplicationError is one clip's failure, and the next clip follows.
AfterFailure == "purge"

ClipFails ==
    /\ failures' = failures \cup {current}
    /\ stage' = AfterFailure
    /\ ClipEnds
    /\ UNCHANGED <<storeVars, PurgeFrame>>

File == files[EventOf[current]]

Released(result) ==
    /\ outcome' = result
    /\ stage' = StepsAfterRelease[1]
    /\ UNCHANGED <<rows, log, current, copy, failures, PurgeFrame>>

\* FileStorage::exists answers false when stat fails.
FileMissing ==
    /\ stage = "exists"
    /\ File = NoFile \/ Fault("stat")
    /\ Released("already_missing")
    /\ UNCHANGED files

FileExists ==
    /\ stage = "exists"
    /\ File # NoFile
    /\ stage' = "shared"
    /\ UNCHANGED <<storeVars, clipVars, failures, PurgeFrame>>

\* Slip: a sibling counts whether or not it is retained.
AnySibling(c, d) == d # c /\ EventOf[d] = EventOf[c] /\ HasRow(d)
\* isFileSharedWithRetainedClip: same event, hence the same file.
IsSibling(c, d) == AnySibling(c, d) /\ rows[d].retained

FileShared ==
    /\ stage = "shared"
    /\ \E d \in Clips : IsSibling(current, d)
    /\ Released("kept_for_other_clip")
    /\ UNCHANGED files

FileNotShared ==
    /\ stage = "shared"
    /\ ~\E d \in Clips : IsSibling(current, d)
    /\ stage' = "remove"
    /\ UNCHANGED <<storeVars, clipVars, failures, PurgeFrame>>

QueryFails == stage = "shared" /\ Fault("query") /\ ClipFails

RemoveFile ==
    /\ stage = "remove"
    /\ EventOf[current] \notin Stuck
    /\ files' = [files EXCEPT ![EventOf[current]] = NoFile]
    /\ Released("deleted")

RemoveFails == stage = "remove" /\ EventOf[current] \in Stuck /\ ClipFails

StepDone ==
    IF stage = StepsAfterRelease[1]
    THEN stage' = StepsAfterRelease[2] /\ UNCHANGED clipVars
    ELSE stage' = "purge" /\ ClipEnds

\* INSERT OR REPLACE of the copy read at the start, marked as purged.
UpdateRow ==
    /\ stage = "update"
    /\ rows' = [rows EXCEPT ![current] = [copy EXCEPT !.retained = FALSE]]
    /\ StepDone
    /\ UNCHANGED <<files, log, failures, PurgeFrame>>

UpdateFails == stage = "update" /\ Fault("update") /\ ClipFails

RecordLog ==
    /\ stage = "log"
    /\ log' = [log EXCEPT ![current] = Append(@, outcome)]
    /\ StepDone
    /\ UNCHANGED <<rows, files, failures, PurgeFrame>>

RecordFails == stage = "log" /\ Fault("log") /\ ClipFails

PurgeClip ==
    \/ FileMissing \/ FileExists \/ FileShared \/ FileNotShared \/ QueryFails
    \/ RemoveFile \/ RemoveFails \/ UpdateRow \/ UpdateFails \/ RecordLog \/ RecordFails

\* PurgeDaemon::sweep prints the report that execute returned.
SweepEnds ==
    /\ stage = "finish"
    /\ reported' = reported \cup failures
    /\ ExecuteEnds
    /\ UNCHANGED <<storeVars, World>>

SweepStep ==
    \/ ApplyStrategy \/ QuotaThrows \/ UsageThrows \/ StrategyEnds
    \/ Reread \/ RereadThrows \/ PurgeClip \/ SweepEnds

-----------------------------------------------------------------------------
\* The process dies: what is on disk stays, extractions and sweep are gone.
Crash ==
    /\ crashes < MaxCrashes
    /\ crashes' = crashes + 1
    /\ extraction' = [c \in Clips |-> IF extraction[c] = "written" THEN "failed"
                                                                  ELSE extraction[c]]
    /\ ExecuteEnds
    /\ UNCHANGED <<storeVars, now, reported>>

Tick ==
    /\ now < MaxTime
    /\ now' = now + 1
    /\ UNCHANGED <<storeVars, extraction, crashes, sweepVars>>

Next ==
    \/ \E c \in Clips : Extraction(c) \/ LockForAudit(c)
    \/ SweepStarts \/ SweepStep
    \/ Crash \/ Tick

Spec == Init /\ [][Next]_vars

\* The daemon sweeps again and again and a sweep goes on; time passes.
Fairness == WF_vars(SweepStarts) /\ WF_vars(SweepStep) /\ WF_vars(Tick)
FairSpec == Spec /\ Fairness

-----------------------------------------------------------------------------
Purged(c) == HasRow(c) /\ ~rows[c].retained
Purging == {"exists", "shared", "remove", "update", "log"}

\* The state has its type, and a clip being purged has left both lists of
\* the sweep (remove_candidate): no strategy can select it a second time.
TypeOK ==
    /\ rows \in [Clips -> Row \cup {NoRow}]
    /\ files \in [Events -> Clips \cup {NoFile, Torn}]
    /\ now \in 0 .. MaxTime /\ crashes \in 0 .. MaxCrashes
    /\ extraction \in [Clips -> {"none", "written", "saved", "failed"}]
    /\ stage \in Purging \cup {"idle", "strategy", "purge", "finish"}
    /\ failures \subseteq Clips /\ reported \subseteq Clips
    /\ ToSet(selected) \subseteq ToSet(remaining)
    /\ stage \in Purging =>
        /\ current \in Clips /\ HasRow(current)
        /\ \A k \in ToSet(remaining) : k.clip # current

\* purge_media.hpp: file first, row second.  A released clip leaves nothing
\* of its own on disk, unless another retained clip names the same file.
PurgedMediaGone ==
    \A c \in Clips : Purged(c) /\ files[EventOf[c]] = c =>
        \E d \in Clips \ {c} : EventOf[d] = EventOf[c] /\ HasRow(d) /\ rows[d].retained

\* The log tells what happened, once: no clip has two lines, and a clip
\* with a line is released.  Failures and crashes at any step included.
LogTellsTruth ==
    \A c \in Clips : Len(log[c]) <= 1 /\ (log[c] # <<>> => Purged(c))

\* FIFO: the quota deletes no file while an older candidate of the sweep
\* is still to be tried.
QuotaTakesOldest ==
    [][RemoveFile /\ strategy = "quota" =>
        \A k \in ToSet(remaining) : copy.created <= rows[k.clip].created]_vars

\* applyStrategy: "the quota must decide about the disk of now".  It deletes
\* only while the volume is at or above the target, and what the retention
\* period freed in the same sweep counts.
QuotaDeletesOnlyAboveTarget ==
    [][RemoveFile /\ strategy = "quota" => Target <= Usage]_vars

\* A clip past its age is released or locked, whatever other clips' files
\* cannot be removed and if the process crashes in the middle of a sweep.
ExpiredIsPurged ==
    \A c \in Clips :
        (EventOf[c] \notin Stuck /\ Eligible(rows[c]) /\ Expired(c))
            ~> (Purged(c) \/ (HasRow(c) /\ rows[c].locked))

\* purge_media.cpp:108: "locked evidence is never deleted".
LockedEvidenceKept ==
    [][RemoveFile => ~rows[current].locked]_vars

\* purge_media.cpp:140: the purge of a clip never destroys the container a
\* later extraction of the same event wrote over it.
NewMediaSurvives ==
    [][RemoveFile => File \notin {c \in Clips \ {current} : extraction[c] \in {"written", "saved"}
                                                            /\ ~Purged(c)}]_vars

\* purge_media.cpp:153: a purge whose line could not be written is a visible
\* failure of the report, never a silence.
UnloggedIsReported ==
    \A c \in Clips : stage = "idle" /\ Purged(c) /\ log[c] = <<>> => c \in reported

-----------------------------------------------------------------------------
(***************************************************************************)
(* Table, files and log, clip by clip, are the ledger of ClipLedger.       *)
(***************************************************************************)
LifeOf(c) ==
    IF Purged(c) THEN "released" ELSE IF HasRow(c) THEN "retained" ELSE "none"

Ledger == INSTANCE ClipLedger WITH
    life <- [c \in Clips |-> LifeOf(c)],
    media <- {c \in Clips : files[EventOf[c]] = c},
    lines <- log

\* Whatever fails and wherever the process dies, every call on the table, the
\* files and the log is a step of the ledger: no released clip comes back, no
\* row leaves, and no release precedes the loss of the clip's own media.
ImplementsLedger == Ledger!LedgerSpec

=============================================================================
