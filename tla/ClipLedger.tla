----------------------------- MODULE ClipLedger -----------------------------
(***************************************************************************)
(* What extraction and retention together promise about every clip,        *)
(* without sweeps, candidates, faults and crashes: a clip is retained      *)
(* once and released once, its media goes before it is released, and the   *)
(* one line of the purge log comes after.                                  *)
(***************************************************************************)
EXTENDS Sequences

CONSTANTS Clips, EventOf

VARIABLES
    life,    \* where each clip is between its extraction and its release
    media,   \* the clips whose own container is on disk
    lines    \* the lines of the purge log, by clip

ledgerVars == <<life, media, lines>>

Outcomes == {"deleted", "already_missing", "kept_for_other_clip"}

\* The clips of one event share one file.
SameFile(c) == {d \in Clips : EventOf[d] = EventOf[c]}

LedgerInit ==
    /\ life = [c \in Clips |-> "none"]
    /\ media = {}
    /\ lines = [c \in Clips |-> <<>>]

\* A container replaces whatever the file held; a torn one is nobody's.
Write(c) ==
    /\ life[c] = "none"
    /\ \E own \in {{}, {c}} : media' = (media \ SameFile(c)) \cup own
    /\ UNCHANGED <<life, lines>>

Keep(c) ==
    /\ life[c] = "none"
    /\ life' = [life EXCEPT ![c] = "retained"]
    /\ UNCHANGED <<media, lines>>

\* The file goes while the clip is still retained, whoever wrote it last.
Delete(c) ==
    /\ life[c] = "retained"
    /\ media' = media \ SameFile(c)
    /\ UNCHANGED <<life, lines>>

\* A clip is released when another retained clip needs the file, or when the
\* file holds nothing but the container of a clip not in the table yet.
Release(c) ==
    /\ life[c] = "retained"
    /\ \/ \E d \in SameFile(c) \ {c} : life[d] = "retained"
       \/ \A d \in SameFile(c) \cap media : life[d] = "none"
    /\ life' = [life EXCEPT ![c] = "released"]
    /\ UNCHANGED <<media, lines>>

Record(c) ==
    /\ life[c] = "released"
    /\ lines[c] = <<>>
    /\ \E outcome \in Outcomes : lines' = [lines EXCEPT ![c] = <<outcome>>]
    /\ UNCHANGED <<life, media>>

LedgerNext ==
    \E c \in Clips : Write(c) \/ Keep(c) \/ Delete(c) \/ Release(c) \/ Record(c)

LedgerSpec == LedgerInit /\ [][LedgerNext]_ledgerVars

=============================================================================
