--------------------------- MODULE FrameWindowLog ---------------------------
(***************************************************************************)
(* What the circular buffer promises to whoever reads it, without bytes    *)
(* and offsets: a log that holds the most recent frames of one session, in *)
(* capture order, from which only the oldest entries ever leave.           *)
(***************************************************************************)
EXTENDS Integers, Sequences

CONSTANTS Offered, NoSession

VARIABLES
    log,      \* the retained frames, oldest first: [sequence, ts, key, session]
    session,  \* the session they belong to
    next      \* the sequence number of the next accepted frame

logVars == <<log, session, next>>

Entry(f) == [sequence |-> next, ts |-> f.ts, key |-> f.key, session |-> f.session]

LogInit == log = <<>> /\ session = NoSession /\ next = 0

\* A frame of the current session is appended; any number of the oldest
\* frames leave to make room for it.
Extend(f) ==
    /\ session \in {NoSession, f.session}
    /\ log # <<>> => log[Len(log)].ts <= f.ts
    /\ \E n \in 0 .. Len(log) : log' = Append(SubSeq(log, n + 1, Len(log)), Entry(f))

\* A frame of another session replaces the whole log.
Restart(f) ==
    /\ session \notin {NoSession, f.session}
    /\ log' = <<Entry(f)>>

Accept(f) ==
    /\ Extend(f) \/ Restart(f)
    /\ session' = f.session
    /\ next' = next + 1

LogNext == \E f \in Offered : Accept(f)

LogSpec == LogInit /\ [][LogNext]_logVars

=============================================================================
