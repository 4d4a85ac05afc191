------------------------------ MODULE IsoBmff ------------------------------
(***************************************************************************)
(* normalize_iso_bmff_timestamps: the walk over the boxes of a finished    *)
(* container that makes the dates mp4mux stamped into its headers          *)
(* constant, so that the hash of the evidence can be repeated.             *)
(*                                                                         *)
(* Memory is a sequence of words of four bytes, from address 0 on: the     *)
(* size of a box (in words, where the code counts bytes), its type, then   *)
(* what it holds; for a box with dates that is a word with the version,    *)
(* then creation and modification.                                         *)
(***************************************************************************)
EXTENDS Integers, Sequences

CONSTANTS
    moov, trak, mdia, edts, minf,   \* the types whose boxes hold boxes
    mvhd, tkhd, mdhd,               \* those with dates
    ftyp, styp, free, skip, wide,   \* what else may come first
    Sentinel,       \* kNormalizedTimestamp
    Layouts,        \* the containers: words, with Date where mp4mux stamps
    Date,           \* the place of a date in a layout
    Times           \* the times at which a container may be muxed

VARIABLES
    layout,     \* what the muxer was asked to write
    words,      \* the container, which the walk changes in place
    walk        \* the calls under way, the innermost last: [offset, end];
                \* or a call not yet made

boxVars == <<layout, words, walk>>

Header == 2
NotCalled == <<[offset |-> -1, end |-> -1]>>

At(address) == words[address + 1]
StampedAt(l, time) ==
    [i \in DOMAIN l |-> IF l[i] = Date THEN time ELSE l[i]]

IsContainer(type) == type \in {moov, trak, mdia, edts, minf}
HasDateFields(type) == type \in {mvhd, tkhd, mdhd}

\* Slip: version 1 not told from version 0.
NarrowFields(version) == 1

\* The width of a date, in words.
FieldWidth(version) == IF version = 1 THEN 2 ELSE 1

\* The container the muxer hands over, stamped with the time of day.
BoxInit ==
    /\ layout \in Layouts
    /\ words \in {StampedAt(layout, time) : time \in Times}
    /\ walk = NotCalled

\* Anything that does not begin like a container is left as it is.
Plausible ==
    /\ Len(words) >= Header
    /\ At(1) \in {ftyp, moov, styp, free, skip, wide}

Normalize ==
    /\ walk = NotCalled
    /\ walk' = IF Plausible THEN <<[offset |-> 0, end |-> Len(words)]>>
               ELSE <<>>
    /\ UNCHANGED <<layout, words>>

-----------------------------------------------------------------------------
(***************************************************************************)
(* normalizeBoxes and normalizeBox.                                        *)
(***************************************************************************)
Walking == walk # NotCalled /\ walk # <<>>
Level == walk[Len(walk)]
Size == At(Level.offset)
Type == At(Level.offset + 1)

\* There is a whole box at the offset.
BoxAtOffset ==
    /\ Level.offset + Header =< Level.end
    /\ Size >= Header
    /\ Level.offset + Size =< Level.end

Advanced == [walk EXCEPT ![Len(walk)].offset = @ + Size]

\* No room for a header, or a size that is none: back to the level above.
LeaveLevel ==
    /\ Walking
    /\ ~BoxAtOffset
    /\ walk' = SubSeq(walk, 1, Len(walk) - 1)
    /\ UNCHANGED <<layout, words>>

EnterContainer ==
    /\ Walking /\ BoxAtOffset
    /\ IsContainer(Type)
    /\ walk' = Append(Advanced, [offset |-> Level.offset + Header,
                                 end |-> Level.offset + Size])
    /\ UNCHANGED <<layout, words>>

\* The two dates follow the word of the version, if the box is long enough.
FirstField == Level.offset + Header + 1
DateFields ==
    IF Size < Header + 1 THEN {}
    ELSE LET end == FirstField + 2 * FieldWidth(At(Level.offset + Header))
         IN  IF end > Level.offset + Size THEN {} ELSE FirstField .. end - 1

\* The sentinel in fields of 32 bits, zeros in those of 64.
Constant == IF FieldWidth(At(Level.offset + Header)) = 1 THEN Sentinel ELSE 0

NormalizeDates ==
    /\ Walking /\ BoxAtOffset
    /\ HasDateFields(Type)
    /\ words' = [i \in DOMAIN words |->
                    IF i - 1 \in DateFields THEN Constant ELSE words[i]]
    /\ walk' = Advanced
    /\ UNCHANGED layout

SkipBox ==
    /\ Walking /\ BoxAtOffset
    /\ ~IsContainer(Type) /\ ~HasDateFields(Type)
    /\ walk' = Advanced
    /\ UNCHANGED <<layout, words>>

BoxNext ==
    \/ Normalize
    \/ LeaveLevel \/ EnterContainer \/ NormalizeDates \/ SkipBox

\* One thread runs the function to its end.
BoxFairness == WF_boxVars(BoxNext)

-----------------------------------------------------------------------------
(***************************************************************************)
(* What the walk is for.                                                   *)
(***************************************************************************)
Done == walk = <<>>

\* The walk of a container comes to an end, malformed sizes or not; nothing
\* but a date has changed then; and no date still tells when the container
\* was muxed: two clips of the same frames have the same bytes and the same
\* hash.
HashIsRepeatable ==
    [](walk # NotCalled =>
        <>[](/\ Done
             /\ \A i \in DOMAIN layout :
                   IF layout[i] = Date THEN words[i] \notin Times
                   ELSE words[i] = layout[i]))

=============================================================================
