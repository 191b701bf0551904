--------------------------------- MODULE Framing ---------------------------------
(***************************************************************************)
(* How byte streams become messages: crates/mcptracer-protocol/src/sse.rs  *)
(* (record-http and replay-http) and parse_stdio_frame of lib.rs (record,  *)
(* replay and serve).  A byte is a member of Bytes; the field name "data:" *)
(* is shortened to FieldName, with its colon.                              *)
(***************************************************************************)
EXTENDS Integers, SequencesExt

CONSTANT MaxFrameBytes      \* MAX_FRAME_BYTES

ASSUME MaxFrameAssumption == MaxFrameBytes \in Nat

Newline   == "nl"
Return    == "cr"
Space     == "sp"
FieldName == <<"d", ":">>
Bytes     == {Newline, Return, Space, "d", ":", "x"}

\* A line may also hold the field name, one space and a carriage return.
LineLimit == MaxFrameBytes + Len(FieldName) + 2

JsonEvent(data) == [event |-> "Json", data |-> data]
Oversized   == [event |-> "Oversized", data |-> <<>>]
Incomplete  == [event |-> "Incomplete", data |-> <<>>]

\* SseDecoder, with the events it has emitted.
NewDecoder == [line |-> <<>>, data |-> <<>>, oversized |-> FALSE, discarding |-> FALSE, events |-> <<>>]

has_pending_event(d) == d.line # <<>> \/ d.data # <<>> \/ d.oversized \/ d.discarding

\* A blank line ends an event; an empty one is not reported.
finish_event(d) ==
    [d EXCEPT !.events = IF d.oversized THEN Append(@, Oversized)
                         ELSE IF d.data # <<>> THEN Append(@, JsonEvent(d.data)) ELSE @,
              !.data = <<>>, !.oversized = FALSE]

WithoutReturn(line) == IF line # <<>> /\ Last(line) = Return THEN Front(line) ELSE line

DataValue(line) ==
    LET value == SubSeq(line, Len(FieldName) + 1, Len(line))
    IN  IF value # <<>> /\ Head(value) = Space THEN Tail(value) ELSE value

process_line(d, line) ==
    LET joined == IF d.data = <<>> THEN DataValue(line) ELSE Append(d.data, Newline) \o DataValue(line)
    IN  IF line = <<>> THEN finish_event(d)
        ELSE IF ~IsPrefix(FieldName, line) \/ d.oversized THEN d
        ELSE IF Len(joined) > MaxFrameBytes THEN [d EXCEPT !.data = <<>>, !.oversized = TRUE]
        ELSE [d EXCEPT !.data = joined]

\* Mutant: the rest of an oversized line counts as a new one.
ForgetOversized(d, bytes) ==
    IF Len(d.line) + Len(bytes) > LineLimit
    THEN [d EXCEPT !.line = <<>>, !.data = <<>>, !.oversized = TRUE]
    ELSE [d EXCEPT !.line = @ \o bytes]

\* The bytes of a fragment join the line unless it is already too long.
Extend(d, bytes) ==
    IF d.discarding THEN d
    ELSE IF Len(d.line) + Len(bytes) > LineLimit
    THEN [d EXCEPT !.line = <<>>, !.data = <<>>, !.oversized = TRUE, !.discarding = TRUE]
    ELSE [d EXCEPT !.line = @ \o bytes]

\* The newline of a discarded line is no event delimiter.
EndLine(d) ==
    IF d.discarding THEN [d EXCEPT !.discarding = FALSE]
    ELSE process_line([d EXCEPT !.line = <<>>], WithoutReturn(d.line))

\* split_inclusive: the fragments of a chunk, each without its newline.
Newlines(chunk) == SelectSeq([i \in DOMAIN chunk |-> i], LAMBDA i : chunk[i] = Newline)

push(d, chunk) ==
    LET ends  == Newlines(chunk)
        start == IF ends = <<>> THEN 1 ELSE Last(ends) + 1
        begin(i) == IF i = 1 THEN 1 ELSE ends[i - 1] + 1
        lines == [i \in DOMAIN ends |-> SubSeq(chunk, begin(i), ends[i] - 1)]
        ended == FoldLeft(LAMBDA s, bytes : EndLine(Extend(s, bytes)), d, lines)
    IN  IF start > Len(chunk) THEN ended ELSE Extend(ended, SubSeq(chunk, start, Len(chunk)))

\* The end of the stream completes nothing.
finish(d) ==
    [NewDecoder EXCEPT !.events = IF d.oversized THEN Append(d.events, Oversized)
                                  ELSE IF has_pending_event(d) THEN Append(d.events, Incomplete) ELSE d.events]

\* All events of a stream that arrives in these chunks.
SseEvents(chunks) == finish(FoldLeft(push, NewDecoder, chunks)).events

-----------------------------------------------------------------------------
\* A reader of newline-delimited frames: what is buffered, the frames it took,
\* and whether it gave up.
NewReader == [buffer |-> <<>>, frames |-> <<>>, failed |-> FALSE]

\* parse_stdio_frame, called until the buffer holds no newline.
RECURSIVE TakeFrames(_)
TakeFrames(r) ==
    LET ends == Newlines(r.buffer)
        json == WithoutReturn(SubSeq(r.buffer, 1, ends[1] - 1))
    IN  IF r.failed \/ ends = <<>> THEN r
        ELSE IF json = <<>> THEN [r EXCEPT !.failed = TRUE]
        ELSE TakeFrames([r EXCEPT !.frames = Append(@, json),
                                  !.buffer = SubSeq(@, ends[1] + 1, Len(@))])

\* serve reads on while an unfinished frame is within the limit.
ReadChunk(r, chunk) ==
    LET taken == TakeFrames([r EXCEPT !.buffer = @ \o chunk])
    IN  IF r.failed THEN r ELSE [taken EXCEPT !.failed = @ \/ Len(taken.buffer) > MaxFrameBytes]

StdioFrames(chunks) == FoldLeft(ReadChunk, NewReader, chunks)
=============================================================================
