---------------------------- MODULE MCSessionWriter ----------------------------
(***************************************************************************)
(* Small instances of SessionWriter for TLC.                               *)
(***************************************************************************)
EXTENDS SessionWriter

CONSTANTS c2s, s2c    \* the two pumps of mcptracer record

MCDirectionOf == [p \in Pumps |-> IF p = c2s THEN "c2s" ELSE "s2c"]

ListCall  == [json |-> TRUE, bytes |-> 1, shape |-> "list", id |-> "1"]
Result    == [json |-> TRUE, bytes |-> 2, shape |-> "result", id |-> "1"]
Notify    == [json |-> TRUE, bytes |-> 1, shape |-> "method", id |-> NoId]
TooBig    == [Notify EXCEPT !.bytes = 5]
NotJson   == [json |-> FALSE, bytes |-> 1, shape |-> "unmatched", id |-> NoId]

\* With MaxBytes = 4: an exempt pair, a record larger than the whole budget and
\* a frame that is not JSON.
MixedPayloads == {ListCall, Result, TooBig, NotJson}

\* With MaxPending = 0 every list call loses redaction context.
LossyPayloads == {ListCall, NotJson}

\* Nothing a correlation check could miss.
NotifyPayloads == {Notify}
=============================================================================
