-------------------------------- MODULE MCReplay --------------------------------
(* Small stdio replays for TLC. *)
EXTENDS Replay

M(seq, dir, kind, id, method) ==
    [seq |-> seq, src |-> seq, dir |-> dir, kind |-> kind, id |-> id, ts |-> seq, method |-> method,
     tool |-> IF method = "call" THEN "tool" ELSE NoTool, err |-> FALSE, toolErr |-> FALSE,
     target |-> IF method = "cancelled" THEN "b" ELSE NoId, valid |-> TRUE, shape |-> "unmatched",
     tools |-> IF method = "none" THEN "tool" :> [destructive |-> TRUE, readOnly |-> FALSE] ELSE <<>>,
     masked |-> FALSE]

Handshake == <<M(0, "c2s", "request", "a", "initialize"), M(1, "s2c", "response", "a", "none")>>

\* A call that is cancelled, one during which the server asked the client, a
\* session whose initialize comes late, one with an unreadable payload, one
\* whose cancellation was overtaken, a handshake alone, and an empty one.
MCSources ==
    {Handshake \o <<M(2, "c2s", "request", "b", "call"), M(3, "c2s", "notification", NoId, "cancelled"),
                    M(4, "c2s", "request", "c", "other"), M(5, "s2c", "response", "c", "none"),
                    M(6, "c2s", "notification", NoId, "other")>>,
     Handshake \o <<M(2, "c2s", "request", "b", "call"), M(3, "s2c", "request", "b", "other"),
                    M(4, "c2s", "response", "b", "none"), M(5, "s2c", "response", "b", "none"),
                    M(6, "c2s", "notification", NoId, "other")>>,
     <<M(0, "c2s", "notification", NoId, "other"), M(1, "c2s", "request", "a", "initialize"),
       [M(2, "c2s", "request", "b", "other") EXCEPT !.valid = FALSE]>>,
     <<M(0, "c2s", "request", "b", "call"), M(1, "c2s", "notification", NoId, "other"),
       M(2, "c2s", "notification", NoId, "cancelled")>>,
     Handshake, <<>>}

Opts(p, d, r, s) == [plan |-> p, allow |-> {}, deny |-> d, realtime |-> r, strict |-> s]

MCOptions == {Opts(TRUE, {}, FALSE, FALSE), Opts(FALSE, {}, FALSE, FALSE), Opts(FALSE, {}, TRUE, TRUE),
              Opts(FALSE, {"tool"}, FALSE, FALSE)}
=============================================================================
