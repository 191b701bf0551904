-------------------------------- MODULE MCStore --------------------------------
(* A small database for TLC: one live recorder beside two command processes. *)
EXTENDS MemoryIndex

\* Requests "a" list the tools, requests "b" call the one there is.
Message(seq, dir, kind, id) ==
    [seq |-> seq, dir |-> dir, kind |-> kind, id |-> id, ts |-> seq, tools |-> <<>>,
     method |-> IF kind # "request" THEN "none" ELSE IF id = "a" THEN "list" ELSE "call",
     tool |-> IF kind = "request" /\ id = "b" THEN "t" ELSE NoTool, err |-> FALSE,
     toolErr |-> FALSE, target |-> NoId, valid |-> TRUE, object |-> TRUE, agrees |-> TRUE,
     shape |-> IF kind = "request" THEN "method" ELSE "result", bare |-> {},
     call |-> IF kind = "request" THEN id ELSE NoCall, secret |-> FALSE]

\* A listing at some time, with the version it shows.
Listing(hash, at) ==
    <<[Message(0, "c2s", "request", "a") EXCEPT !.ts = at],
      [Message(1, "s2c", "response", "a") EXCEPT !.ts = at + 1, !.tools = [t |-> hash]]>>

\* A request that is answered, then one that is not.
MCScript == [r \in Recorders |->
                Append(Listing(2, 10), [Message(2, "c2s", "request", "b") EXCEPT !.ts = 12])]

\* A finished session whose client used one id for two calls.
MCRecorded ==
    <<NewSession([ended |-> TRUE, dropped |-> 0, policy |-> "default", transport |-> "stdio"],
                 Listing(1, 0) \o <<[Message(2, "c2s", "request", "a") EXCEPT !.call = "c", !.method = "call", !.tool = "t"],
                                    Message(3, "s2c", "response", "a")>>,
                 [kind |-> "record", of |-> <<>>])>>

MCCassette == <<[answered |-> TRUE, request |-> Message(0, "c2s", "request", "a"),
                 response |-> Message(0, "s2c", "response", "a")]>>

\* With and without a redaction upgrade.
MCOptions == {[force_default_redaction |-> force, allow_unredacted |-> FALSE] : force \in BOOLEAN}

\* The command processes are interchangeable.
Symmetry == Permutations(Clis)

\* Baseline commands, exchange by files, merging, and indexing, each beside a recorder.
MCMenus == {[commands |-> {"promote", "revoke"}, runs |-> 2],
            [commands |-> {"export", "import", "vcr"}, runs |-> 2],
            [commands |-> {"merge"}, runs |-> 1],
            [commands |-> {"index"}, runs |-> 2]}

\* A process that opens the database late, or that failed to, only waits or
\* makes others wait: once data changes, every process has it open or died.
OpenedFirst ==
    (sessions # MCRecorded \/ baselines # <<>> \/ \E c \in Clis : command[c] # Idle)
        => \A p \in Procs : conn[p] = "open" \/ (conn[p] = "closed" /\ crashesLeft < MaxCrashes)
=============================================================================
