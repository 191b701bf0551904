------------------------------ MODULE MemoryIndex ------------------------------
(***************************************************************************)
(* index rebuild (crates/mcptracer-proxy/src/commands/index.rs): the facts,*)
(* edges and tool versions derived from recorded sessions                  *)
(* (crates/mcptracer-intel/src/lib.rs) and the tables that hold them.  It  *)
(* runs on the database of Store, beside recorders and other rebuilds.     *)
(*                                                                         *)
(* A message adds to the fields of Interchange                             *)
(*   tools  the tools a tools/list response defines, each with the hash of *)
(*          its description, schema and contract; <<>> for other messages  *)
(* Every listing is one page and all sessions record the same server       *)
(* command, whose key is left out of the rows.                             *)
(***************************************************************************)
EXTENDS Store

VARIABLES
    memory,       \* the derived tables
    overlap       \* history: stale, the rebuilds begun before a session changed
                  \* last; current, whether a whole rebuild saw what is stored now

indexVars == <<vars, memory, overlap>>

NullSession == 0

\* A message table column ts_ns is an integer.
Stamped(messages) ==
    /\ messages \in Seq({messages[i] : i \in DOMAIN messages})
    /\ \A i \in DOMAIN messages : "ts" \in DOMAIN messages[i] /\ messages[i].ts \in Int

ASSUME StampedAssumption ==
    /\ \A r \in Recorders : Stamped(Script[r])
    /\ \A i \in DOMAIN Recorded : Stamped(Recorded[i].messages)
    /\ Cassette \in Seq({Cassette[i] : i \in DOMAIN Cassette})
    /\ \A i \in DOMAIN Cassette : Stamped(InteractionMessages(Cassette[i]))

-----------------------------------------------------------------------------
(* Extraction from one session *)

MessageAt(messages, seq) == messages[CHOOSE i \in DOMAIN messages : messages[i].seq = seq]

\* exchange_seq_range, exchange_key, exchange_observed_at
SeqsOf(exchange) == {exchange.req, exchange.resp} \ {NoSeq}
ObservedAt(exchange, messages) ==
    LET seq == IF exchange.resp # NoSeq THEN exchange.resp ELSE exchange.req
        at  == {i \in DOMAIN messages : messages[i].seq = seq}
    IN  IF at = {} THEN 0 ELSE messages[CHOOSE i \in at : TRUE].ts

Fact(type, object, value, seqs, at) ==
    [type |-> type, object |-> object, value |-> value, seqs |-> seqs, observed_at |-> at]

Edge(type, from, to, at) == [type |-> type, from |-> from, to |-> to, observed_at |-> at]

\* The answered listings; the last one is the catalog (extract_tools) and its
\* provenance (latest_tools_list_provenance).
Listings(exchanges) == SelectSeq(exchanges, LAMBDA e : e.method = "list" /\ e.status = "Ok")

extract_tool_versions(exchanges, messages) ==
    LET latest  == Last(Listings(exchanges))
        listing == MessageAt(messages, latest.resp)
        tools   == IF Listings(exchanges) = <<>> THEN <<>> ELSE SetToSeq(DOMAIN listing.tools)
    IN  [i \in DOMAIN tools |-> [tool |-> tools[i], hash |-> listing.tools[tools[i]],
                                 seq |-> listing.seq, at |-> ObservedAt(latest, messages)]]

StatusFacts ==
    [Error |-> "session_has_error", ToolError |-> "session_has_error",
     OrphanResponse |-> "session_has_orphan_response",
     Unanswered |-> "session_has_unanswered_request", Cancelled |-> "session_had_cancelled_request"]

\* What one exchange adds: the tool it called, and what went wrong with it.
extract_exchange_facts(exchange, messages) ==
    LET at        == ObservedAt(exchange, messages)
        seqs      == SeqsOf(exchange)
        value     == [status |-> exchange.status, origin |-> exchange.origin]
        called    == exchange.method = "call" /\ exchange.tool # NoTool
    IN  (IF called THEN <<Fact("session_called_tool", <<"tool", exchange.tool>>, value, seqs, at)>> ELSE <<>>)
            \o (IF exchange.status \in DOMAIN StatusFacts
                THEN <<Fact(StatusFacts[exchange.status], <<"exchange", exchange.req, exchange.resp>>,
                            value, seqs, at)>>
                ELSE <<>>)

CallEdges(facts, id) ==
    LET calls == SelectSeq(facts, LAMBDA f : f.type = "session_called_tool")
    IN  [i \in DOMAIN calls |-> Edge(calls[i].type, <<"session", id>>, calls[i].object, calls[i].observed_at)]

extract_session_memory(id, messages, policy) ==
    LET model      == correlate(messages)
        versions   == extract_tool_versions(model.exchanges, messages)
        seqs       == IF messages = <<>> THEN {} ELSE {Head(messages).seq, Last(messages).seq}
        at         == IF messages = <<>> THEN 0 ELSE Last(messages).ts
        whole(type, object, value) == Fact(type, object, value, seqs, at)
        version(v) == <<"tool_version", v.tool, v.hash>>
        exchanges  == FlattenSeq([i \in DOMAIN model.exchanges |->
                                     extract_exchange_facts(model.exchanges[i], messages)])
        tools      == SetToSeq({messages[i].tool : i \in DOMAIN messages} \ {NoTool})
    IN  [facts |->
            <<whole("session_observed_server", <<"server">>, <<>>)>>
              \o [i \in DOMAIN versions |->
                     Fact("tool_has_version", version(versions[i]), <<>>, {versions[i].seq}, versions[i].at)]
              \o exchanges
              \o <<whole("session_latency_summary", <<>>,
                         compute_stats(model.exchanges, model.notifications, tools)),
                   whole("session_redaction_policy", <<>>, [policy |-> policy])>>,
         edges |->
            <<Edge("session_observed_server", <<"session", id>>, <<"server">>, at)>>
              \o [i \in DOMAIN versions |->
                     Edge("tool_has_version", <<"tool", versions[i].tool>>, version(versions[i]), versions[i].at)]
              \o CallEdges(exchanges, id),
         observations |-> versions]

\* Each version of a tool supersedes the one first seen before it, of two seen
\* at the same time the one stored first.
compute_version_supersessions(versions) ==
    LET earlier(k, l) == /\ k[1] = l[1]
                         /\ \/ versions[k].first < versions[l].first
                            \/ versions[k].first = versions[l].first /\ versions[k].row < versions[l].row
        place(k) == <<"tool_version", k[1], k[2]>>
        pairs    == {p \in (DOMAIN versions) \X (DOMAIN versions) :
                        /\ earlier(p[1], p[2])
                        /\ ~\E k \in DOMAIN versions : earlier(p[1], k) /\ earlier(k, p[2])}
    IN  SetToSeq({Edge("version_supersedes", place(p[2]), place(p[1]), versions[p[2]].first) : p \in pairs})

-----------------------------------------------------------------------------
(* The derived tables *)

\* facts, edges and observations by the session that owns them, versions by
\* the tool and the hash that identify them.
NoMemory == [facts |-> <<>>, edges |-> <<>>, versions |-> <<>>, observations |-> <<>>]

\* The rows of one session (NullSession: those of none).
Owned(rows, id) == IF id \in DOMAIN rows THEN rows[id] ELSE <<>>

\* INSERT without the DELETE before it.
InsertedBeside(rows, id, records) ==
    [owner \in DOMAIN rows \cup {id} |->
        IF owner = id THEN Owned(rows, id) \o records ELSE rows[owner]]

\* DELETE ... WHERE session_id, then INSERT.
Replaced(rows, id, records) ==
    [owner \in DOMAIN rows \cup {id} |-> IF owner = id THEN records ELSE rows[owner]]

\* INSERT ... ON CONFLICT DO UPDATE: versions are never deleted.  A session has
\* one version of a tool, so those it adds need no order among themselves.
VersionOf(seen) == <<seen.tool, seen.hash>>

Upserted(versions, id, observations) ==
    LET keys  == {VersionOf(observations[i]) : i \in DOMAIN observations}
        at(k) == observations[CHOOSE i \in DOMAIN observations : VersionOf(observations[i]) = k].at
    IN  [k \in DOMAIN versions \cup keys |->
            IF k \notin keys THEN versions[k]
            ELSE IF k \notin DOMAIN versions
            THEN [row |-> Cardinality(DOMAIN versions), first_session |-> id, first |-> at(k), last |-> at(k)]
            ELSE [versions[k] EXCEPT
                     !.first_session = IF at(k) < versions[k].first THEN id ELSE @,
                     !.first = IF at(k) < @ THEN at(k) ELSE @,
                     !.last  = IF at(k) > @ THEN at(k) ELSE @]]

Rebuilt(id, new) ==
    [facts        |-> Replaced(memory.facts, id, new.facts),
     edges        |-> Replaced(memory.edges, id, new.edges),
     versions     |-> Upserted(memory.versions, id, new.observations),
     observations |-> Replaced(memory.observations, id, new.observations)]

-----------------------------------------------------------------------------
(* index rebuild: per session three reads and one transaction, then the *)
(* versions of all sessions and the edges between them *)

Indexing == {c \in Clis : command[c].op = "index"}

indexFrame == <<commandFrame, sessions, baselines, artifact, commandsLeft>>

NextStage(left) == IF left = <<>> THEN "versions" ELSE "messages"

\* all_session_ids, or the one session named.
StartRebuild(c) ==
    LET all == [i \in DOMAIN sessions |-> i]
    IN  /\ \E ids \in {all} \cup {<<id>> : id \in SessionIds} :
              Start(c, [op |-> "index", stage |-> NextStage(ids), left |-> ids,
                        whole |-> ids = all /\ overlap.stale = {}])
        /\ UNCHANGED <<memory, overlap>>

IndexMessages(c) ==
    LET cmd == command[c]
    IN  /\ cmd.op = "index"
        /\ Read(c, "messages", [op |-> "index", stage |-> "policy", left |-> cmd.left, whole |-> cmd.whole,
                                messages |-> sessions[Head(cmd.left)].messages])
        /\ UNCHANGED <<memory, overlap>>

IndexPolicy(c) ==
    LET cmd == command[c]
        id  == Head(cmd.left)
    IN  /\ cmd.op = "index" /\ cmd.stage = "policy"
        /\ Read(c, "policy", [op |-> "index", stage |-> "write", left |-> cmd.left, whole |-> cmd.whole,
                              new |-> extract_session_memory(id, cmd.messages, sessions[id].policy)])
        /\ UNCHANGED <<memory, overlap>>

rebuild_memory_for_session(c) ==
    LET cmd == command[c]
    IN  /\ MayWrite(c) /\ cmd.op = "index" /\ cmd.stage = "write"
        /\ memory' = Rebuilt(Head(cmd.left), cmd.new)
        /\ command' = [command EXCEPT ![c] = [op |-> "index", stage |-> NextStage(Tail(cmd.left)),
                                              left |-> Tail(cmd.left), whole |-> cmd.whole]]
        /\ Commits /\ UNCHANGED <<indexFrame, overlap>>

IndexVersions(c) ==
    LET cmd == command[c]
    IN  /\ cmd.op = "index"
        /\ Read(c, "versions", [op |-> "index", stage |-> "edges", left |-> cmd.left, whole |-> cmd.whole,
                                edges |-> compute_version_supersessions(memory.versions)])
        /\ UNCHANGED <<memory, overlap>>

\* A rebuild of every session makes the index current, if no session changed
\* since it began and no rebuild, this one included, is about to write the
\* edges of a version list that has grown since.
replace_supersession_edges(c) ==
    LET cmd    == command[c]
        latest == compute_version_supersessions(memory.versions)
        whole  == /\ cmd.whole /\ c \notin overlap.stale
                  /\ \A d \in Indexing : command[d].stage = "edges" => command[d].edges = latest
    IN  /\ MayWrite(c) /\ cmd.op = "index" /\ cmd.stage = "edges"
        /\ memory' = [memory EXCEPT !.edges = Replaced(@, NullSession, cmd.edges)]
        /\ overlap' = [stale |-> overlap.stale \ {c}, current |-> overlap.current \/ whole]
        /\ Finish(c) /\ Commits /\ UNCHANGED indexFrame

IndexStep(c) ==
    \/ StartRebuild(c) \/ IndexMessages(c) \/ IndexPolicy(c) \/ rebuild_memory_for_session(c)
    \/ IndexVersions(c) \/ replace_supersession_edges(c)

\* The rest of the database takes a step.
StoreStep ==
    /\ Next
    /\ overlap' = IF sessions' # sessions THEN [stale |-> Indexing', current |-> FALSE]
                  ELSE [overlap EXCEPT !.stale = @ \cap Indexing']
    /\ UNCHANGED memory

IndexInit == Init /\ memory = NoMemory /\ overlap = [stale |-> {}, current |-> FALSE]

IndexNext == StoreStep \/ \E c \in Clis : IndexStep(c)

IndexSpec == IndexInit /\ [][IndexNext]_indexVars

-----------------------------------------------------------------------------
\* The versions table says that the version was around then.
Covered(seen) ==
    LET k == VersionOf(seen)
    IN  /\ k \in DOMAIN memory.versions
        /\ memory.versions[k].first <= seen.at /\ seen.at <= memory.versions[k].last

\* The rows of a session are what it says as it is stored now.
Reflected(id) ==
    LET expected == extract_session_memory(id, sessions[id].messages, sessions[id].policy)
    IN  /\ Owned(memory.facts, id) = expected.facts
        /\ Owned(memory.edges, id) = expected.edges
        /\ Owned(memory.observations, id) = expected.observations
        /\ \A i \in DOMAIN expected.observations : Covered(expected.observations[i])

\* After a rebuild of all sessions that no session's change and no older
\* rebuild overlapped (a reader of older sessions, or of an older version
\* list, may still write what it read), the derived tables are what the stored sessions say,
\* without leftovers or duplicates of earlier rebuilds, and stay so while
\* further rebuilds run, overlap or die (rebuild_memory_for_session:
\* "Idempotent ... never duplicates").
IndexReflectsSessions ==
    overlap.current =>
        /\ \A id \in SessionIds : Reflected(id)
        /\ Owned(memory.edges, NullSession) = compute_version_supersessions(memory.versions)
=============================================================================
