--------------------------------- MODULE Store ---------------------------------
(***************************************************************************)
(* One SQLite database (crates/mcptracer-storage/src/lib.rs) shared by     *)
(* recorders and by the commands that read it and write it back:           *)
(* baseline, export, import and merge.  Each process opens the database,   *)
(* which migrates it, and then runs.  A statement or a committed           *)
(* transaction is one step; what a command read in an earlier statement is *)
(* kept in its own state and may be stale by the time it is used.          *)
(*                                                                         *)
(* Session ids and row ids are positions: both are only ever appended.     *)
(***************************************************************************)
EXTENDS Interchange

CONSTANTS
    Recorders,        \* recording processes
    Clis,             \* other command processes
    NoProc,
    Script,           \* what each recorder captures, in order
    Recorded,         \* sessions of earlier runs
    Cassette,         \* the interactions of a .vcr file
    Names,            \* baseline names: project, scenario and environment
    LatestVersion,    \* CURRENT_SCHEMA_VERSION
    FirstVersions,    \* schema versions the file may have when it is opened
    MaxCandidates,    \* bound on the baseline rows
    MaxCrashes,       \* bound on the processes that die
    Options,          \* the export options given on a command line
    Menus,            \* which commands run together, and a bound on their number
    NoDocument

ASSUME VersionAssumption == LatestVersion \in Nat /\ FirstVersions \subseteq Nat
ASSUME OptionsAssumption == Options \subseteq ExportOptions
\* The columns of a session row, its messages, and where it comes from.
SessionRow(s) ==
    s = [ended |-> s.ended, dropped |-> s.dropped, policy |-> s.policy, transport |-> s.transport,
         total |-> s.total, messages |-> s.messages, origin |-> s.origin]

ASSUME RecordedAssumption ==
    /\ Recorded \in Seq({Recorded[i] : i \in DOMAIN Recorded})
    /\ \A i \in DOMAIN Recorded :
          /\ SessionRow(Recorded[i]) /\ Recorded[i].dropped \in Nat
          /\ Recorded[i].origin.kind \in {"record", "vcr"}
ASSUME ProcAssumption == Recorders \cap Clis = {} /\ NoProc \notin Recorders \cup Clis

VARIABLES
    schema,       \* version row, and how often each migration was applied
    writeLock,    \* the process that holds SQLite's write reservation
    conn,         \* how far each process got in Store::open
    tx,           \* its uncommitted migrations
    sessions,     \* session rows with their messages
    baselines,    \* baseline rows
    artifact,     \* the .mtrace file at the path exports are written to
    recording,    \* what each recorder still has to do
    command,      \* the command each other process runs
    snapshots,    \* processes whose read transaction is still current
    menu,         \* the commands the users of this run give
    commandsLeft,
    crashesLeft

vars == <<schema, writeLock, conn, tx, sessions, baselines, artifact, recording, command,
          snapshots, menu, commandsLeft, crashesLeft>>

Procs == Recorders \cup Clis
Idle == [op |-> "idle"]
NoTransaction == [version |-> 0, applied |-> {}]

Init ==
    /\ \E v \in FirstVersions :
          schema = [version |-> v, applied |-> [k \in 1..LatestVersion |-> IF k <= v THEN 1 ELSE 0]]
    /\ writeLock = NoProc
    /\ conn = [p \in Procs |-> "closed"]
    /\ tx = [p \in Procs |-> NoTransaction]
    /\ sessions = Recorded
    /\ baselines = <<>>
    /\ artifact = NoDocument
    /\ recording = [r \in Recorders |-> [phase |-> "new", session |-> 0, next |-> 1, lost |-> 0]]
    /\ command = [c \in Clis |-> Idle]
    /\ snapshots = {}
    /\ menu \in Menus
    /\ commandsLeft = menu.runs
    /\ crashesLeft = MaxCrashes

-----------------------------------------------------------------------------
(* Store::open *)

data == <<sessions, baselines, artifact, recording, command, snapshots, menu, commandsLeft,
          crashesLeft>>

\* The pragmas and CREATE TABLE IF NOT EXISTS schema_version.
Bootstrap(p) ==
    /\ conn[p] = "closed" /\ writeLock = NoProc
    /\ conn' = [conn EXCEPT ![p] = "ready"]
    /\ UNCHANGED <<schema, writeLock, tx, data>>

\* The read of the version and the reservation as two steps of a deferred
\* transaction: another process may hold the reservation.
BeginMigrationUnreserved(p) ==
    /\ conn[p] = "ready"
    /\ conn' = [conn EXCEPT ![p] = "migrating"]
    /\ writeLock' = p
    /\ tx' = [tx EXCEPT ![p] = [version |-> schema.version, applied |-> {}]]
    /\ UNCHANGED <<schema, data>>

\* The reservation is taken before the version is read.
BeginMigration(p) ==
    /\ conn[p] = "ready" /\ writeLock = NoProc
    /\ IF schema.version > LatestVersion
       THEN conn' = [conn EXCEPT ![p] = "failed"] /\ UNCHANGED <<writeLock, tx>>
       ELSE /\ conn' = [conn EXCEPT ![p] = "migrating"]
            /\ writeLock' = p
            /\ tx' = [tx EXCEPT ![p] = [version |-> schema.version, applied |-> {}]]
    /\ UNCHANGED <<schema, data>>

\* One round of the loop: the migration and its version row.
ApplyMigration(p) ==
    /\ conn[p] = "migrating" /\ tx[p].version < LatestVersion
    /\ tx' = [tx EXCEPT ![p] = [version |-> @.version + 1, applied |-> @.applied \cup {@.version + 1}]]
    /\ UNCHANGED <<schema, writeLock, conn, data>>

CommitMigration(p) ==
    /\ conn[p] = "migrating" /\ tx[p].version = LatestVersion
    /\ schema' = [version |-> tx[p].version,
                  applied |-> [k \in DOMAIN schema.applied |->
                                  schema.applied[k] + (IF k \in tx[p].applied THEN 1 ELSE 0)]]
    /\ conn' = [conn EXCEPT ![p] = "open"]
    /\ writeLock' = NoProc
    /\ tx' = [tx EXCEPT ![p] = NoTransaction]
    /\ UNCHANGED data

\* Waiting is bounded: at the deadline a locked database is an error.
GiveUpOpening(p) ==
    /\ conn[p] \in {"closed", "ready"} /\ writeLock # NoProc
    /\ conn' = [conn EXCEPT ![p] = "failed"]
    /\ UNCHANGED <<schema, writeLock, tx, data>>

-----------------------------------------------------------------------------
(* Writes.  Every commit ends the currency of all read transactions. *)

catalog == <<schema, writeLock, conn, tx, menu, crashesLeft>>

MayWrite(p) == conn[p] = "open" /\ writeLock = NoProc

Commits == snapshots' = {}

NewSession(summary, messages, origin) ==
    [ended |-> summary.ended, dropped |-> summary.dropped, policy |-> summary.policy,
     transport |-> summary.transport, total |-> Len(messages), messages |-> messages,
     origin |-> origin]

OpenSummary == [ended |-> FALSE, dropped |-> 0, policy |-> "none", transport |-> "stdio"]

Insert(session) == sessions' = Append(sessions, session)

\* close_session: the row count is taken in the statement that closes.
Closed(session) == [session EXCEPT !.ended = TRUE, !.total = Len(session.messages)]

-----------------------------------------------------------------------------
(* A recorder *)

recorderFrame == <<catalog, baselines, artifact, command, commandsLeft>>

create_session(r) ==
    /\ MayWrite(r) /\ recording[r].phase = "new"
    /\ Insert(NewSession(OpenSummary, <<>>, [kind |-> "record", of |-> <<>>]))
    /\ recording' = [recording EXCEPT ![r].phase = "created", ![r].session = Len(sessions) + 1]
    /\ Commits /\ UNCHANGED recorderFrame

set_redaction_policy(r) ==
    /\ MayWrite(r) /\ recording[r].phase = "created"
    /\ sessions' = [sessions EXCEPT ![recording[r].session].policy = "default"]
    /\ recording' = [recording EXCEPT ![r].phase = "running"]
    /\ Commits /\ UNCHANGED recorderFrame

\* A batch of consecutive messages lands as a whole.
write_messages(r) ==
    /\ MayWrite(r) /\ recording[r].phase = "running"
    /\ \E last \in recording[r].next..Len(Script[r]) :
          /\ sessions' = [sessions EXCEPT ![recording[r].session].messages =
                             @ \o SubSeq(Script[r], recording[r].next, last)]
          /\ recording' = [recording EXCEPT ![r].next = last + 1]
    /\ Commits /\ UNCHANGED recorderFrame

\* A frame the bounded queue did not take is only counted, later.
LoseMessage(r) ==
    /\ recording[r].phase = "running" /\ recording[r].next <= Len(Script[r])
    /\ recording' = [recording EXCEPT ![r].next = @ + 1, ![r].lost = @ + 1]
    /\ UNCHANGED <<recorderFrame, sessions, snapshots>>

increment_dropped_messages(r) ==
    /\ MayWrite(r) /\ recording[r].phase = "running" /\ recording[r].lost > 0
    /\ sessions' = [sessions EXCEPT ![recording[r].session].dropped = @ + recording[r].lost]
    /\ recording' = [recording EXCEPT ![r].lost = 0]
    /\ Commits /\ UNCHANGED recorderFrame

\* The recording may stop at any message; what was lost is counted first.
close_session(r) ==
    /\ MayWrite(r) /\ recording[r].phase = "running" /\ recording[r].lost = 0
    /\ sessions' = [sessions EXCEPT ![recording[r].session] = Closed(@)]
    /\ recording' = [recording EXCEPT ![r].phase = "ended"]
    /\ Commits /\ UNCHANGED recorderFrame

-----------------------------------------------------------------------------
(* Commands *)

commandFrame == <<catalog, recording>>

Finish(c) == command' = [command EXCEPT ![c] = Idle]

\* A command is given to a process that has opened the database.
Given(c, name) ==
    name \in menu.commands /\ conn[c] = "open" /\ command[c] = Idle /\ commandsLeft > 0

Start(c, cmd) ==
    /\ Given(c, cmd.op)
    /\ command' = [command EXCEPT ![c] = cmd]
    /\ commandsLeft' = commandsLeft - 1
    /\ UNCHANGED <<commandFrame, sessions, baselines, artifact, snapshots>>

\* One read statement of a command, and what it goes on with.
Read(c, stage, cmd) ==
    /\ command[c].op # "idle" /\ command[c].stage = stage
    /\ command' = [command EXCEPT ![c] = cmd]
    /\ UNCHANGED <<commandFrame, sessions, baselines, artifact, snapshots, commandsLeft>>

SessionIds == DOMAIN sessions

Summary(id) == [ended |-> sessions[id].ended, dropped |-> sessions[id].dropped,
                policy |-> sessions[id].policy, transport |-> sessions[id].transport]

\* create_baseline_candidate: one insert; a name may have many candidates.
create_baseline_candidate(c) ==
    /\ MayWrite(c) /\ command[c] = Idle /\ "promote" \in menu.commands /\ Len(baselines) < MaxCandidates
    /\ \E name \in Names, id \in SessionIds :
          baselines' = Append(baselines, [name |-> name, session |-> id, state |-> "candidate",
                                          digest |-> NoDocument])
    /\ Commits /\ UNCHANGED <<commandFrame, sessions, artifact, command, commandsLeft>>

\* export and baseline promote begin alike, with two separate reads.
StartExport(c) ==
    \E op \in {"export", "promote"}, id \in SessionIds, name \in Names :
        Start(c, [op |-> op, session |-> id, name |-> name, stage |-> "summary"])

ExportSummary(c) ==
    LET cmd == command[c]
    IN  /\ cmd.op \in {"export", "promote"}
        /\ \E options \in Options :
              LET policy == EffectivePolicy(Summary(cmd.session).policy, options)
              IN  Read(c, "summary",
                       IF policy = "refused" THEN Idle
                       ELSE [op |-> cmd.op, session |-> cmd.session, name |-> cmd.name,
                             stage |-> "messages", summary |-> Summary(cmd.session), policy |-> policy])

ExportMessages(c) ==
    LET cmd == command[c]
        messages == sessions[cmd.session].messages
    IN  /\ cmd.op \in {"export", "promote"}
        /\ Read(c, "messages",
                IF ~Exportable(messages, cmd.policy) THEN Idle
                ELSE [op |-> cmd.op, session |-> cmd.session, name |-> cmd.name,
                      stage |-> IF cmd.op = "export" THEN "publish" ELSE "check",
                      doc |-> MtraceDocument(cmd.summary, messages, cmd.policy)])

\* write_file: the complete file appears at once, or not at all when the path
\* is taken.
PublishArtifact(c) ==
    LET cmd == command[c]
    IN  /\ cmd.op = "export" /\ cmd.stage = "publish"
        /\ artifact' = IF artifact = NoDocument /\ \E allow \in BOOLEAN : Publishable(cmd.doc, allow)
                       THEN [doc |-> cmd.doc, of |-> cmd.session] ELSE artifact
        /\ Finish(c) /\ UNCHANGED <<commandFrame, sessions, baselines, snapshots, commandsLeft>>

\* import: the session row with its loss marks and all messages, or nothing.
import_mtrace_document(c) ==
    /\ MayWrite(c) /\ Given(c, "import")
    /\ artifact # NoDocument /\ ValidDocument(artifact.doc)
    /\ Insert(NewSession(artifact.doc, artifact.doc.messages,
                         [kind |-> "import", of |-> <<artifact.of>>]))
    /\ commandsLeft' = commandsLeft - 1
    /\ Commits /\ UNCHANGED <<commandFrame, baselines, artifact, command>>

-----------------------------------------------------------------------------
(* baseline promote, after its export *)

\* require_complete_capture reads the session again, summary first.
CheckSummary(c) ==
    LET cmd == command[c]
    IN  /\ cmd.op = "promote"
        /\ Read(c, "check", [op |-> "promote", session |-> cmd.session, name |-> cmd.name,
                             stage |-> "checkMessages", doc |-> cmd.doc, summary |-> Summary(cmd.session)])

\* What promote_baseline is called with.
Checked(cmd) == [op |-> "promote", session |-> cmd.session, name |-> cmd.name, stage |-> "select",
                 doc |-> cmd.doc]

\* The messages of the export are judged instead of being read again.
CheckExportedMessages(c) ==
    LET cmd == command[c]
    IN  /\ cmd.op = "promote"
        /\ Read(c, "checkMessages",
                IF CompleteCapture(cmd.summary, cmd.doc.messages)
                THEN Checked(cmd) ELSE Idle)

CheckMessages(c) ==
    LET cmd == command[c]
    IN  /\ cmd.op = "promote"
        /\ Read(c, "checkMessages",
                IF CompleteCapture(cmd.summary, sessions[cmd.session].messages)
                THEN Checked(cmd) ELSE Idle)

\* promote_baseline: a deferred transaction that first selects the candidate.
SelectCandidate(c) ==
    LET cmd  == command[c]
        rows == {i \in DOMAIN baselines : /\ baselines[i].name = cmd.name
                                          /\ baselines[i].session = cmd.session
                                          /\ baselines[i].state = "candidate"}
    IN  /\ cmd.op = "promote" /\ cmd.stage = "select"
        /\ IF rows = {} THEN Finish(c) /\ UNCHANGED snapshots
           ELSE \E row \in rows :
                   /\ command' = [command EXCEPT ![c] =
                          [op |-> "promote", session |-> cmd.session, name |-> cmd.name,
                           stage |-> "update", doc |-> cmd.doc, row |-> row]]
                   /\ snapshots' = snapshots \cup {c}
        /\ UNCHANGED <<commandFrame, sessions, baselines, artifact, commandsLeft>>

\* Without the update of the row approved before.
PromotedBeside(cmd) ==
    [baselines EXCEPT ![cmd.row].state = "approved", ![cmd.row].digest = CanonicalDigest(cmd.doc)]

\* Supersedes every other row of the name, whatever became of it.
PromotedOverAll(cmd) ==
    [i \in DOMAIN baselines |->
        IF i = cmd.row THEN [baselines[i] EXCEPT !.state = "approved", !.digest = CanonicalDigest(cmd.doc)]
        ELSE IF baselines[i].name = cmd.name THEN [baselines[i] EXCEPT !.state = "superseded"]
        ELSE baselines[i]]

Promoted(cmd) ==
    [i \in DOMAIN baselines |->
        IF i = cmd.row THEN [baselines[i] EXCEPT !.state = "approved", !.digest = CanonicalDigest(cmd.doc)]
        ELSE IF baselines[i].name = cmd.name /\ baselines[i].state = "approved"
        THEN [baselines[i] EXCEPT !.state = "superseded"]
        ELSE baselines[i]]

\* Turning the read transaction into a write one fails when anything was
\* committed since the read (SQLITE_BUSY_SNAPSHOT).
CurrentSnapshot(c) == c \in snapshots

promote_baseline(c) ==
    LET cmd == command[c]
    IN  /\ MayWrite(c) /\ cmd.op = "promote" /\ cmd.stage = "update"
        /\ IF CurrentSnapshot(c) THEN baselines' = Promoted(cmd) /\ Commits
           ELSE UNCHANGED <<baselines, snapshots>>
        /\ Finish(c) /\ UNCHANGED <<commandFrame, sessions, artifact, commandsLeft>>

revoke_baseline(c) ==
    /\ MayWrite(c) /\ Given(c, "revoke")
    /\ \E name \in Names :
          /\ \E i \in DOMAIN baselines : baselines[i].name = name /\ baselines[i].state = "approved"
          /\ baselines' = [i \in DOMAIN baselines |->
                 IF baselines[i].name = name /\ baselines[i].state = "approved"
                 THEN [baselines[i] EXCEPT !.state = "revoked"] ELSE baselines[i]]
    /\ commandsLeft' = commandsLeft - 1
    /\ Commits /\ UNCHANGED <<commandFrame, sessions, artifact, command>>

-----------------------------------------------------------------------------
(* merge: a summary and the messages of each source in turn, then one insert *)

StartMerge(c) ==
    \E ids \in SessionIds \X SessionIds :
        Start(c, [op |-> "merge", of |-> ids, stage |-> "summary",
                  summaries |-> <<>>, messages |-> <<>>])

MergeSummary(c) ==
    LET cmd == command[c]
        at  == Len(cmd.summaries) + 1
    IN  /\ cmd.op = "merge"
        /\ Read(c, "summary",
                IF \E i \in 1..(at - 1) : cmd.of[i] = cmd.of[at] THEN Idle
                ELSE [cmd EXCEPT !.summaries = Append(@, Summary(cmd.of[at])), !.stage = "messages"])

MergeMessages(c) ==
    LET cmd == command[c]
        at  == Len(cmd.messages) + 1
    IN  /\ cmd.op = "merge"
        /\ Read(c, "messages",
                [cmd EXCEPT !.messages = Append(@, sessions[cmd.of[at]].messages),
                            !.stage = IF at < Len(cmd.of) THEN "summary" ELSE "insert"])

\* The summaries are read again when the row is written.
InsertLateSummaries(cmd, summaries) ==
    Insert(NewSession(MergedSummary([i \in DOMAIN cmd.of |-> Summary(cmd.of[i])]),
                      MergedMessages(cmd.messages, FALSE),
                      [kind |-> "merge", of |-> cmd.of, deduplicated |-> FALSE]))

\* The row and its messages; --deduplicate leaves out repeated calls.
InsertMerged(cmd, summaries) ==
    \E deduplicate \in BOOLEAN :
        Insert(NewSession(MergedSummary(summaries), MergedMessages(cmd.messages, deduplicate),
                          [kind |-> "merge", of |-> cmd.of, deduplicated |-> deduplicate]))

merge_sessions(c) ==
    LET cmd == command[c]
    IN  /\ MayWrite(c) /\ cmd.op = "merge" /\ cmd.stage = "insert"
        /\ IF Mergeable(cmd.summaries) THEN InsertMerged(cmd, cmd.summaries) /\ Commits
           ELSE UNCHANGED <<sessions, snapshots>>
        /\ Finish(c) /\ UNCHANGED <<commandFrame, baselines, artifact, commandsLeft>>

-----------------------------------------------------------------------------
(* import_vcr: three transactions *)

ImportVcrCreate(c) ==
    /\ MayWrite(c) /\ Given(c, "vcr") /\ CassetteAccepted(Cassette)
    /\ Insert(NewSession(OpenSummary, <<>>, [kind |-> "vcr", of |-> <<>>]))
    /\ command' = [command EXCEPT ![c] = [op |-> "vcr", stage |-> "write", session |-> Len(sessions) + 1]]
    /\ commandsLeft' = commandsLeft - 1
    /\ Commits /\ UNCHANGED <<commandFrame, baselines, artifact>>

ImportVcrWrite(c) ==
    LET cmd == command[c]
    IN  /\ MayWrite(c) /\ cmd.op = "vcr" /\ cmd.stage = "write"
        /\ sessions' = [sessions EXCEPT ![cmd.session].messages = cassette_to_messages(Cassette)]
        /\ command' = [command EXCEPT ![c] = [op |-> "vcr", stage |-> "close", session |-> cmd.session]]
        /\ Commits /\ UNCHANGED <<commandFrame, baselines, artifact, commandsLeft>>

ImportVcrClose(c) ==
    LET cmd == command[c]
    IN  /\ MayWrite(c) /\ cmd.op = "vcr" /\ cmd.stage = "close"
        /\ sessions' = [sessions EXCEPT ![cmd.session] = Closed(@)]
        /\ Finish(c) /\ Commits /\ UNCHANGED <<commandFrame, baselines, artifact, commandsLeft>>

-----------------------------------------------------------------------------
\* A process dies: its open transaction is rolled back and its locks go.
Crash(p) ==
    /\ conn[p] \in {"migrating", "open"} /\ crashesLeft > 0
    /\ crashesLeft' = crashesLeft - 1
    /\ conn' = [conn EXCEPT ![p] = "closed"]
    /\ writeLock' = IF writeLock = p THEN NoProc ELSE writeLock
    /\ snapshots' = snapshots \ {p}
    /\ command' = [c \in Clis |-> IF c = p THEN Idle ELSE command[c]]
    /\ recording' = [r \in Recorders |-> IF r = p /\ recording[r].phase # "new"
                                         THEN [recording[r] EXCEPT !.phase = "ended"] ELSE recording[r]]
    /\ tx' = [tx EXCEPT ![p] = NoTransaction]
    /\ UNCHANGED <<schema, sessions, baselines, artifact, menu, commandsLeft>>

OpenStep(p) ==
    \/ Bootstrap(p) \/ BeginMigration(p) \/ ApplyMigration(p) \/ CommitMigration(p) \/ GiveUpOpening(p)

RecorderStep(r) ==
    \/ create_session(r) \/ set_redaction_policy(r) \/ write_messages(r) \/ LoseMessage(r)
    \/ increment_dropped_messages(r) \/ close_session(r)

CommandStep(c) ==
    \/ create_baseline_candidate(c) \/ StartExport(c) \/ ExportSummary(c) \/ ExportMessages(c)
    \/ PublishArtifact(c) \/ import_mtrace_document(c)
    \/ CheckSummary(c) \/ CheckMessages(c) \/ SelectCandidate(c) \/ promote_baseline(c) \/ revoke_baseline(c)
    \/ StartMerge(c) \/ MergeSummary(c) \/ MergeMessages(c) \/ merge_sessions(c)
    \/ ImportVcrCreate(c) \/ ImportVcrWrite(c) \/ ImportVcrClose(c)

Next ==
    \/ \E p \in Procs : OpenStep(p) \/ Crash(p)
    \/ \E r \in Recorders : RecorderStep(r)
    \/ \E c \in Clis : CommandStep(c)

Spec == Init /\ [][Next]_vars

-----------------------------------------------------------------------------
(* Properties *)

\* However many processes open the file at once and wherever one of them dies,
\* every migration up to the stored version was applied exactly once
\* (init_schema_once; a second ALTER TABLE would fail or lose data).
MigratedOnce ==
    \A k \in DOMAIN schema.applied : schema.applied[k] = IF k <= schema.version THEN 1 ELSE 0

\* A name never resolves to two approved baselines, whoever promotes and
\* revokes concurrently (resolve_approved_baseline takes the first row).
OneApproved ==
    \A i, j \in DOMAIN baselines :
        (baselines[i].name = baselines[j].name /\ baselines[i].state = "approved"
            /\ baselines[j].state = "approved") => i = j

\* A row is approved once, with one digest: a promotion that raced another
\* one, or a revocation, never brings back what they settled.
BaselineLifecycle ==
    [][\A i \in DOMAIN baselines :
          \/ baselines'[i] = baselines[i]
          \/ baselines[i].state = "candidate" /\ baselines'[i].state = "approved"
          \/ /\ baselines[i].state = "approved" /\ baselines'[i].state \in {"superseded", "revoked"}
             /\ baselines'[i].digest = baselines[i].digest]_vars

\* Whatever was ever approved is, as it stands in the database, a finished
\* capture without loss, even when it was promoted while still recording.
ApprovedIsComplete ==
    \A i \in DOMAIN baselines :
        baselines[i].state # "candidate" =>
            CompleteCapture(Summary(baselines[i].session), sessions[baselines[i].session].messages)

\* Content without the sequence numbers a merge gives anew, and without the
\* masking an export may add.
Content(messages) == [i \in DOMAIN messages |-> [messages[i] EXCEPT !.seq = 0, !.bare = {}]]

Orphans(messages) == CountOf(correlate(messages).exchanges, {"OrphanResponse"})

Calls(messages) == {messages[i].call : i \in DOMAIN messages} \ {NoCall}

\* What a copied session takes from its sources, as they are stored now.
Sources(copy) == [i \in DOMAIN copy.origin.of |-> sessions[copy.origin.of[i]]]

ClosedCopy(s) == s.ended /\ s.origin.kind \in {"import", "merge"}

Deduplicated(s) == s.origin.kind = "merge" /\ s.origin.deduplicated

\* The sources have ended, and all they hold and lost is in the copy.
WholeCopy(copy) ==
    LET sources == Sources(copy)
    IN  /\ \A i \in DOMAIN sources : sources[i].ended
        /\ copy.dropped = Total([i \in DOMAIN sources |-> sources[i].dropped])
        /\ ~Deduplicated(copy) =>
              Content(copy.messages) = Content(FlattenSeq([i \in DOMAIN sources |-> sources[i].messages]))

\* An imported or merged session that claims to be finished holds every
\* message its sources have and all they lost: a copy taken while a source is
\* being written never passes for a finished recording.
ClosedCopyIsWhole ==
    \A id \in SessionIds : ClosedCopy(sessions[id]) => WholeCopy(sessions[id])

\* A deduplicated merge of finished sessions holds every call of its sources
\* once, and no response loses the request it answers, although a request is
\* removed before its response is seen and ids are used again.
DeduplicationKeepsCalls ==
    \A id \in SessionIds :
        LET copy    == sessions[id]
            sources == Sources(copy)
            all     == FlattenSeq([i \in DOMAIN sources |-> sources[i].messages])
        IN  ClosedCopy(copy) /\ Deduplicated(copy) =>
                /\ Calls(copy.messages) = Calls(all)
                /\ \A i, j \in DOMAIN copy.messages :
                      copy.messages[i].call = copy.messages[j].call
                         => i = j \/ copy.messages[i].call = NoCall
                /\ Orphans(copy.messages) <=
                      Total([i \in DOMAIN sources |-> Orphans(sources[i].messages)])

\* A finished session is never written again: whoever read that it ended may
\* read its messages later (merge, export and promotion do), whatever recorders,
\* imports and other commands do meanwhile and wherever they die.
FinishedSessionsAreFinal ==
    [][\A id \in SessionIds :
          sessions[id].ended => id \in DOMAIN sessions' /\ sessions'[id] = sessions[id]]_vars

\* The digest stored with an approved baseline identifies the session it
\* names (promote_baseline: "computed over the same session").
DigestIdentifiesSession ==
    \A i \in DOMAIN baselines :
        baselines[i].state = "approved" =>
            LET session == sessions[baselines[i].session]
            IN  baselines[i].digest.ended = session.ended
                    /\ Len(baselines[i].digest.messages) = Len(session.messages)
=============================================================================
