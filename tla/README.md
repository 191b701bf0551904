# mcptracer: a TLA+ verification project

mcptracer sits between an MCP client and an MCP server, forwards their traffic
unchanged, records it in a SQLite database and later replays, validates and
compares what it recorded. Its central promise is about evidence: *recording
must never hold up or alter forwarding, and whatever was not recorded must be
visible as a loss before anyone relies on the session*. This directory models
the recorders that make that promise, the database that keeps what they
recorded, and the commands that use it: baselines, export, import, merge, the
derived index, replay over stdio and HTTP, the mock server, the diff gate and
the configuration of clients. TLC checks all of it on small instances; TLAPS
proves the central properties of the recorders, of the database's migrations,
baselines, copies and derived index, of both replays and of client setup for every
size.

## The system

Sources are under `src/crates/`; commands are in
`mcptracer-proxy/src/commands/`.

| component | source | state it keeps | operations | what makes it hard |
|---|---|---|---|---|
| recording pipeline | `mcptracer-proxy/src/session_writer.rs` | shared sequence, drop counter, byte budget, bounded channel; the writer thread's reorder buffer, batches, failure flags | `drain_frames`, `try_record`, `spawn_storage_writer`, `finish_storage_writer` | lock-free reservation, records out of order, a full queue, failing statements, a crash |
| stdio recorder | `record.rs`, `shutdown.rs` | the server process, two pumps, counted stop requests, the session | setup, `coordinate_pumps`, finalize, `reap_server` | a `select!` between stop requests, ends of input, timeouts and exits; exit status |
| HTTP recorder | `record_http.rs` | registry of recordings, semaphores, leases, a task set, per-exchange queues and flags | `admit_capture`, `resolve_session`, `release_exchange`, reaper, shutdown; `forward_request_body`, `capture_response_body`, `ResponseCaptureTap` | many tasks on one registry, cancelled handlers, a response cut anywhere, DELETE during other exchanges |
| redaction context | `mcptracer-redact/src/context.rs` | pending `tools/list` ids, previous sequence | `observe` | writer and readers must derive the same context from different views |
| redaction engine | `mcptracer-redact/src/lib.rs` | a policy | mask, find unredacted keys, lint | writer, validator and exporter must agree on a fixed point |
| session health, correlation | `session_health.rs`, `mcptracer-model/src/lib.rs` | none | `correlate`, `validate_session`, `assess_capture` | ids reused, duplicated, answered late or by the wrong side |
| protocol framing, SSE | `mcptracer-protocol` | decoder buffers | `parse_stdio_frame`, `SseDecoder` | arbitrary chunk boundaries, size caps |
| storage | `mcptracer-storage` | schema version, sessions, messages, baselines, files | `Store::open` and its migrations, recorder statements, `promote_baseline`, `revoke_baseline`, `merge_sessions`, export and import | several processes on one file, what one statement read is stale in the next, a process that dies in between |
| derived index | `mcptracer-intel`, `index.rs`, `mcptracer-storage` | facts, edges, tool versions, observations | `index rebuild` | idempotence, overlapping rebuilds |
| replay | `replay.rs`, `replay_http.rs`, `mcptracer-model/src/plan.rs` | place in the plan, pending answers, subscription tasks, the session it writes | drive a plan against a live server | late, missing, repeated and unsolicited answers, full pipes, timers |
| mock server | `serve.rs`, `mcptracer-model/src/serve.rs` | which recorded responses are used | match a live request | the same request twice, strategies |
| session diff | `mcptracer-model/src/diff.rs` | none | alignment, comparison, catalogs, schema explanations | order, repeated requests, masked values |
| client setup | `setup.rs` | a client's configuration, its backup, ownership metadata, temporary files | setup, `--all`, undo | a failure or a death between two file operations, edits in between |
| the rest | `main.rs`, `inspect.rs`, reports, quota, optimize, eval, otel, search, wrappers | none of their own | formatting, scoring, launching | little that a model would add to |

How they interact: a recorder's pumps (stdio) or exchange tasks (HTTP) share one
sequence counter, drop counter, budget and channel per session with one storage
writer thread; the recorder stops its pumps, freezes the drop counter into a
`Close` event and waits for the writer, which alone touches the database.
Everything else opens the same database in other processes, some of them while a
recorder is still writing, and decides by `assess_capture` whether a session may
be used as evidence. Replays write new sessions through the same pipeline.

What makes each part correct: the pipeline must be exact about bytes and losses
and must finish; the stdio recorder must close the session before it waits for
anything else, must end, and must earn its exit status; the HTTP recorder must
never finalize a recording under a live exchange, must publish every loss, must
never store a truncated body as a message; the redaction context a writer used
must be the one its readers derive, and what it masked must pass their checks; a
decoder must not depend on how its input was cut; a baseline must name one
approved, complete session at a time; no copy of a growing session may pass for a
finished one; a rebuilt index must say what the sessions say; a replay must send
each message once, wait for the right answer and leave honest evidence; the diff
must be silent exactly when nothing changed; setup must never lose what the user
wrote.

## Modules

| module | models | kind |
|---|---|---|
| `RedactionContext` | `RedactionContextTracker::observe` | operators |
| `SessionWriter` | `session_writer.rs` and the rows it leaves; the refinement mapping to `CaptureLog` | state machine |
| `CaptureLog` | what a recording promises: forwarded frames become stored or stay unaccounted, and a close declares how many were lost | abstract specification |
| `MCSessionWriter` | payloads for TLC | TLC instance |
| `RecordLifecycle` | `record.rs` and `shutdown.rs` as one process from start to exit | state machine |
| `HttpRegistry` | many exchanges against the registry, semaphores, reaper and shutdown of `record_http.rs` | state machine |
| `HttpCapture` | one exchange of `record_http.rs` from the first request byte to the finalized recording | state machine |
| `SessionWriterProofs`, `RecordLifecycleProofs`, `HttpRegistryProofs`, `HttpCaptureProofs`, `StoreProofs`, `ReplayProofs`, `ReplayHttpProofs`, `ClientSetupProofs` | theorems about the module each is named for | TLAPS proofs |
| `Correlation` | `correlate`, `validate_session`, statistics | operators |
| `SessionHealth` | `assess_capture` (extends `Correlation`) | operators |
| `Interchange` | export gate, `.mtrace` validation, digest, merge deduplication, `.vcr` (extends `SessionHealth`) | operators |
| `Store` | one database, its processes and their commands (extends `Interchange`) | state machine |
| `MemoryIndex` | extraction and `index rebuild`, composed with `Store` | state machine |
| `ReplayPlan` | which messages a replay sends (extends `Correlation`) | operators |
| `Replay` | `replay.rs` with its two pipes and a live server | state machine |
| `HttpRequest` | headers, filters and expectations of one replayed HTTP request | operators |
| `ReplayHttp` | `replay_http.rs` with its subscription tasks and a live target | state machine |
| `ClientSetup` | `setup.rs` on a file system that may fail | state machine |
| `Json` | JSON values as trees | operators |
| `Diff`, `SchemaChange`, `Redaction`, `Framing`, `MockServer` | the pure algorithms | operators |
| `Analysis` | their reference definitions, and the enumeration of their inputs | state machine over inputs |
| `MCStore`, `MCReplay`, `MCReplayHttp`, `MCClientSetup`, `MCAnalysis` | sessions, options, values | TLC instances |

Operators that are named for a bug (`ReleasableEarly`, `ForgetsFailed`,
`InsertedBeside`, `MatchesAny`, ...) stand right before the definition they
differ from. No specification uses them: replacing the definition by the
variant must make the named property fail, which shows that the property is
sensitive to that line of the code.

### SessionWriter

`ReadFrame` takes a sequence number before the bytes are written, exactly as
`reserve_capture_stamp` does; `Forward` is the successful `write_all` and
`flush`; `LoadBudget`, `CasBudget` and `TrySend` are the three shared-memory
accesses of `try_record` and may interleave with the other pump and with the
writer. `seen` is the value the compare-exchange expects. The pumps are
abstract tasks with a direction: in the stdio recorder there are two, in the
HTTP recorder any number of body tasks share the same code, so the module takes
the set as a parameter.

The writer thread is a loop over `wpc`: `RecvFirst` (the blocking `recv`),
`RecvMore` (`try_recv` up to the batch size), `ReleaseNext` (the head of the
`BTreeMap` leaves if it is in sequence, if the session is closing, or under
pressure) with `observe` merged in, `CommitChunk` or `ChunkFails` per
transaction, `FreeReservation` (each `QueueReservation::drop` is an atomic
subtraction another thread can see), then `AccountDrops` and `CloseSession`.
`finisher` is the code after the pumps: `StopPumps` (both futures are dropped),
`SendClose` (a blocking send), `AwaitResult`.

`CancelMidForward` allows what dropping a pump at `flush().await` does with
tokio's stdout: the bytes may already be with its blocking thread.
`StoreFaults` lists the SQLite statements that may fail, `CrashPossible` allows a
kill at any step; the database variables are what survives.

Abstracted: payloads are records with a shape, an id and a size; the redaction
itself is the choice of context; timestamps are left out. Not modelled: a writer
thread that has panicked (`Disconnected`) and the cfg(test) barriers.

### RecordLifecycle

`stage` follows `run`: setup, pumping, draining, noting the stop, finalizing,
reaping, killing, deciding, exited. Stop requests are a counter with a
seen-count, as `tokio::sync::watch` has; `UnseenStop` is what `changed()` waits
for. Either pump is reading or blocked in a write; `Polled` says which futures the
code polls at this stage. The client, the server and the operating system are the
environment. The pipeline is one step here (`FinishStorage`), with the outcomes
`SessionWriter` has.

### HttpRegistry

Each exchange walks through `Arrive`, `RetireIdle`, `JoinRecording` or
`StartRecording` or `CannotResolve`, `ChargeRefusal` when it was refused, then the
drop of its last `CaptureLease` clone and `Release`. Its tasks count a loss while
they hold the lease (`LoseMessage`). The response tap holds no lease, only the
counter: it sets its flag while the response task waits for it (`TapMarks`), but may
count in a later step (`TapCounts`), after the release, the finalization or even the
return of `run`. `loss` tells the losses apart, `Finalize` turns those that are
marked and not counted into `outrun` ones. One action is one critical section of the registry mutex: what the
code does under one lock is one step and what it does under two is two.
A recording is named by the exchange that created it, so a key that is reused
names a different recording. `Finalize` is one detached or awaited
`finalize_session_entry`; the writer permit returns with it. Shutdown is
`ServeEnds`, `ReaperEnds`, `TasksJoined`, `AllReleased`, `CloseAll`,
`AllFinalized`, `Return`, in the order of `run`.

### HttpCapture

The client, the upstream (through reqwest), the request task, the response
stream with its tap, the response task and the lease are separate processes that
share the two channels, the tap's flag and the recording's counters. The tap's
`mark_incomplete` is two steps, because the flag is swapped before the loss is
counted and the other task reads the flag.

### Store and MemoryIndex

A process opens the database (`Bootstrap`, `BeginMigration`, `ApplyMigration`,
`CommitMigration`, or `GiveUpOpening`): `schema` counts how often each migration was
applied, `tx` holds the uncommitted ones and `writeLock` is SQLite's write
reservation. After that one action is one statement or one transaction. What a
command read in an earlier one is kept in `command[c]` and may be stale when it
is used: `CheckSummary` and `CheckMessages` of a promotion, `ExportSummary` and
`ExportMessages`, `MergeSummary` and `MergeMessages` are separate steps because
they are separate statements. A transaction that read first and then wants to
write fails if anyone committed in between (`snapshots`). The recorder is the
sequence of statements `SessionWriter` issues (`create_session` to
`close_session`). `Crash` ends any process anywhere; its transaction is rolled back
and its files stay.

Messages carry the columns the commands look at: direction, kind, id, method,
tool, the tracker's shape, whether they hold an unmasked key, which call they belong
to, the tool versions a listing shows. A digest is the exported content itself.

`MemoryIndex` adds the derived tables and `index rebuild`, one action per read or
transaction of `index.rs`. Facts, edges and observations are kept by the session that
owns them (edges between versions by none) and replaced as a whole; versions are kept by
tool and hash and only widened. A rebuild that began before a change of the sessions
is marked in `overlap`; so is whether the last complete rebuild is still current.

### Replay and ReplayHttp

`Replay` follows `run` and `drive`: `Send` and `SendCancellation` put a frame in a
bounded pipe, `ReadStdout` and `TakeFrame` read and judge one frame,
`AnswerServer` answers a request of the server from the recording, `Expire` and
`EndOfOutput` give up. The server is external: it reads, answers what it has
read whenever and as often as it likes, speaks on its own, blocks or exits.
`owed` keeps which source request an answer is for, which the program cannot see and
the properties compare with.

`ReplayHttp` sends one message after the other (`Post`, `Respond`, `ReadBody`,
`Answered`), retries a multi-round request with the state the target sent, and
opens a task per `subscriptions/listen` stream that runs beside later
requests (`SubscriptionFrame`, `SubscriptionEnds`), is looked at between messages
(`CheckSubscriptions`), awaited with a timer at the end (`SettleCheck`,
`SettleExpires`) and aborted without being awaited on failure
(`AbortTakesEffect`).

### ClientSetup

Five files per client: the configuration, its backup, the metadata and two
temporary files. One action is one file operation, which may fail, leave half a
file (`HalfPut`), or be the last thing the command does. `kept` is the last text
the user wrote and did not agree to lose, `raced` the paths edited between a
command's read and its rename.

### Analysis

The pure functions have no steps of their own. A behaviour picks a pair of inputs
and edits one of them a bounded number of times, so TLC visits every session,
schema, masked value, chunking or request sequence a few edits away from the given
ones and compares the translated algorithm with a definition written differently:
`Trace` tells the story of each request by looking at the messages around it,
`Accepts` is the meaning of JSON Schema, the whole stream is the reference for
its chunks.

## What the runs check

Every passing run finishes in under five minutes on two workers.

* **session_writer** (about 1,046,000 states). Two pumps, three frames, a channel of
  two, a budget of four bytes, batches and a reorder buffer of two, failing batch and
  close statements, a crash anywhere. `BudgetExact`: reserved bytes are exactly
  those of records between reservation and write. `HealthyIsComplete`: a session
  that `assess_capture` would accept holds every frame a peer received.
  `ContextAgreement`: the redaction context of each row of such a session is the
  one a reader derives from the rows. `InOrderUntilLoss`: rows are committed in
  capture order until a loss was noted. `ImplementsCaptureLog`: every behaviour is
  one of `CaptureLog`.
* **session_writer_faults**. Every statement may fail and every list request
  overflows the tracker's id bound. `CleanExitIsComplete`: success of
  `finish_storage_writer` means a closed session without loss holding all forwarded
  frames. `FinishTerminates`: finalizing ends.
* **record_lifecycle**. `ZeroExitIsEarned`, `FreshStopCutsReap` (the request that
  ended forwarding does not also cut the reap short), `StopTerminates`
  (after a stop request the recorder ends, whatever server and client do).
* **http_registry** (about 1,456,000 states). Three exchanges, at most two recordings.
  `LeaseKeepsOpen`; `LossIsPublished` and `ExitIsAccounted`, which cover every loss but
  that of a tap outrun by the finalization (the window `http_overflow` shows);
  `ShutdownTerminates`.
* **http_capture** (about 504,000 states). One exchange with a JSON, SSE or
  uncaptured response, with and without declared lengths. `CompleteUnlessOutrun`,
  `FaithfulRecords` (no truncated body is a record, and a request comes before the
  response to it), `PermitComesBack`.
* **store** (about 759,000 states). One recorder and two command processes on a file
  of an older, or a newer, version. `MigratedOnce`: each migration is applied once
  whoever opens and dies. `OneApproved`, `BaselineLifecycle`: a name has one approved
  baseline and no race brings back what another settled. `ApprovedIsComplete`:
  what was approved is a finished capture without loss, even when it was
  promoted while recording went on. `ClosedCopyIsWhole`: an imported or merged session
  that claims to be finished holds all its sources have and all they lost; one merged
  with deduplication may lack messages, and `DeduplicationKeepsCalls` says which: each
  call of the sources is still there, once, and no response lost its request. (The
  recorded source uses one id for two calls. Which of two equal calls stays is
  decided by the order of the sources, so an unanswered one may.)
  `IndexReflectsSessions`: a complete rebuild leaves exactly what the sessions say.
* **replay**. `SentOnceInOrder`, `PacedByAnswers` (only the request's own answer ends
  the wait for it), `ReplayIsWhole` (a replay that ends well and gave nothing up
  leaves no unanswered request), `ReplayEnds` (it ends, or waits for good in a write
  to a running server that no longer reads).
* **replay_http**. `RetriesAreLive`, `SubscriptionEvidence`, `NothingAfterClose`,
  `HttpReplayEnds`.
* **client_setup**. `UserTextSurvives`, `WrappedIsUndoable` (with `BackupIsPristine`: no
  backup holds what setup wrote).
* **analysis** (about 99,000 states). `DiffAgreesWithTraces`,
  `MaskingAddsNoDifference` (property names of tool schemas, requests and answers;
  the values inside tool definitions that `DriftOfValues` names do become tool drift,
  see the table below), `WideningClaimsAreSound`, `MaskedIsClean`, `ChunkingIsInvisible`,
  `RepliesAreRecorded`.

Two runs end in a violation, where the program and its own text disagree:

* **http_overflow**: the response tap sets its flag before it counts the loss; an
  SSE task that sees the flag can finalize the recording with a count of zero in
  between. `CompleteUnlessOutrun` in the passing run is completeness with exactly
  this window excluded, so nothing else can break it.
* **replay_early_exit**: a server that exits before it answers leaves a replay that
  reports success; the specification of replay says it exits non-zero.

### Other disagreements with the documents

Found while modelling. Each property below is defined in its module, holds in no
run, and can be reproduced by changing the named cfg.

| text | what the model shows | how |
|---|---|---|
| `docs/architecture/overview.md:15-16`, dropped counts make incomplete evidence visible | a stop request can drop a pump at `flush().await` after the frame reached the client; it is neither stored nor counted | `SessionWriter.cfg` with `CancelMidForward = TRUE`, `HealthyIsComplete` |
| `session_writer.rs:1057-1060`, a session with persistence loss must fail health validation | if the batch and the accounting statement both fail and the close succeeds, the database shows a healthy session; the command fails | `SessionWriter.cfg` with `"dropped"` in `StoreFaults`, `HealthyIsComplete` |
| `docs-site/src/guide/recording.md:33-34`, recording stops as soon as the client closes stdin | a client that closes stdin while the recorder is blocked writing to a server that does not read is not noticed | `RecordLifecycle`, `ReadingClientSpec`, `ClientCloseStops` |
| `docs-site/src/guide/recording.md:48-49`, a stop request exits with zero | one that brings the server down while a frame is written to it exits with an error | `RecordLifecycle`, `StopRequestExitsZero` |
| `docs/spec/transport-http.md:172-174`, an omitted exchange also adds to the dropped count of its recording | one refused by a retiring recording that is released between the two critical sections of `admit_capture` is charged to nothing | `HttpRegistry`, `RefusalIsCharged` |
| `docs/spec/schema-change-explanations.md:80-84`, schema-valued `additionalProperties` are unclassified | replacing one such schema by another yields no finding (`diff.rs:1225-1231`) | `Analysis`, `SchemaValuedIsUnclassified` |
| `docs/spec/diff.md:67-68` and `:128`, a redacted field is not a difference | bodies follow it (`compare_values`), tool definitions do not: `diff_tools` compares with `!=` (`diff.rs:1708`, `1722`), so a sensitive value under `default` or in the annotations of a tool becomes tool drift when one of two equal sessions was recorded with `--redact` | `Analysis`, `MaskingIsNoDrift` |
| `docs/spec/http-replay.md:124-127`, a non-2xx status fails the whole run | when the body of the rejection does not arrive in time, the message counts as timed out and the run goes on | `ReplayHttp`, `RejectionFails` |
| `docs/spec/baselines.md:43`, promotion records the digest of the promoted session | it is computed from an export taken in an earlier statement; a recorder may have written in between | `Store`, `DigestIdentifiesSession` |
| `index.rs:80-81`, edges are recomputed from the full version set | of two overlapping rebuilds, the one that listed the versions earlier may write its edges last | `MemoryIndex`: the `overlap.current` condition of `IndexReflectsSessions` excludes it |

Smaller observations, each visible in the definition named: the schema analyzer
calls the removal of a property from a closed object a widening
(`Undeclared`); reaching the finding limit inside one node leaves no limit
finding (`KeywordFindings`); the mock server leaves exchanges with a tool error
out of its inventory (`MockServer`); orphan responses and unparsable payloads take no
part in a diff (`Diff`); whether an oversized line reaches the frame limit of the
stdio reader depends on the chunks, which `ChunkingIsInvisible` allows for; an edit
between setup's read and its rename is lost (`raced`), and a temporary file a
crash left blocks later replacements; `replay` has no timeout on a write to a
server that does not read, and `replay-http` none on a DELETE or on the body of a
refused listen request.

### Bounds

`MaxFrames = 3` with a batch size, a channel and a reorder limit of two lets each
limit be hit, and one record be left over, while both pumps and the writer are
in the middle of a step. A byte limit of four with payloads of one to three bytes
lets a reservation be refused, retried and oversize. Two pumps are enough to
reverse any pair in the channel. `MaxStops = 2` covers the request that ends
forwarding and one that is seen late or cuts the reap. Three exchanges on two keys
give a DELETE or a stateless exchange, one that shares its recording, and one that
reuses the key afterwards.

`Store`: the file starts at version 1 of 3, so that two migrations can be
interleaved or interrupted, or at a version from the future. `Menus` says which
commands run together and how many of them: two of promote and revoke, of export and import, of
index rebuild, one merge, each beside a recorder of three messages. Every race
is between two commands or a command and the recorder, so larger menus repeat what
these show. `OpenedFirst` is a state constraint: data changes only once every
process has opened the file or died; opening touches no data, so the order
between one process's opening and another's statements shows nothing new. The
two command processes are symmetric. One process may die.

`Replay`: a pipe of two frames and three frames by the server let it block, answer
twice, answer late and ask back in one replay; the sources are the shapes the planner
distinguishes. `ReplayHttp`: one retry round beyond the first and four frames
received. `ClientSetup`: three commands (setup, something, undo), one edit, two
failures. `Analysis`: three edits of sessions and schemas, streams of three lines
cut twice, three live requests; the schema limits are reached with depth one and
three nodes.

The numeric constants of the code (4096, 16 MiB, 128) only matter by being
reached, which is what the small values do.

### Fairness

`FairSpec` of `SessionWriter` assumes that the operating system schedules the
writer thread and the finishing task; pumps and peers owe nothing, which is enough
because `StopPumps` is only asked about once it has happened. `RecordLifecycle`
assumes that the recorder takes the steps it can take, that its timers fire,
that an end of input is read and that a write to a closed pipe fails; the
operator, the client and the server owe nothing. `HttpRegistry` and `HttpCapture`
assume that tasks are scheduled and that an exchange ends: `record-http` has no
timeout of its own, so graceful shutdown depends on its peers, and the properties
are stated under that assumption on purpose. `Replay` assumes that its own steps
and timers happen and nothing of the server: `send_frame` (`replay.rs:488`) waits
without a limit, so `ReplayEnds` excepts a replay that a live server holds in a write
for good (`SendBlocked`).
`ReplayHttp` assumes nothing of the target; strong fairness of `SettleExpires` is
the deadline of the settle loop, which is reached although the loop polls again and
again, and the two waits without a timer are exempt in `HttpReplayEnds`.

## What is proved

`SessionWriterProofs` holds for every set of pumps, payloads, capacity, batch size,
reorder bound and byte limit allowed by `WriterAssumption`.

* `TypeCorrect`: `Spec => []TypeOK`. The part with content is the bounded channel
  and batch.
* `BudgetNeverExceeded`: `Spec => []BudgetBounded`. The strengthening says that the
  counter never exceeds the limit and that a pump which is about to
  compare-exchange asks for no more than the limit: an exchange succeeds only if the
  counter still has the value the check was made on.
* `HealthyCompleteness`: `Spec => []HealthyIsComplete`, from the assumptions that
  no pump is cancelled mid-forward (`~CancelMidForward`) and that the accounting
  statement does not fail (`"dropped" \notin StoreFaults`). These are precisely the two
  findings above; with either assumption dropped TLC shows the violation.
* `CleanExitCompleteness`: `Spec => []CleanExitIsComplete`, from `~CancelMidForward`
  alone: whichever statements fail, a successful exit is honest.
* `PipelineIsACaptureLog`: `Spec => ImplementsCaptureLog`, from the same assumptions
  as `HealthyCompleteness`. Each step is shown to be one of `CaptureLog` or a stutter.
* `RowsAreInOrder`: `Spec => InOrderUntilLoss`, without a further assumption.
* `BudgetIsExact`: `Spec => []BudgetExact`, without a further assumption.
* `ReadersAgreeOnContext`: `Spec => []ContextAgreement`, if the accounting statement does
  not fail (`"dropped" \notin StoreFaults`), as for `HealthyCompleteness`: otherwise a
  session that was observed with gaps may look healthy.

The argument. `ControlInvariant` states the writer's control discipline:
sets of records are finite, the close event is last and unique and the pumps are
gone when it is sent, the writer's buffers are empty
when it accounts, the database is closed only afterwards, and the count in
the close event is the counter. `Traced` is the inductive core: *every forwarded
frame is somewhere* - held by its pump before the recording step, in the
channel, in the reorder buffer, in the batch, in the rows - or the loss it
became is on one of the counters. It is not implied by the properties and is
needed because they speak only about the final state. At the end all
intermediate places are empty by `ControlInvariant`, and a zero count leaves only the
rows. Each action is one step of the proof.

The refinement adds `Honest`, the converse of `Traced`: whatever a pump holds after its
write, and whatever is in the channel, the buffers and the rows, a peer has received; so a
batch that commits stores only relayed frames. A relay finds the session open because it
is closed only when the pumps are gone, and a close without a declared loss finds
everything stored by `Traced`.

The order of the rows rests on two facts that hold of every state. `Numbered`: no two
records on their way (held by a pump, in the channel, in the reorder buffer) have the same
number, and all numbers are below the next stamp. `Ahead`: until a loss is noted
everything on its way has a number not below `nextSeq`, everything released has one
below it, and rows have lower ones than the batch. The step that could break `Ahead` is
a release across a gap: under pressure it is a loss and noted, and once the channel is
closed there is nobody left to fill the gap. A release without a gap may move past
a number only because no other record on its way has it.

The budget is a sum over a set of frames, so it is exact only if no frame is in the set
twice under two roles and none leaves it twice. `Distinct` says so: what is in the batch or
already written has another number than everything still moving, so that each
subtraction of the writer removes a frame from the sum that is there. What a sum
does when one element joins or leaves is proved from its recursive function by taking the least
number of elements for which it would fail.

For the contexts, `Told` keeps an observer: as long as the writer noted no
failure there is a history of trackers, one per sequence number, that follows the
released records and grants each the context it was masked with. A reader of the rows
unfolds `ReaderTracker` along the same records in the same order and arrives at the same
history; `LossCounted` says that a noted failure is on a counter the
reader sees, so it refuses the session instead.

`RecordLifecycleProofs` holds for any number of stop requests: `LifecycleTypeCorrect`
(`TypeOK`), `ZeroExitEarned` (`ZeroExitIsEarned`) and `OnlyFreshStopCutsReap` (`FreshStopCutsReap`). The
inductive invariant, `JudgementInv`, says what `run` knows at each stage: no status
before the reap is over, a status of the server that is the server's, a server that
still runs at the decision only if the kill was refused, a stop that counts only
if it was requested, and the requests noted at the end of forwarding all seen.

`HttpRegistryProofs` holds for every finite set of exchanges, every set of session
ids and every number of writer and capture slots (`RegistryAssumption`; the names
of exchanges, groups and finalizers must differ).

* `RegistryTypeCorrect`: `Spec => []TypeOK`, with the two semaphores never overdrawn.
* `LeasesKeepRecordingsOpen`: `Spec => []LeaseKeepsOpen`.
* `LossesArePublished`: `Spec => []LossIsPublished`.
* `RetiringTakesNoLease`: `Spec => RetiringRefuses`, an action property.

`LeaseKeepsOpen` is not inductive. `LeaseInv` adds what the code relies on without
saying so: at most one open recording per key (a release looks its key up again,
and must find the recording of its own lease); an exchange that has not been
resolved has created no recording (so a new recording starts without a lease); and
an exchange that finalizes a recording does nothing else, for one recording only
(so that the end of a finalization ends no lease). Steps that leave all leases alone
share one lemma, `QuietStep`: what they remove from the registry has no active
exchange, hence no lease. The loss theorem adds `LossInv`: the counter covers the
counted losses of its leases, an exchange without a lease has lost nothing, and no
tap of a finalized recording is still between its flag and its count, because
finalization makes it an outrun one. What is proved is thus that nothing but this
window keeps a loss out of the published count. `StepShape`
collects what no step does (take a permit unasked, forget a loss, lower a count,
move a lease) and is proved once, by cases on the actions.

* `ExitsAreAccounted`: `Spec => []ExitIsAccounted`. `ShutdownOrder` says what each
  phase of `run` leaves behind (no handler once the tasks are joined, no lease once
  all are released, no entry once all are closed); `Accounted` says that every
  forwarded exchange without a lease is on the process-wide counter and that a
  recording is closed only with a count of zero, which with `LossInv` leaves no loss
  but an outrun one behind a success.

`HttpCaptureProofs` holds for any queue capacities and number of chunks
(`CaptureAssumption`).

* `CaptureTypes`, `AcceptedCaptures` (`CompleteUnlessOutrun`) and `RecordsAreFaithful`
  (`FaithfulRecords`), from `CaptureInv`. Its core is again that what was forwarded is
  somewhere: with the tap, in a channel, with a task, in the recording, or on a
  counter - except between the two steps of `mark_incomplete`, which is the excluded
  window. A task reports a whole body only if its channel was closed after the last
  chunk, which the invariant ties to what the tap has seen.

`StoreProofs` speaks about `IndexSpec`, that is `Store` composed with the rebuild
of `MemoryIndex`, for any processes, recorders, names, versions and menus
(`VersionAssumption`, `RecordedAssumption`, `OptionsAssumption`, `ProcAssumption` and
`StampedAssumption`: the sessions in the file at the start have the columns of a
row, are recordings or imported cassettes with a count of losses, and the timestamps of
messages are integers).

* `MigrationsRunOnce` (`MigratedOnce`): the write reservation has one holder, only its
  holder has uncommitted migrations, and they begin where the file's version ends.
* `ApprovalIsUnique` (`OneApproved`), `ApprovalIsTrustworthy` (`ApprovedIsComplete`) and
  `ApprovalIsSettled` (`BaselineLifecycle`), from `StoreInv`: what a promotion has read
  is what the rows still say unless someone committed in between (then `snapshots`
  stops its write), a closed session is never written again, and a candidate is
  judged on a summary that was closed when it was read.
* `FinishedStaysFinal` (`FinishedSessionsAreFinal`, stated in `Store`): no step changes a
  session that has ended.
* `CopiesAreWhole` (`ClosedCopyIsWhole`), from `CopyInv`. An export reads the summary first
  and the messages later; a summary that says ended is then still the stored one, and the
  messages read afterwards are all of them, because a finished session is frozen. The
  same holds for each source of a merge and for an artifact on disk until it is imported.
  Only originals (recordings and cassettes) are ever changed, so a copy stays what it was made of. The folds that
  add up losses and concatenate sources are unfolded for the one or two sources a copy
  has.
* `IndexIsFaithful` (`IndexReflectsSessions`), from `IndexInv`. The property says nothing of a
  rebuild in progress, but that is what could break it. `QueueInv`: which sessions a rebuild still has to write
  at each of its stages. `FreshRead`: what a rebuild that was not overtaken by a change of
  the sessions holds in memory is what a read would return now. `WrittenInv`: a rebuild of
  all sessions has left behind only rows that say what the sessions say. `CurrentInv`: once the index is
  current, no overtaken rebuild is alive and every version list waiting to be
  written is the latest. Other rebuilds then rewrite rows with the same rows, and their observations
  leave the versions alone: a version only widens, and one that covers an observation is not changed by it
  (`UpsertedRows`). That comparison needs numbers: `StampInv` carries `StampedAssumption`
  through recording, export, import, merging and extraction to the versions table. What the
  extraction computes beyond the types of its timestamps plays no role.

`ClientSetupProofs` holds for any clients, texts, failures and commands
(`MissingAssumption`, `ClientOrderAssumption`).

* `NothingTheUserWroteIsLost` (`UserTextSurvives`), `BackupsArePristine`
  (`BackupIsPristine`), `SetupIsUndoable` (`WrappedIsUndoable`, which contains it). `ClientInv` says for each
  place in the order of file operations what the files are by then: the backup is
  written before the configuration, the metadata after the backup, and a command
  that stops between two of them leaves one of the listed combinations.

`ReplayProofs` holds for any recorded sessions and command lines, any pipe
capacity and a server that says anything any number of times. `PlanAssumption` is
what the planner returns for the given sessions (client messages with different
sequence numbers, a kept cancellation right after its request, recorded answers);
TLC evaluates it on the sessions of the run, and it stays an assumption because
`SelectSeq` and the fold of `correlate` are recursive.

* `PlanIsFollowed` (`SentOnceInOrder`). The property counts what the log holds; `drive`
  only knows a place and a set of cancellations sent ahead. `PlaceInv` ties the two:
  while it is about to send, the number of messages sent is one less than the
  place, or equal to it if and only if the message there was sent ahead as a
  cancellation. That a skipped message is such a one needs different sequence numbers.
* `AnswersPaceTheReplay` (`PacedByAnswers`), for sessions whose requests have ids of their
  own (`IdsDiffer`): `wait_for_response` compares ids, so in a session that reuses an
  id a late answer to the first request would end the wait for the second.
  `PipeInv` says that every response on its way answers a request that was sent with
  this id; `WaitInv` that while the driver runs at most the current request is owed.

`ReplayHttpProofs` holds for any recorded session, filters and stream contents
(`CaptureAssumption`, `FrameAssumption`).

* `NothingComesLate` (`NothingAfterClose`), `RetriesCarryLiveState` (`RetriesAreLive`),
  `SubscriptionsAreWhole` (`SubscriptionEvidence`), from `ReplayInv`: ids of retries are
  numbered upwards and never met among recorded ids, the state kept for a retry is
  that of the last response that asked although subscription tasks append to the same
  record, and the frames recorded per stream are those its task has counted.

Induction over numbers is available (a set of naturals that is not empty has a least
element), and with it what a fold or a recursive function does to a type or a sum can be
proved. Only model-checked:

* liveness and everything under fairness, and `ENABLED`, which are out of the prover's
  reach;
* `DeduplicationKeepsCalls`: the fold that removes repeated calls and the fold of
  `correlate` that counts orphans run over the same messages with different memories, and relating
  them needs a simulation over every pair of prefixes;
* `ReplayIsWhole`, which reads the log through the fold of `correlate` and through
  `SelectSeq`, whose definition the provers cannot expand;
* what the algorithms under `Analysis` compute: they recurse over trees with
  `RECURSIVE` operators, which no module with a theorem may reach.

## Not modelled

Text: JSON and TOML parsing, spelling rules of sensitive keys, hashes,
compression, headers and URLs, timestamps, messages on stderr, reports. A key is
sensitive by membership in a set, a hash is the content it is taken of, a
configuration has a syntax tag. A writer thread that panicked and the barriers of
the tests are left out of `SessionWriter`.

Components: the reports over one session (assertions, quota, optimize, cache,
eval, manifest, otel), which count and format what `correlate` returns; quota
replays a token bucket in floating point. Search and routing are scores
without a correctness claim. The inspector is a read-only view. The command line
and the npm and Python packages launch the rest. `PROJECT.json` gives the reason
for each.

## State of the plan

Every module of the table is written, checked and, where its name ends in `Proofs`,
proved. In reading order: `SessionWriter` with its proofs, `RecordLifecycle`,
`HttpRegistry` and `HttpCapture`, `Store` and `MemoryIndex`, `Replay` and `ReplayHttp`,
`ClientSetup`, `Analysis`. Of the safety properties the runs check, those of the state machines are theorems
except `DeduplicationKeepsCalls` and `ReplayIsWhole`; for both the way would be to state what
`correlate` keeps of a message log as an invariant of its fold and prove it by the least
counterexample, as `StampInv` does for timestamps.

`Store`, `Replay` and `ReplayHttp` extend `Correlation`; where a module with a proof
would reach a recursive operator, the recursion is a fold or a recursive function.
