------------------------------ MODULE ClientSetup ------------------------------
(***************************************************************************)
(* mcptracer setup, crates/mcptracer-proxy/src/commands/setup.rs: it wraps *)
(* the stdio servers of a client configuration so that they are recorded,  *)
(* keeps the original in a backup with ownership metadata, and undoes that *)
(* later.  One command runs at a time; the user or the client edits the    *)
(* configuration at any moment, a disk operation may fail, and a command   *)
(* may die between two of them.                                            *)
(*                                                                         *)
(* A configuration is its text (told apart by a number), its syntax and    *)
(* its servers; a server is a command with arguments, or has no command.   *)
(***************************************************************************)
EXTENDS Integers, Sequences, FiniteSets

CONSTANTS
    JsonClients, TomlClients,    \* SetupClient
    ClientOrder,                 \* the order --all goes through them
    Servers,                     \* names of configured servers
    Databases, NoDb,             \* --db
    Missing,                     \* no such file
    MaxCommands, MaxEdits,       \* bounds: commands, edits,
    MaxFaults                    \* failures and crashes

Clients == JsonClients \cup TomlClients

ASSUME ClientOrderAssumption ==
    ClientOrder \in Seq(Clients) /\ Clients = {ClientOrder[i] : i \in DOMAIN ClientOrder} /\ Clients # {}

\* A server entry, a client configuration and the ownership metadata.
Words == {"none", "server", "flag", "mcptracer", "--db", "record", "--client", "--"}
Entries == [cmd : Words, args : Seq(Words \cup Clients \cup Databases)]
Configs == [text : Nat, by : {"user", "setup", "crash"}, syntax : {"json", "jsonc", "toml", "broken"},
            servers : [Servers -> Entries]]
Metadata == [client : Clients, expected : Configs]

ASSUME MissingAssumption ==
    Missing \notin Configs /\ Missing \notin Metadata /\ Missing \notin [new : Configs, old : Configs]

VARIABLES
    file,      \* per path the configuration, its backup, the metadata and the temporary files
    proc,      \* the command that runs
    commands, edits, faults,
    kept,      \* per path the last text the user wrote and did not agree to lose
    raced,     \* paths edited between a command's read and its rename
    written    \* per path the last text setup put in place and the one it replaced

vars == <<file, proc, commands, edits, faults, kept, raced, written>>

NoCommand == [cmd |-> "none", args |-> <<>>]
Plain == [cmd |-> "server", args |-> <<"flag">>]

Idle == [step |-> "idle"]

-----------------------------------------------------------------------------
\* wrapped_args
wrapped_args(client, server, db) ==
    (IF db = NoDb THEN <<>> ELSE <<"--db", db>>)
        \o <<"record", "--client", client, "--", server.cmd>> \o server.args

\* is_mcptracer_record_wrapper: the global --db may come first.
is_mcptracer_record_wrapper(server) ==
    LET at == IF Len(server.args) >= 3 /\ server.args[1] = "--db" THEN 3 ELSE 1
    IN  /\ server.cmd = "mcptracer"
        /\ Len(server.args) > at /\ server.args[at] = "record" /\ server.args[at + 1] = "--client"

IsStdio(server) == server.cmd # "none"
Unwrapped(config) ==
    {s \in DOMAIN config.servers :
        IsStdio(config.servers[s]) /\ ~is_mcptracer_record_wrapper(config.servers[s])}

\* Strict JSON or JSONC for the JSON clients, TOML for the others.
Parses(client, config) ==
    config # Missing /\ config.syntax \in IF client \in TomlClients THEN {"toml"} ELSE {"json", "jsonc"}

\* inject_json_with_db, inject_toml_with_db: every unwrapped server is
\* wrapped, and comments do not survive the rewrite.
Injected(client, config, db) ==
    [config EXCEPT
        !.syntax  = IF client \in TomlClients THEN "toml" ELSE "json",
        !.by      = "setup",
        !.servers = [s \in DOMAIN config.servers |->
                        IF s \in Unwrapped(config)
                        THEN [cmd |-> "mcptracer", args |-> wrapped_args(client, config.servers[s], db)]
                        ELSE config.servers[s]]]

\* What a write that dies half way leaves; a truncated TOML file may still parse.
Truncated(config) ==
    [config EXCEPT !.syntax = IF @ = "toml" THEN "toml" ELSE "broken", !.by = "crash"]

UndoMetadata(client, config) == [client |-> client, expected |-> config]

\* The original configuration of a client.
Original(client, syntax) ==
    [text |-> 0, by |-> "user", syntax |-> syntax, servers |-> [s \in Servers |-> Plain]]

Fresh(config) == [config |-> config, backup |-> Missing, meta |-> Missing,
                  configTmp |-> Missing, metaTmp |-> Missing]

Init ==
    /\ \E syntax \in {"json", "jsonc"} :
          file = [p \in Clients |-> Fresh(Original(p, IF p \in TomlClients THEN "toml" ELSE syntax))]
    /\ proc = Idle /\ commands = 0 /\ edits = 0 /\ faults = 0
    /\ kept = [p \in Clients |-> file[p].config]
    /\ raced = {} /\ written = [p \in Clients |-> Missing]

-----------------------------------------------------------------------------
Command(undo, all, client, path, force, db, todo) ==
    [step |-> "begin", undo |-> undo, all |-> all, client |-> client, path |-> path, force |-> force,
     db |-> db, todo |-> todo, new |-> Missing, old |-> Missing]

\* One client, whose path --config may override, or all of them in order.
StartCommand ==
    /\ proc = Idle /\ commands < MaxCommands /\ commands' = commands + 1
    /\ \E undo, force \in BOOLEAN, db \in Databases \cup {NoDb} :
          /\ force => undo
          /\ undo => db = NoDb
          /\ \/ \E c, p \in Clients : proc' = Command(undo, FALSE, c, p, force, db, <<>>)
             \/ proc' = Command(undo, TRUE, ClientOrder[1], ClientOrder[1], force, db, Tail(ClientOrder))
    /\ UNCHANGED <<file, edits, faults, kept, raced, written>>

\* The command after its client is done with: --all goes on after a failure,
\* undo does not.
Done(p, ok) ==
    IF p.todo = <<>> \/ (p.undo /\ ~ok) THEN Idle
    ELSE Command(p.undo, TRUE, Head(p.todo), Head(p.todo), p.force, p.db, Tail(p.todo))

\* --all passes over clients without a configuration, undo over those without a backup.
BeginClient ==
    LET skip == proc.all /\ (IF proc.undo THEN file[proc.path].backup ELSE file[proc.path].config) = Missing
    IN  /\ proc.step = "begin"
        /\ proc' = IF skip THEN Done(proc, TRUE)
                   ELSE [proc EXCEPT !.step = IF proc.undo THEN "readBackup" ELSE "read"]
        /\ UNCHANGED <<file, commands, edits, faults, kept, raced, written>>

\* inject_config_with_db up to the first write: nothing to do, a refusal, or
\* the new text.
BackupFree(f) == f.backup = Missing /\ f.meta = Missing

ReadConfig ==
    LET f == file[proc.path]
    IN  /\ proc.step = "read"
        /\ proc' = IF ~Parses(proc.client, f.config) THEN Done(proc, FALSE)
                   ELSE IF Unwrapped(f.config) = {} THEN Done(proc, TRUE)
                   ELSE IF ~BackupFree(f) THEN Done(proc, FALSE)
                   ELSE [proc EXCEPT !.step = "backup", !.old = f.config,
                                     !.new = Injected(proc.client, f.config, proc.db)]
        /\ UNCHANGED <<file, commands, edits, faults, kept, raced, written>>

-----------------------------------------------------------------------------
\* A disk operation works, or fails while faults are left.
Works == UNCHANGED faults
Fails == faults < MaxFaults /\ faults' = faults + 1

Put(kind, content) == file' = [file EXCEPT ![proc.path][kind] = content]

\* What a failed write may leave.
HalfPut(kind, content) == Put(kind, content) \/ UNCHANGED file

\* Fault: the configuration is replaced before the metadata is written.
WriteBackupThenConfig ==
    /\ proc.step = "backup"
    /\ Works /\ Put("backup", proc.old) /\ proc' = [proc EXCEPT !.step = "configTmp"]
    /\ UNCHANGED <<commands, edits, kept, raced, written>>

WriteBackup ==
    /\ proc.step = "backup"
    /\ \/ Works /\ Put("backup", proc.old) /\ proc' = [proc EXCEPT !.step = "metaTmp"]
       \/ Fails /\ HalfPut("backup", Truncated(proc.old)) /\ proc' = Done(proc, FALSE)
    /\ UNCHANGED <<commands, edits, kept, raced, written>>

\* replace_file for the metadata: a temporary file, which must not exist, is
\* written and renamed.
WriteMetaTemp ==
    LET free == file[proc.path].metaTmp = Missing
        meta == UndoMetadata(proc.client, proc.new)
    IN  /\ proc.step = "metaTmp"
        /\ \/ free /\ Works /\ Put("metaTmp", meta) /\ proc' = [proc EXCEPT !.step = "metaRename"]
           \/ ~free /\ Works /\ UNCHANGED file /\ proc' = Done(proc, FALSE)
           \/ free /\ Fails /\ HalfPut("metaTmp", meta) /\ proc' = Done(proc, FALSE)
        /\ UNCHANGED <<commands, edits, kept, raced, written>>

RenameMeta ==
    /\ proc.step = "metaRename"
    /\ \/ /\ Works /\ proc' = [proc EXCEPT !.step = "configTmp"]
          /\ file' = [file EXCEPT ![proc.path].meta = file[proc.path].metaTmp, ![proc.path].metaTmp = Missing]
       \/ Fails /\ UNCHANGED file /\ proc' = Done(proc, FALSE)
    /\ UNCHANGED <<commands, edits, kept, raced, written>>

\* replace_file for the configuration, for setup and for undo.
Replacing == proc.step \in {"configTmp", "restoreTmp"}

WriteConfigTemp ==
    LET free   == file[proc.path].configTmp = Missing
        failed == IF proc.undo THEN Done(proc, FALSE) ELSE [proc EXCEPT !.step = "retract"]
    IN  /\ Replacing
        /\ \/ /\ free /\ Works /\ Put("configTmp", proc.new)
              /\ proc' = [proc EXCEPT !.step = IF proc.undo THEN "restore" ELSE "replace"]
           \/ ~free /\ Works /\ UNCHANGED file /\ proc' = failed
           \/ free /\ Fails /\ HalfPut("configTmp", Truncated(proc.new)) /\ proc' = failed
        /\ UNCHANGED <<commands, edits, kept, raced, written>>

\* The new configuration takes the place of the old one at once.
ReplaceConfig ==
    /\ proc.step = "replace"
    /\ \/ /\ Works /\ proc' = Done(proc, TRUE)
          /\ file' = [file EXCEPT ![proc.path].config = proc.new, ![proc.path].configTmp = Missing]
          /\ written' = [written EXCEPT ![proc.path] = [new |-> proc.new, old |-> proc.old]]
       \/ Fails /\ proc' = [proc EXCEPT !.step = "retract"] /\ UNCHANGED <<file, written>>
    /\ UNCHANGED <<commands, edits, kept, raced>>

\* The replacement failed: the metadata goes if it can, the backup stays.
RetractMeta ==
    /\ proc.step = "retract"
    /\ \/ Works /\ Put("meta", Missing)
       \/ Fails /\ UNCHANGED file
    /\ proc' = Done(proc, FALSE)
    /\ UNCHANGED <<commands, edits, kept, raced, written>>

-----------------------------------------------------------------------------
\* restore_config: whether undo may put the backup back.
AlreadyRestored(f) == f.config = f.backup

\* Fault: undo does not compare the configuration with what setup wrote.
OwnedByClient(p, f) == f.config # Missing /\ f.meta # Missing /\ f.meta.client = p.client

Owned(p, f) ==
    /\ f.config # Missing /\ f.meta # Missing
    /\ f.meta.client = p.client /\ f.meta.expected = f.config

ReadBackup ==
    LET f == file[proc.path]
    IN  /\ proc.step = "readBackup"
        /\ proc' = IF ~Parses(proc.client, f.backup) THEN Done(proc, FALSE)
                   ELSE IF AlreadyRestored(f) THEN [proc EXCEPT !.step = "dropMeta"]
                   ELSE IF ~proc.force /\ ~Owned(proc, f) THEN Done(proc, FALSE)
                   ELSE [proc EXCEPT !.step = "restoreTmp", !.new = f.backup]
        /\ UNCHANGED <<file, commands, edits, faults, kept, raced, written>>

\* With --force the user agrees to lose the configuration the backup replaces.
RestoreConfig ==
    /\ proc.step = "restore"
    /\ \/ /\ Works /\ proc' = [proc EXCEPT !.step = "dropMeta"]
          /\ file' = [file EXCEPT ![proc.path].config = proc.new, ![proc.path].configTmp = Missing]
          /\ kept' = IF proc.force THEN [kept EXCEPT ![proc.path] = proc.new] ELSE kept
       \/ Fails /\ proc' = Done(proc, FALSE) /\ UNCHANGED <<file, kept>>
    /\ UNCHANGED <<commands, edits, raced, written>>

\* The metadata is removed first, so that a retry finds the backup.
DropMeta ==
    /\ proc.step = "dropMeta"
    /\ \/ Works /\ Put("meta", Missing) /\ proc' = [proc EXCEPT !.step = "dropBackup"]
       \/ Fails /\ UNCHANGED file /\ proc' = Done(proc, FALSE)
    /\ UNCHANGED <<commands, edits, kept, raced, written>>

DropBackup ==
    /\ proc.step = "dropBackup"
    /\ \/ Works /\ Put("backup", Missing) /\ proc' = Done(proc, TRUE)
       \/ Fails /\ UNCHANGED file /\ proc' = Done(proc, FALSE)
    /\ UNCHANGED <<commands, edits, kept, raced, written>>

-----------------------------------------------------------------------------
\* The process dies between two operations, or inside a write.
Crash ==
    /\ proc # Idle /\ Fails /\ proc' = Idle
    /\ \/ UNCHANGED file
       \/ proc.step = "backup" /\ Put("backup", Truncated(proc.old))
       \/ Replacing /\ file[proc.path].configTmp = Missing /\ Put("configTmp", Truncated(proc.new))
    /\ UNCHANGED <<commands, edits, kept, raced, written>>

\* Somebody else writes the configuration: any server is set back to its plain
\* command or taken out, or the file is deleted.
Reading == {"backup", "metaTmp", "metaRename", "configTmp", "replace", "restoreTmp", "restore"}

Edited(config, s, server, text) ==
    [config EXCEPT !.servers[s] = server, !.text = text, !.by = "user"]

UserEdits ==
    /\ edits < MaxEdits /\ edits' = edits + 1
    /\ \E p \in Clients :
          /\ \/ \E s \in Servers, server \in {Plain, NoCommand} :
                   /\ file[p].config # Missing
                   /\ file' = [file EXCEPT ![p].config = Edited(@, s, server, edits + 1)]
             \/ file' = [file EXCEPT ![p].config = Missing]
          /\ kept' = [kept EXCEPT ![p] = file'[p].config]
          /\ raced' = IF proc.step \in Reading /\ proc.path = p THEN raced \cup {p} ELSE raced
    /\ UNCHANGED <<proc, commands, faults, written>>

Next ==
    \/ StartCommand \/ BeginClient
    \/ ReadConfig \/ WriteBackup \/ WriteMetaTemp \/ RenameMeta \/ WriteConfigTemp \/ ReplaceConfig
    \/ RetractMeta \/ ReadBackup \/ RestoreConfig \/ DropMeta \/ DropBackup
    \/ Crash \/ UserEdits

Spec == Init /\ [][Next]_vars

-----------------------------------------------------------------------------
\* Whatever fails or dies, the last text the user wrote is the configuration or
\* its backup, unless it was written while a command was replacing the file.
UserTextSurvives ==
    \A p \in Clients : p \notin raced => kept[p] \in {file[p].config, file[p].backup}

\* The backup never holds a configuration that MCPTracer has touched.
BackupIsPristine ==
    \A p \in Clients : file[p].backup # Missing =>
        \A s \in Servers : ~is_mcptracer_record_wrapper(file[p].backup.servers[s])

\* As long as a configuration is exactly what setup wrote, its backup is
\* complete, its metadata lets the same client undo it without --force, and
\* that leads back to before the first setup.
WrappedIsUndoable ==
    /\ BackupIsPristine
    /\ \A p \in Clients : written[p] # Missing /\ file[p].config = written[p].new =>
          /\ file[p].backup = written[p].old
          /\ file[p].meta # Missing /\ file[p].meta.expected = file[p].config
=============================================================================
