----------------------------- MODULE ClientSetupProofs -----------------------------
(***************************************************************************)
(* Proofs about ClientSetup, for any clients and servers, any number of     *)
(* commands, edits, failures and crashes.                                   *)
(***************************************************************************)
EXTENDS ClientSetup, SequenceTheorems, TLAPS

Optional(S) == S \cup {Missing}

Files == [config : Optional(Configs), backup : Optional(Configs), meta : Optional(Metadata),
          configTmp : Optional(Configs), metaTmp : Optional(Metadata)]

SetupSteps   == {"backup", "metaTmp", "metaRename", "configTmp", "replace", "retract"}
RestoreSteps == {"restoreTmp", "restore"}
DropSteps    == {"dropMeta", "dropBackup"}
Steps        == {"begin", "read", "readBackup"} \cup SetupSteps \cup RestoreSteps \cup DropSteps

Commands == [step : Steps, undo : BOOLEAN, all : BOOLEAN, client : Clients, path : Clients,
             force : BOOLEAN, db : Databases \cup {NoDb}, todo : Seq(Clients),
             new : Optional(Configs), old : Optional(Configs)]

TypeInv ==
    /\ file \in [Clients -> Files]
    /\ proc = Idle \/ proc \in Commands
    /\ edits \in Nat
    /\ kept \in [Clients -> Optional(Configs)]
    /\ raced \subseteq Clients
    /\ written \in [Clients -> Optional([new : Configs, old : Configs])]

\* A configuration as it was before setup ever wrote it.
Pristine(config) ==
    config.by # "setup" /\ \A s \in Servers : ~is_mcptracer_record_wrapper(config.servers[s])

\* What holds of the files of a path, whatever command runs.
PathInv(p) ==
    /\ file[p].backup # Missing => Pristine(file[p].backup)
    /\ file[p].backup = Missing /\ file[p].config # Missing => Pristine(file[p].config)
    /\ file[p].meta # Missing => file[p].meta.expected.by = "setup"
    /\ kept[p] # Missing => kept[p].by # "setup"
    /\ p \notin raced => kept[p] = file[p].config \/ (kept[p] = file[p].backup /\ kept[p] # Missing)
    /\ written[p] # Missing => written[p].new.by = "setup"
    /\ written[p] # Missing /\ file[p].config = written[p].new =>
          /\ file[p].backup = written[p].old
          /\ file[p].meta # Missing /\ file[p].meta.expected = file[p].config

\* Between its read and the end a setup knows the configuration it read, which
\* is in the backup as soon as that is written.
SetupInv ==
    proc.step \in SetupSteps =>
        LET f == file[proc.path]
        IN  /\ proc.undo = FALSE /\ proc.old # Missing /\ Pristine(proc.old)
            /\ proc.new # Missing /\ proc.new.by = "setup"
            /\ f.config # Missing => f.config.by # "setup"
            /\ f.backup = IF proc.step = "backup" THEN Missing ELSE proc.old
            /\ proc.step # "retract" /\ proc.path \notin raced => f.config = proc.old
            /\ proc.step = "metaRename" => f.metaTmp = UndoMetadata(proc.client, proc.new)
            /\ proc.step \in {"configTmp", "replace"} => f.meta = UndoMetadata(proc.client, proc.new)

\* An undo restores the backup, over what setup wrote unless it is forced.
RestoreInv ==
    proc.step \in RestoreSteps =>
        LET f == file[proc.path]
        IN  /\ proc.undo = TRUE /\ f.backup # Missing /\ proc.new = f.backup
            /\ proc.force = FALSE /\ proc.path \notin raced => f.config # Missing /\ f.config.by = "setup"

\* When the backup goes, the configuration is the user's.
DropInv ==
    proc.step \in DropSteps =>
        LET f == file[proc.path]
        IN  /\ f.config # Missing => Pristine(f.config)
            /\ proc.path \notin raced => kept[proc.path] = f.config

\* What the running command relies on.
CommandInv ==
    /\ SetupInv /\ RestoreInv /\ DropInv
    /\ proc.step = "read" => proc.undo = FALSE
    /\ proc.step = "readBackup" => proc.undo = TRUE

ClientInv == TypeInv /\ (\A p \in Clients : PathInv(p)) /\ CommandInv

-----------------------------------------------------------------------------
(* Texts and commands *)

LEMMA ShortTuples ==
    ASSUME NEW S, NEW a \in S, NEW b \in S, NEW c \in S, NEW d \in S, NEW e \in S
    PROVE  <<>> \in Seq(S) /\ <<a>> \in Seq(S) /\ <<a, b>> \in Seq(S) /\ <<a, b, c, d, e>> \in Seq(S)
OBVIOUS

\* A server entry from its parts.
LEMMA EntryParts ==
    ASSUME NEW cmd \in Words, NEW args \in Seq(Words \cup Clients \cup Databases)
    PROVE  [cmd |-> cmd, args |-> args] \in Entries
BY DEF Entries

LEMMA PlainEntries ==
    /\ Plain \in Entries /\ NoCommand \in Entries
    /\ ~is_mcptracer_record_wrapper(Plain) /\ ~is_mcptracer_record_wrapper(NoCommand)
<1> DEFINE Args == Words \cup Clients \cup Databases
<1>0. "flag" \in Args /\ "server" \in Words /\ "none" \in Words
  BY DEF Words
<1> HIDE DEF Args
<1>1. <<"flag">> \in Seq(Args) /\ <<>> \in Seq(Args)
  BY <1>0, ShortTuples
<1>3. Plain \in Entries /\ NoCommand \in Entries
  BY <1>0, <1>1, EntryParts DEF Plain, NoCommand, Args
<1>2. Plain.cmd = "server" /\ NoCommand.cmd = "none"
  BY DEF Plain, NoCommand
<1> QED BY <1>2, <1>3 DEF is_mcptracer_record_wrapper

\* Wrapping keeps the form of the configuration and signs it.
LEMMA InjectedConfig ==
    ASSUME NEW client \in Clients, NEW config \in Configs, NEW db \in Databases \cup {NoDb}
    PROVE  Injected(client, config, db) \in Configs /\ Injected(client, config, db).by = "setup"
<1> DEFINE Args == Words \cup Clients \cup Databases
<1>0. /\ "--db" \in Args /\ "record" \in Args /\ "--client" \in Args /\ "--" \in Args
      /\ client \in Args /\ (db # NoDb => db \in Args) /\ Words \subseteq Args
  BY DEF Words
<1>1. ASSUME NEW s \in Servers PROVE wrapped_args(client, config.servers[s], db) \in Seq(Args)
  <2>1. config.servers[s].cmd \in Words /\ config.servers[s].args \in Seq(Args)
    BY DEF Configs, Entries
  <2> HIDE DEF Args
  <2>2. PICK prefix : prefix = IF db = NoDb THEN <<>> ELSE <<"--db", db>>
    OBVIOUS
  <2>3. prefix \in Seq(Args)
    <3>1. CASE db = NoDb
      BY <1>0, <2>2, <3>1, ShortTuples
    <3>2. CASE db # NoDb
      BY <1>0, <2>2, <3>2, ShortTuples
    <3> QED BY <3>1, <3>2
  <2>4. PICK middle : middle = <<"record", "--client", client, "--", config.servers[s].cmd>>
    OBVIOUS
  <2>5. middle \in Seq(Args)
    <3>1. PICK name : name = config.servers[s].cmd
      OBVIOUS
    <3>2. name \in Args
      BY <1>0, <2>1, <3>1
    <3>3. <<"record", "--client", client, "--", name>> \in Seq(Args)
      BY <1>0, <3>2, ShortTuples
    <3> QED BY <2>4, <3>1, <3>3
  <2>6. prefix \o middle \in Seq(Args)
    BY <2>3, <2>5, ConcatProperties
  <2>7. (prefix \o middle) \o config.servers[s].args \in Seq(Args)
    BY <2>1, <2>6, ConcatProperties
  <2> QED BY <2>2, <2>4, <2>7 DEF wrapped_args
<1>2. DOMAIN config.servers = Servers
  BY DEF Configs
<1> DEFINE entries == [s \in DOMAIN config.servers |->
                          IF s \in Unwrapped(config)
                          THEN [cmd |-> "mcptracer", args |-> wrapped_args(client, config.servers[s], db)]
                          ELSE config.servers[s]]
<1>3. entries \in [Servers -> Entries]
  <2>1. ASSUME NEW s \in Servers
        PROVE  [cmd |-> "mcptracer", args |-> wrapped_args(client, config.servers[s], db)] \in Entries
    BY <1>1, EntryParts DEF Words
  <2> QED BY <1>2, <2>1 DEF Configs
<1>4. PICK text, by, old, servers : config = [text |-> text, by |-> by, syntax |-> old, servers |-> servers]
  BY DEF Configs
<1>5. PICK syntax : syntax = IF client \in TomlClients THEN "toml" ELSE "json"
  OBVIOUS
<1> HIDE DEF entries
<1>6. PICK one : one = [config EXCEPT !.syntax = syntax]
  OBVIOUS
<1>7. one = [text |-> text, by |-> by, syntax |-> syntax, servers |-> servers]
  BY <1>4, <1>6
<1>8. PICK two : two = [one EXCEPT !.by = "setup"]
  OBVIOUS
<1>9. two = [text |-> text, by |-> "setup", syntax |-> syntax, servers |-> servers]
  BY <1>7, <1>8
<1>10. [two EXCEPT !.servers = entries]
          = [text |-> text, by |-> "setup", syntax |-> syntax, servers |-> entries]
  BY <1>9
<1>11. Injected(client, config, db) = [two EXCEPT !.servers = entries]
  BY <1>5, <1>6, <1>8 DEF Injected, entries
<1>12. text \in Nat
  BY <1>4 DEF Configs
<1> QED BY <1>3, <1>5, <1>10, <1>11, <1>12 DEF Configs

LEMMA TruncatedConfig ==
    ASSUME NEW config \in Configs, NEW new, new = Truncated(config)
    PROVE  new \in Configs /\ new.by = "crash" /\ new.servers = config.servers
<1>1. PICK syntax : syntax = IF config.syntax = "toml" THEN "toml" ELSE "broken"
  OBVIOUS
<1>2. PICK one : one = [config EXCEPT !.syntax = syntax]
  OBVIOUS
<1>3. one \in Configs /\ one.servers = config.servers
  BY <1>1, <1>2 DEF Configs
<1>4. new = [one EXCEPT !.by = "crash"]
  BY <1>1, <1>2 DEF Truncated
<1> QED BY <1>3, <1>4 DEF Configs

LEMMA EditedConfig ==
    ASSUME NEW config \in Configs, NEW s \in Servers, NEW server \in {Plain, NoCommand}, NEW text \in Nat,
           NEW new, new = Edited(config, s, server, text)
    PROVE  new \in Configs /\ new.by = "user" /\ (Pristine(config) => Pristine(new))
<1>1. PICK servers : servers = [config.servers EXCEPT ![s] = server]
  OBVIOUS
<1>2. servers \in [Servers -> Entries]
  BY <1>1, PlainEntries DEF Configs
<1>3. PICK one : one = [config EXCEPT !.servers = servers]
  OBVIOUS
<1>4. one \in Configs /\ one.servers = servers
  BY <1>2, <1>3 DEF Configs
<1>5. PICK two : two = [one EXCEPT !.text = text]
  OBVIOUS
<1>6. two \in Configs /\ two.servers = servers
  BY <1>4, <1>5 DEF Configs
<1>7. new = [two EXCEPT !.by = "user"]
  BY <1>1, <1>3, <1>5 DEF Edited
<1>8. new \in Configs /\ new.by = "user" /\ new.servers = servers
  BY <1>6, <1>7 DEF Configs
<1>9. \A t \in Servers : servers[t] = config.servers[t] \/ servers[t] = server
  BY <1>1 DEF Configs
<1> QED BY <1>8, <1>9, PlainEntries DEF Pristine

\* The next stage of a command.
LEMMA NextStage ==
    ASSUME NEW c \in Commands, NEW s \in Steps, NEW d, d = [c EXCEPT !.step = s]
    PROVE  /\ d \in Commands /\ d.step = s /\ d.undo = c.undo /\ d.client = c.client /\ d.path = c.path
           /\ d.force = c.force /\ d.new = c.new /\ d.old = c.old
BY DEF Commands

\* After its client a command is over or begins with the next one.
LEMMA DoneCommand ==
    ASSUME NEW c \in Commands, NEW ok, NEW d, d = Done(c, ok)
    PROVE  d = Idle \/ (d \in Commands /\ d.step = "begin")
<1>1. CASE d = Idle
  BY <1>1
<1>2. CASE d # Idle
  <2>1. /\ c.todo # <<>>
        /\ d = Command(c.undo, TRUE, Head(c.todo), Head(c.todo), c.force, c.db, Tail(c.todo))
    BY <1>2 DEF Done
  <2>2. c.todo \in Seq(Clients) /\ Head(c.todo) \in Clients /\ Tail(c.todo) \in Seq(Clients)
    BY <2>1, HeadTailProperties DEF Commands
  <2> QED BY <2>1, <2>2 DEF Command, Commands, Steps, Optional
<1> QED BY <1>1, <1>2

-----------------------------------------------------------------------------
(* Files *)

\* Writing one file of a path.
LEMMA OneFile ==
    ASSUME NEW f \in Files, NEW c \in Optional(Configs), NEW m \in Optional(Metadata), NEW g
    PROVE  /\ g = [f EXCEPT !.config = c] =>
                 g \in Files /\ g.config = c /\ g.backup = f.backup /\ g.meta = f.meta /\ g.metaTmp = f.metaTmp
           /\ g = [f EXCEPT !.backup = c] =>
                 g \in Files /\ g.config = f.config /\ g.backup = c /\ g.meta = f.meta /\ g.metaTmp = f.metaTmp
           /\ g = [f EXCEPT !.configTmp = c] =>
                 /\ g \in Files /\ g.config = f.config /\ g.backup = f.backup /\ g.meta = f.meta
                 /\ g.metaTmp = f.metaTmp
           /\ g = [f EXCEPT !.meta = m] =>
                 g \in Files /\ g.config = f.config /\ g.backup = f.backup /\ g.meta = m /\ g.metaTmp = f.metaTmp
           /\ g = [f EXCEPT !.metaTmp = m] =>
                 g \in Files /\ g.config = f.config /\ g.backup = f.backup /\ g.meta = f.meta /\ g.metaTmp = m
BY DEF Files

\* The files of a path that the properties are about.
SameFiles(p) ==
    file'[p].config = file[p].config /\ file'[p].backup = file[p].backup /\ file'[p].meta = file[p].meta

LEMMA OtherPath ==
    ASSUME NEW p \in Clients, PathInv(p), SameFiles(p), kept'[p] = kept[p], written'[p] = written[p],
           p \in raced => p \in raced'
    PROVE  PathInv(p)'
BY DEF PathInv, SameFiles

\* A command that holds nothing between two steps.
LEMMA HoldsNothing ==
    ASSUME proc' = Idle \/ proc'.step = "begin"
    PROVE  CommandInv'
BY DEF CommandInv, SetupInv, RestoreInv, DropInv, SetupSteps, RestoreSteps, DropSteps, Idle

\* A step that changes no configuration, backup or metadata.
LEMMA CalmStep ==
    ASSUME ClientInv, file' \in [Clients -> Files], \A p \in Clients : SameFiles(p),
           UNCHANGED <<edits, kept, raced, written>>, proc' = Idle \/ proc' \in Commands,
           CommandInv'
    PROVE  ClientInv'
<1>1. TypeInv'
  BY DEF ClientInv, TypeInv
<1>2. ASSUME NEW p \in Clients PROVE PathInv(p)'
  BY OtherPath DEF ClientInv
<1> QED BY <1>1, <1>2 DEF ClientInv

\* The same, when the command has ended or goes on to the next client.
LEMMA CalmEnd ==
    ASSUME ClientInv, file' \in [Clients -> Files], \A p \in Clients : SameFiles(p),
           UNCHANGED <<edits, kept, raced, written>>,
           proc' = Idle \/ (proc' \in Commands /\ proc'.step = "begin")
    PROVE  ClientInv'
BY CalmStep, HoldsNothing

\* One path changes; what its new files satisfy is shown for it alone.
LEMMA PathStep ==
    ASSUME ClientInv, NEW p \in Clients, NEW f \in Files, file' = [file EXCEPT ![p] = f],
           UNCHANGED <<edits, raced>>,
           kept' \in [Clients -> Optional(Configs)], \A q \in Clients \ {p} : kept'[q] = kept[q],
           written' \in [Clients -> Optional([new : Configs, old : Configs])],
           \A q \in Clients \ {p} : written'[q] = written[q],
           proc' = Idle \/ proc' \in Commands,
           PathInv(p)', CommandInv'
    PROVE  ClientInv'
<1>1. TypeInv'
  BY DEF ClientInv, TypeInv
<1>2. ASSUME NEW q \in Clients PROVE PathInv(q)'
  <2>1. CASE q = p
    BY <2>1
  <2>2. CASE q # p
    <3>1. SameFiles(q)
      BY <2>2 DEF SameFiles, ClientInv, TypeInv
    <3> QED BY <2>2, <3>1, OtherPath DEF ClientInv
  <2> QED BY <2>1, <2>2
<1> QED BY <1>1, <1>2 DEF ClientInv

LEMMA ClientInit == Init => ClientInv
<1> SUFFICES ASSUME Init PROVE ClientInv
  OBVIOUS
<1>1. PICK syntax \in {"json", "jsonc"} :
         file = [p \in Clients |-> Fresh(Original(p, IF p \in TomlClients THEN "toml" ELSE syntax))]
  BY DEF Init
<1>2. ASSUME NEW p \in Clients, NEW x \in {"json", "jsonc", "toml"}
      PROVE  /\ Original(p, x) \in Configs /\ Pristine(Original(p, x))
             /\ Fresh(Original(p, x)) \in Files
  <2>1. Original(p, x) \in Configs
    BY PlainEntries DEF Original, Configs
  <2>2. Pristine(Original(p, x))
    BY PlainEntries DEF Original, Pristine
  <2>3. Fresh(Original(p, x)) \in Files
    BY <2>1 DEF Fresh, Files, Optional
  <2> QED BY <2>1, <2>2, <2>3
<1>3. ASSUME NEW p \in Clients
      PROVE  /\ file[p] \in Files /\ file[p].config \in Configs /\ Pristine(file[p].config)
             /\ file[p].backup = Missing /\ file[p].meta = Missing
  <2>1. PICK x \in {"json", "jsonc", "toml"} : x = IF p \in TomlClients THEN "toml" ELSE syntax
    OBVIOUS
  <2>2. file[p] = Fresh(Original(p, x))
    BY <1>1, <2>1
  <2>3. Fresh(Original(p, x)).config = Original(p, x)
        /\ Fresh(Original(p, x)).backup = Missing /\ Fresh(Original(p, x)).meta = Missing
    BY DEF Fresh
  <2> QED BY <1>2, <2>2, <2>3
<1>4. file \in [Clients -> Files]
  BY <1>1, <1>3
<1>5. /\ proc = Idle /\ edits = 0 /\ kept = [p \in Clients |-> file[p].config]
      /\ raced = {} /\ written = [p \in Clients |-> Missing]
  BY DEF Init
<1>6. TypeInv
  BY <1>3, <1>4, <1>5 DEF TypeInv, Optional
<1>7. ASSUME NEW p \in Clients PROVE PathInv(p)
  BY <1>3, <1>5 DEF PathInv, Pristine
<1>8. proc.step = "idle"
  BY <1>5 DEF Idle
<1>9. CommandInv
  BY <1>8 DEF CommandInv, SetupInv, RestoreInv, DropInv, SetupSteps, RestoreSteps, DropSteps
<1> QED BY <1>6, <1>7, <1>9 DEF ClientInv

-----------------------------------------------------------------------------
(* Setup *)

LEMMA StartCommandStep == ASSUME ClientInv, StartCommand PROVE ClientInv'
<1>1. UNCHANGED <<file, edits, kept, raced, written>>
  BY DEF StartCommand
<1>2. PICK undo \in BOOLEAN, force \in BOOLEAN, db \in Databases \cup {NoDb} :
         \/ \E c, p \in Clients : proc' = Command(undo, FALSE, c, p, force, db, <<>>)
         \/ proc' = Command(undo, TRUE, ClientOrder[1], ClientOrder[1], force, db, Tail(ClientOrder))
  BY DEF StartCommand
<1>3. <<>> \in Seq(Clients)
  OBVIOUS
<1>4. ClientOrder[1] \in Clients /\ Tail(ClientOrder) \in Seq(Clients)
  <2>1. ClientOrder # <<>> /\ ClientOrder \in Seq(Clients)
    BY ClientOrderAssumption
  <2> QED BY <2>1, HeadTailProperties
<1>5. ASSUME NEW all \in BOOLEAN, NEW c \in Clients, NEW p \in Clients, NEW todo \in Seq(Clients)
      PROVE  /\ Command(undo, all, c, p, force, db, todo) \in Commands
             /\ Command(undo, all, c, p, force, db, todo).step = "begin"
  BY DEF Command, Commands, Steps, Optional
<1>6. proc' \in Commands /\ proc'.step = "begin"
  <2>1. ASSUME NEW c \in Clients, NEW p \in Clients, proc' = Command(undo, FALSE, c, p, force, db, <<>>)
        PROVE  proc' \in Commands /\ proc'.step = "begin"
    BY <1>3, <1>5, <2>1
  <2>2. CASE proc' = Command(undo, TRUE, ClientOrder[1], ClientOrder[1], force, db, Tail(ClientOrder))
    BY <1>4, <1>5, <2>2
  <2> QED BY <1>2, <2>1, <2>2
<1> QED BY <1>1, <1>6, CalmEnd DEF SameFiles, ClientInv, TypeInv

LEMMA BeginClientStep == ASSUME ClientInv, BeginClient PROVE ClientInv'
<1>1. UNCHANGED <<file, edits, kept, raced, written>> /\ proc.step = "begin"
  BY DEF BeginClient
<1>2. proc \in Commands
  BY <1>1 DEF ClientInv, TypeInv, Idle
<1>3. PICK c, d : c = proc /\ d = proc' /\ c \in Commands
  BY <1>2
<1>4. CASE d = Done(c, TRUE)
  <2>1. d = Idle \/ (d \in Commands /\ d.step = "begin")
    BY <1>3, <1>4, DoneCommand
  <2> QED BY <1>1, <1>3, <2>1, CalmEnd DEF SameFiles, ClientInv, TypeInv
<1>5. CASE d # Done(c, TRUE)
  <2>1. PICK s : /\ s = IF c.undo THEN "readBackup" ELSE "read"
                 /\ d = [c EXCEPT !.step = s]
    BY <1>3, <1>5 DEF BeginClient
  <2>2. s \in Steps
    BY <2>1 DEF Steps
  <2>3. d \in Commands /\ d.step = s /\ d.undo = c.undo
    BY <1>3, <2>1, <2>2, NextStage
  <2>4. CommandInv'
    BY <1>3, <2>1, <2>3 DEF CommandInv, SetupInv, RestoreInv, DropInv, SetupSteps, RestoreSteps, DropSteps,
                            Commands
  <2> QED BY <1>1, <1>3, <2>3, <2>4, CalmStep DEF SameFiles, ClientInv, TypeInv
<1> QED BY <1>4, <1>5

LEMMA ReadConfigStep == ASSUME ClientInv, ReadConfig PROVE ClientInv'
<1>1. UNCHANGED <<file, edits, kept, raced, written>> /\ proc.step = "read"
  BY DEF ReadConfig
<1>2. proc \in Commands
  BY <1>1 DEF ClientInv, TypeInv, Idle
<1>3. PICK c, d, f : c = proc /\ d = proc' /\ f = file[c.path]
  OBVIOUS
<1>4. c \in Commands /\ c.path \in Clients /\ f \in Files
  BY <1>2, <1>3 DEF ClientInv, TypeInv, Commands
<1>5. CASE d = Done(c, TRUE) \/ d = Done(c, FALSE)
  <2>1. d = Idle \/ (d \in Commands /\ d.step = "begin")
    BY <1>4, <1>5, DoneCommand
  <2> QED BY <1>1, <1>3, <2>1, CalmEnd DEF SameFiles, ClientInv, TypeInv
<1>6. CASE ~(d = Done(c, TRUE) \/ d = Done(c, FALSE))
  <2>1. PICK new :
           /\ Parses(c.client, f.config) /\ BackupFree(f) /\ new = Injected(c.client, f.config, c.db)
           /\ d = [c EXCEPT !.step = "backup", !.old = f.config, !.new = new]
    BY <1>3, <1>6 DEF ReadConfig
  <2>2. f.config # Missing /\ f.config \in Configs /\ f.backup = Missing
    BY <1>4, <2>1 DEF Parses, BackupFree, Files, Optional
  <2>3. new \in Configs /\ new.by = "setup" /\ new # Missing
    BY <1>4, <2>1, <2>2, InjectedConfig, MissingAssumption DEF Commands
  <2>4. Pristine(f.config)
    BY <1>3, <1>4, <2>2 DEF ClientInv, PathInv
  <2>5. /\ d \in Commands /\ d.step = "backup" /\ d.undo = c.undo /\ d.path = c.path
        /\ d.old = f.config /\ d.new = new
    <3>1. PICK one : one = [c EXCEPT !.step = "backup"]
      OBVIOUS
    <3>2. /\ one \in Commands /\ one.step = "backup" /\ one.undo = c.undo /\ one.path = c.path
      BY <1>4, <3>1, NextStage DEF Steps, SetupSteps
    <3>3. PICK two : two = [one EXCEPT !.old = f.config]
      OBVIOUS
    <3>4. /\ two \in Commands /\ two.step = "backup" /\ two.undo = c.undo /\ two.path = c.path
          /\ two.old = f.config
      BY <2>2, <3>2, <3>3 DEF Commands, Optional
    <3>5. d = [two EXCEPT !.new = new]
      BY <2>1, <3>1, <3>3
    <3> QED BY <2>3, <3>4, <3>5 DEF Commands, Optional
  <2>6. c.undo = FALSE
    BY <1>1, <1>3 DEF ClientInv, CommandInv
  <2>7. CommandInv'
    BY <1>1, <1>3, <1>4, <2>2, <2>3, <2>4, <2>5, <2>6
       DEF CommandInv, SetupInv, RestoreInv, DropInv, SetupSteps, RestoreSteps, DropSteps, Pristine
  <2> QED BY <1>1, <1>3, <2>5, <2>7, CalmStep DEF SameFiles, ClientInv, TypeInv
<1> QED BY <1>5, <1>6

\* A command that runs, its path and the files there.
LEMMA Running ==
    ASSUME ClientInv, proc.step \in Steps
    PROVE  /\ proc \in Commands /\ proc.path \in Clients /\ file[proc.path] \in Files
           /\ PathInv(proc.path)
BY DEF ClientInv, TypeInv, Idle, Steps, SetupSteps, RestoreSteps, DropSteps, Commands

\* While setup runs the configuration is not its own work.
LEMMA NotWritten ==
    ASSUME ClientInv, NEW p \in Clients, file[p].config # Missing => file[p].config.by # "setup"
    PROVE  written[p] # Missing => file[p].config # written[p].new
BY MissingAssumption DEF ClientInv, TypeInv, PathInv, Optional

\* The backup is written, whole or in part: the configuration is still there.
LEMMA BackupWritten ==
    ASSUME ClientInv, proc.step = "backup", NEW p, p = proc.path, NEW x \in Configs, Pristine(x),
           file'[p].config = file[p].config, file'[p].backup = x, file'[p].meta = file[p].meta,
           UNCHANGED <<kept, raced, written>>
    PROVE  PathInv(p)'
<1>1. p \in Clients /\ file[p] \in Files /\ PathInv(p) /\ file \in [Clients -> Files]
  BY Running DEF Steps, SetupSteps, ClientInv, TypeInv
<1>4. file[p].backup = Missing /\ (file[p].config # Missing => file[p].config.by # "setup")
  BY DEF ClientInv, CommandInv, SetupInv, SetupSteps
<1>5. written[p] # Missing => file[p].config # written[p].new
  BY <1>1, <1>4, NotWritten
<1>6. PathInv(p)'
  BY <1>1, <1>4, <1>5, MissingAssumption DEF PathInv, Pristine
<1> QED BY <1>6

LEMMA WriteBackupStep == ASSUME ClientInv, WriteBackup PROVE ClientInv'
<1>1. UNCHANGED <<edits, kept, raced, written>> /\ proc.step = "backup"
  BY DEF WriteBackup
<1>2. PICK c, d, p : c = proc /\ d = proc' /\ p = proc.path
  OBVIOUS
<1>3. /\ c \in Commands /\ p \in Clients /\ p = c.path
      /\ file \in [Clients -> Files] /\ kept \in [Clients -> Optional(Configs)]
      /\ written \in [Clients -> Optional([new : Configs, old : Configs])]
  BY <1>1, <1>2, Running DEF Steps, SetupSteps, ClientInv, TypeInv
<1>4. /\ c.undo = FALSE /\ c.old \in Configs /\ c.old # Missing /\ Pristine(c.old)
      /\ c.new # Missing /\ c.new.by = "setup"
      /\ file[p].config # Missing => file[p].config.by # "setup"
      /\ p \notin raced => file[p].config = c.old
  BY <1>1, <1>2, <1>3 DEF ClientInv, CommandInv, SetupInv, SetupSteps, Commands, Optional
<1>5. CASE Put("backup", proc.old) /\ proc' = [proc EXCEPT !.step = "metaTmp"]
  <2>1. PICK f : f = [file[p] EXCEPT !.backup = c.old] /\ file' = [file EXCEPT ![p] = f]
    BY <1>2, <1>5 DEF Put
  <2>2. f \in Files /\ file'[p] = f /\ PathInv(p)' /\ f.config = file[p].config /\ f.backup = c.old
    <3>1. c.old \in Optional(Configs) /\ Missing \in Optional(Metadata) /\ file[p] \in Files
      BY <1>3, <1>4 DEF Optional
    <3>2. f \in Files /\ f.config = file[p].config /\ f.backup = c.old /\ f.meta = file[p].meta
      BY <2>1, <3>1, OneFile
    <3>3. file'[p] = f
      BY <1>3, <2>1
    <3> QED BY <1>1, <1>2, <1>4, <3>2, <3>3, BackupWritten
  <2>3. /\ d \in Commands /\ d.step = "metaTmp" /\ d.undo = c.undo /\ d.path = c.path
        /\ d.new = c.new /\ d.old = c.old
    BY <1>2, <1>3, <1>5, NextStage DEF Steps, SetupSteps
  <2>4. CommandInv'
    BY <1>1, <1>2, <1>3, <1>4, <2>2, <2>3
       DEF CommandInv, SetupInv, RestoreInv, DropInv, SetupSteps, RestoreSteps, DropSteps, Pristine
  <2> QED BY <1>1, <1>2, <1>3, <2>1, <2>2, <2>3, <2>4, PathStep
<1>6. CASE HalfPut("backup", Truncated(proc.old)) /\ proc' = Done(proc, FALSE)
  <2>1. d = Idle \/ (d \in Commands /\ d.step = "begin")
    BY <1>2, <1>3, <1>6, DoneCommand
  <2>2. CASE UNCHANGED file
    BY <1>1, <1>2, <1>3, <2>1, <2>2, CalmEnd DEF SameFiles
  <2>3. CASE Put("backup", Truncated(proc.old))
    <3>1. PICK x, f : x = Truncated(c.old) /\ f = [file[p] EXCEPT !.backup = x]
                      /\ file' = [file EXCEPT ![p] = f]
      BY <1>2, <2>3 DEF Put
    <3>2. x \in Configs /\ Pristine(x)
      BY <1>4, <3>1, TruncatedConfig DEF Pristine
    <3>3. f \in Files /\ file'[p] = f /\ PathInv(p)'
      <4>1. x \in Optional(Configs) /\ Missing \in Optional(Metadata) /\ file[p] \in Files
        BY <1>3, <3>2 DEF Optional
      <4>2. f \in Files /\ f.config = file[p].config /\ f.backup = x /\ f.meta = file[p].meta
        BY <3>1, <4>1, OneFile
      <4>3. file'[p] = f
        BY <1>3, <3>1
      <4> QED BY <1>1, <1>2, <3>2, <4>2, <4>3, BackupWritten
    <3>4. CommandInv'
      BY <1>2, <2>1, HoldsNothing
    <3> QED BY <1>1, <1>2, <1>3, <2>1, <3>1, <3>3, <3>4, PathStep
  <2> QED BY <1>6, <2>2, <2>3 DEF HalfPut
<1> QED BY <1>5, <1>6 DEF WriteBackup

\* A temporary file is written, and the command goes on.
LEMMA TempWritten ==
    ASSUME ClientInv, NEW p \in Clients, NEW f \in Files,
           f.config = file[p].config, f.backup = file[p].backup, f.meta = file[p].meta,
           file' = [file EXCEPT ![p] = f]
    PROVE  file' \in [Clients -> Files] /\ file'[p] = f /\ \A q \in Clients : SameFiles(q)
BY DEF SameFiles, ClientInv, TypeInv

LEMMA SetupFacts ==
    ASSUME ClientInv, proc.step \in SetupSteps, NEW c, c = proc, NEW p, p = proc.path
    PROVE  /\ c \in Commands /\ p \in Clients /\ p = c.path /\ c.client \in Clients
           /\ file \in [Clients -> Files] /\ file[p] \in Files /\ kept \in [Clients -> Optional(Configs)]
           /\ written \in [Clients -> Optional([new : Configs, old : Configs])]
           /\ c.undo = FALSE /\ c.old \in Configs /\ c.old # Missing /\ Pristine(c.old)
           /\ c.new \in Configs /\ c.new # Missing /\ c.new.by = "setup"
           /\ file[p].config # Missing => file[p].config.by # "setup"
           /\ PathInv(p)
<1>1. /\ c \in Commands /\ p \in Clients /\ p = c.path /\ c.client \in Clients /\ PathInv(p)
      /\ file \in [Clients -> Files] /\ file[p] \in Files /\ kept \in [Clients -> Optional(Configs)]
      /\ written \in [Clients -> Optional([new : Configs, old : Configs])]
  BY Running DEF Steps, SetupSteps, ClientInv, TypeInv, Commands
<1>2. /\ c.undo = FALSE /\ c.old \in Configs /\ c.old # Missing /\ Pristine(c.old)
      /\ c.new \in Configs /\ c.new # Missing /\ c.new.by = "setup"
      /\ file[p].config # Missing => file[p].config.by # "setup"
  BY <1>1 DEF ClientInv, CommandInv, SetupInv, SetupSteps, Commands, Optional
<1> QED BY <1>1, <1>2

LEMMA WriteMetaTempStep == ASSUME ClientInv, WriteMetaTemp PROVE ClientInv'
<1>1. UNCHANGED <<edits, kept, raced, written>> /\ proc.step = "metaTmp"
  BY DEF WriteMetaTemp
<1>2. PICK c, d, p, m : c = proc /\ d = proc' /\ p = proc.path /\ m = UndoMetadata(c.client, c.new)
  OBVIOUS
<1>3. /\ c \in Commands /\ p \in Clients /\ p = c.path /\ c.client \in Clients
      /\ file \in [Clients -> Files] /\ file[p] \in Files
      /\ c.undo = FALSE /\ c.old # Missing /\ Pristine(c.old)
      /\ c.new \in Configs /\ c.new # Missing /\ c.new.by = "setup"
      /\ file[p].config # Missing => file[p].config.by # "setup"
  BY <1>1, <1>2, SetupFacts DEF SetupSteps
<1>4. /\ p \notin raced => file[p].config = c.old
      /\ file[p].backup = c.old
  BY <1>1, <1>2 DEF ClientInv, CommandInv, SetupInv, SetupSteps
<1>5. m \in Metadata
  BY <1>2, <1>3 DEF UndoMetadata, Metadata
<1>6. m \in Optional(Metadata) /\ Missing \in Optional(Configs)
  BY <1>5 DEF Optional
<1>7. ASSUME Put("metaTmp", m)
      PROVE  /\ file' \in [Clients -> Files] /\ (\A q \in Clients : SameFiles(q)) /\ file'[p].metaTmp = m
  <2>1. PICK f : f = [file[p] EXCEPT !.metaTmp = m] /\ file' = [file EXCEPT ![p] = f]
    BY <1>2, <1>7 DEF Put
  <2>2. /\ f \in Files /\ f.config = file[p].config /\ f.backup = file[p].backup /\ f.meta = file[p].meta
        /\ f.metaTmp = m
    BY <1>3, <1>6, <2>1, OneFile
  <2> QED BY <1>3, <2>1, <2>2, TempWritten
<1>8. CASE Put("metaTmp", m) /\ d = [c EXCEPT !.step = "metaRename"]
  <2>1. /\ d \in Commands /\ d.step = "metaRename" /\ d.undo = c.undo /\ d.path = c.path
        /\ d.client = c.client /\ d.new = c.new /\ d.old = c.old
    BY <1>3, <1>8, NextStage DEF Steps, SetupSteps
  <2>2. CommandInv'
    BY <1>1, <1>2, <1>3, <1>4, <1>7, <1>8, <2>1
       DEF CommandInv, SetupInv, RestoreInv, DropInv, SetupSteps, RestoreSteps, DropSteps, Pristine, SameFiles
  <2> QED BY <1>1, <1>2, <1>7, <1>8, <2>1, <2>2, CalmStep
<1>9. CASE d = Done(c, FALSE) /\ HalfPut("metaTmp", m)
  <2>1. d = Idle \/ (d \in Commands /\ d.step = "begin")
    BY <1>3, <1>9, DoneCommand
  <2>2. file' \in [Clients -> Files] /\ \A q \in Clients : SameFiles(q)
    BY <1>3, <1>7, <1>9 DEF HalfPut, SameFiles
  <2> QED BY <1>1, <1>2, <2>1, <2>2, CalmEnd
<1> QED BY <1>2, <1>8, <1>9 DEF WriteMetaTemp, HalfPut

LEMMA RenameMetaStep == ASSUME ClientInv, RenameMeta PROVE ClientInv'
<1>1. UNCHANGED <<edits, kept, raced, written>> /\ proc.step = "metaRename"
  BY DEF RenameMeta
<1>2. PICK c, d, p, m : c = proc /\ d = proc' /\ p = proc.path /\ m = file[proc.path].metaTmp
  OBVIOUS
<1>3. /\ c \in Commands /\ p \in Clients /\ p = c.path /\ c.client \in Clients /\ PathInv(p)
      /\ file \in [Clients -> Files] /\ file[p] \in Files /\ kept \in [Clients -> Optional(Configs)]
      /\ written \in [Clients -> Optional([new : Configs, old : Configs])]
      /\ c.undo = FALSE /\ c.old # Missing /\ Pristine(c.old)
      /\ c.new \in Configs /\ c.new # Missing /\ c.new.by = "setup"
      /\ file[p].config # Missing => file[p].config.by # "setup"
  BY <1>1, <1>2, SetupFacts DEF SetupSteps
<1>4. /\ p \notin raced => file[p].config = c.old
      /\ file[p].backup = c.old /\ m = UndoMetadata(c.client, c.new)
  BY <1>1, <1>2 DEF ClientInv, CommandInv, SetupInv, SetupSteps
<1>5. CASE /\ d = [c EXCEPT !.step = "configTmp"]
           /\ file' = [file EXCEPT ![proc.path].meta = file[proc.path].metaTmp, ![proc.path].metaTmp = Missing]
  <2>1. PICK e, f : /\ e = [file[p] EXCEPT !.meta = m] /\ f = [e EXCEPT !.metaTmp = Missing]
                    /\ file' = [file EXCEPT ![p] = f]
    <3>1. file' = [file EXCEPT ![p].meta = m, ![p].metaTmp = Missing]
      BY <1>2, <1>5
    <3>2. PICK mid : mid = [file EXCEPT ![p] = [file[p] EXCEPT !.meta = m]]
      OBVIOUS
    <3>3. file' = [mid EXCEPT ![p] = [mid[p] EXCEPT !.metaTmp = Missing]]
      BY <3>1, <3>2
    <3>4. mid[p] = [file[p] EXCEPT !.meta = m]
      BY <1>3, <3>2
    <3>5. [mid EXCEPT ![p] = [mid[p] EXCEPT !.metaTmp = Missing]]
             = [file EXCEPT ![p] = [mid[p] EXCEPT !.metaTmp = Missing]]
      BY <1>3, <3>2
    <3> QED BY <3>3, <3>4, <3>5
  <2>2. m \in Optional(Metadata) /\ Missing \in Optional(Configs) /\ Missing \in Optional(Metadata)
    BY <1>2, <1>3 DEF Files, Optional
  <2>3. e \in Files /\ e.config = file[p].config /\ e.backup = file[p].backup /\ e.meta = m
    BY <1>3, <2>1, <2>2, OneFile
  <2>4. f \in Files /\ f.config = file[p].config /\ f.backup = file[p].backup /\ f.meta = m
    <3>1. f = [e EXCEPT !.metaTmp = Missing]
      BY <2>1
    <3>2. f \in Files /\ f.config = e.config /\ f.backup = e.backup /\ f.meta = e.meta
      BY ONLY <2>2, <2>3, <3>1, OneFile
    <3> QED BY <2>3, <3>2
  <2>5. file'[p] = f
    BY <1>3, <2>1
  <2>6. m.expected = c.new /\ m # Missing
    BY <1>3, <1>4, MissingAssumption DEF UndoMetadata, Metadata
  <2>7. PathInv(p)'
    <3>1. written[p] # Missing => file[p].config # written[p].new
      BY <1>3, NotWritten
    <3> QED BY <1>1, <1>3, <2>4, <2>5, <2>6, <3>1 DEF PathInv, Pristine
  <2>8. /\ d \in Commands /\ d.step = "configTmp" /\ d.undo = c.undo /\ d.path = c.path
        /\ d.client = c.client /\ d.new = c.new /\ d.old = c.old
    BY <1>3, <1>5, NextStage DEF Steps, SetupSteps
  <2>9. CommandInv'
    BY <1>1, <1>2, <1>3, <1>4, <2>4, <2>5, <2>8
       DEF CommandInv, SetupInv, RestoreInv, DropInv, SetupSteps, RestoreSteps, DropSteps, Pristine
  <2> QED BY <1>1, <1>2, <1>3, <2>1, <2>4, <2>7, <2>8, <2>9, PathStep
<1>6. CASE d = Done(c, FALSE) /\ UNCHANGED file
  <2>1. d = Idle \/ (d \in Commands /\ d.step = "begin")
    BY <1>3, <1>6, DoneCommand
  <2> QED BY <1>1, <1>2, <1>3, <1>6, <2>1, CalmEnd DEF SameFiles
<1> QED BY <1>2, <1>5, <1>6 DEF RenameMeta

LEMMA RestoreFacts ==
    ASSUME ClientInv, proc.step \in RestoreSteps, NEW c, c = proc, NEW p, p = proc.path
    PROVE  /\ c \in Commands /\ p \in Clients /\ p = c.path /\ PathInv(p)
           /\ file \in [Clients -> Files] /\ file[p] \in Files /\ kept \in [Clients -> Optional(Configs)]
           /\ written \in [Clients -> Optional([new : Configs, old : Configs])]
           /\ c.undo = TRUE /\ c.new \in Configs /\ c.new # Missing /\ c.new = file[p].backup
           /\ c.force = FALSE /\ p \notin raced => file[p].config # Missing /\ file[p].config.by = "setup"
<1>1. /\ c \in Commands /\ p \in Clients /\ p = c.path /\ PathInv(p)
      /\ file \in [Clients -> Files] /\ file[p] \in Files /\ kept \in [Clients -> Optional(Configs)]
      /\ written \in [Clients -> Optional([new : Configs, old : Configs])]
  BY Running DEF Steps, RestoreSteps, ClientInv, TypeInv, Commands
<1>2. /\ c.undo = TRUE /\ c.new \in Configs /\ c.new # Missing /\ c.new = file[p].backup
      /\ c.force = FALSE /\ p \notin raced => file[p].config # Missing /\ file[p].config.by = "setup"
  BY <1>1 DEF ClientInv, CommandInv, RestoreInv, Commands, Optional
<1> QED BY <1>1, <1>2

LEMMA WriteConfigTempStep == ASSUME ClientInv, WriteConfigTemp PROVE ClientInv'
<1>1. UNCHANGED <<edits, kept, raced, written>> /\ proc.step \in {"configTmp", "restoreTmp"}
  BY DEF WriteConfigTemp, Replacing
<1>2. PICK c, d, p : c = proc /\ d = proc' /\ p = proc.path
  OBVIOUS
<1>3. /\ c \in Commands /\ p \in Clients /\ p = c.path /\ c.new \in Configs
      /\ file \in [Clients -> Files] /\ file[p] \in Files
      /\ c.undo = (c.step = "restoreTmp")
  <2>1. CASE proc.step = "configTmp"
    BY <1>2, <2>1, SetupFacts DEF SetupSteps
  <2>2. CASE proc.step = "restoreTmp"
    BY <1>2, <2>2, RestoreFacts DEF RestoreSteps
  <2> QED BY <1>1, <2>1, <2>2
<1>4. ASSUME NEW x \in Configs, Put("configTmp", x)
      PROVE  file' \in [Clients -> Files] /\ \A q \in Clients : SameFiles(q)
  <2>1. PICK f : f = [file[p] EXCEPT !.configTmp = x] /\ file' = [file EXCEPT ![p] = f]
    BY <1>2, <1>4 DEF Put
  <2>2. x \in Optional(Configs) /\ Missing \in Optional(Metadata)
    BY DEF Optional
  <2>3. f \in Files /\ f.config = file[p].config /\ f.backup = file[p].backup /\ f.meta = file[p].meta
    BY <1>3, <2>1, <2>2, OneFile
  <2> QED BY <1>3, <2>1, <2>3, TempWritten
<1>5. file' \in [Clients -> Files] /\ \A q \in Clients : SameFiles(q)
  <2>1. PICK x : x = Truncated(c.new) /\ x \in Configs
    BY <1>3, TruncatedConfig
  <2>2. UNCHANGED file \/ Put("configTmp", c.new) \/ Put("configTmp", x)
    BY <1>2, <2>1 DEF WriteConfigTemp, HalfPut
  <2>3. CASE UNCHANGED file
    BY <1>3, <2>3 DEF SameFiles
  <2> QED BY <1>3, <1>4, <2>1, <2>2, <2>3
<1>6. CASE c.step = "restoreTmp"
  <2>1. d = Done(c, FALSE) \/ d = [c EXCEPT !.step = "restore"]
    BY <1>2, <1>3, <1>6 DEF WriteConfigTemp
  <2>2. CASE d = Done(c, FALSE)
    <3>1. d = Idle \/ (d \in Commands /\ d.step = "begin")
      BY <1>3, <2>2, DoneCommand
    <3> QED BY <1>1, <1>2, <1>5, <3>1, CalmEnd
  <2>3. CASE d = [c EXCEPT !.step = "restore"]
    <3>1. /\ d \in Commands /\ d.step = "restore" /\ d.undo = c.undo /\ d.path = c.path
          /\ d.force = c.force /\ d.new = c.new
      BY <1>3, <2>3, NextStage DEF Steps, RestoreSteps
    <3>2. CommandInv'
      BY <1>1, <1>2, <1>3, <1>5, <1>6, <3>1
         DEF ClientInv, CommandInv, SetupInv, RestoreInv, DropInv, SetupSteps, RestoreSteps, DropSteps, SameFiles
    <3> QED BY <1>1, <1>2, <1>5, <3>1, <3>2, CalmStep
  <2> QED BY <2>1, <2>2, <2>3
<1>7. CASE c.step = "configTmp"
  <2>1. PICK s \in {"replace", "retract"} : d = [c EXCEPT !.step = s]
    BY <1>2, <1>3, <1>7 DEF WriteConfigTemp
  <2>2. /\ d \in Commands /\ d.step = s /\ d.undo = c.undo /\ d.path = c.path
        /\ d.client = c.client /\ d.new = c.new /\ d.old = c.old
    BY <1>3, <2>1, NextStage DEF Steps, SetupSteps
  <2>3. CommandInv'
    BY <1>1, <1>2, <1>3, <1>5, <1>7, <2>1, <2>2
       DEF ClientInv, CommandInv, SetupInv, RestoreInv, DropInv, SetupSteps, RestoreSteps, DropSteps, SameFiles,
           Pristine
  <2> QED BY <1>1, <1>2, <1>5, <2>2, <2>3, CalmStep
<1> QED BY <1>1, <1>2, <1>6, <1>7

\* The configuration is replaced and the temporary file is gone.
ConfigReplaced(p, x) == file' = [file EXCEPT ![p].config = x, ![p].configTmp = Missing]
OnePath(p, f) == file' = [file EXCEPT ![p] = f]

LEMMA ConfigPut ==
    ASSUME ClientInv, NEW p \in Clients, NEW x \in Configs, ConfigReplaced(p, x)
    PROVE  \E f \in Files : /\ OnePath(p, f) /\ file'[p] = f
                            /\ f.config = x /\ f.backup = file[p].backup /\ f.meta = file[p].meta
<1>1. file \in [Clients -> Files] /\ file[p] \in Files
  BY DEF ClientInv, TypeInv
<1>2. PICK e, f : e = [file[p] EXCEPT !.config = x] /\ f = [e EXCEPT !.configTmp = Missing]
  OBVIOUS
<1>3. file' = [file EXCEPT ![p] = f]
  <2>1. PICK mid : mid = [file EXCEPT ![p] = [file[p] EXCEPT !.config = x]]
    OBVIOUS
  <2>2. file' = [mid EXCEPT ![p] = [mid[p] EXCEPT !.configTmp = Missing]]
    BY <2>1 DEF ConfigReplaced
  <2>3. mid[p] = [file[p] EXCEPT !.config = x]
    BY <1>1, <2>1
  <2>4. [mid EXCEPT ![p] = [mid[p] EXCEPT !.configTmp = Missing]]
           = [file EXCEPT ![p] = [mid[p] EXCEPT !.configTmp = Missing]]
    BY <1>1, <2>1
  <2> QED BY <1>2, <2>2, <2>3, <2>4
<1>4. x \in Optional(Configs) /\ Missing \in Optional(Configs) /\ Missing \in Optional(Metadata)
  BY DEF Optional
<1>5. e \in Files /\ e.config = x /\ e.backup = file[p].backup /\ e.meta = file[p].meta
  BY <1>1, <1>2, <1>4, OneFile
<1>6. f = [e EXCEPT !.configTmp = Missing]
  BY <1>2
<1>7. f \in Files /\ f.config = e.config /\ f.backup = e.backup /\ f.meta = e.meta
  BY ONLY <1>4, <1>5, <1>6, OneFile
<1>8. file'[p] = f
  BY <1>1, <1>3
<1> QED BY <1>3, <1>5, <1>7, <1>8 DEF OnePath

LEMMA ReplaceConfigStep == ASSUME ClientInv, ReplaceConfig PROVE ClientInv'
<1>1. UNCHANGED <<edits, kept, raced>> /\ proc.step = "replace"
  BY DEF ReplaceConfig
<1>2. PICK c, d, p, m, w : /\ c = proc /\ d = proc' /\ p = proc.path /\ m = UndoMetadata(c.client, c.new)
                           /\ w = [new |-> c.new, old |-> c.old]
  OBVIOUS
<1>3. /\ c \in Commands /\ p \in Clients /\ p = c.path /\ c.client \in Clients /\ PathInv(p)
      /\ file \in [Clients -> Files] /\ file[p] \in Files /\ kept \in [Clients -> Optional(Configs)]
      /\ written \in [Clients -> Optional([new : Configs, old : Configs])]
      /\ c.undo = FALSE /\ c.old \in Configs /\ c.old # Missing /\ Pristine(c.old)
      /\ c.new \in Configs /\ c.new # Missing /\ c.new.by = "setup"
      /\ file[p].config # Missing => file[p].config.by # "setup"
  BY <1>1, <1>2, SetupFacts DEF SetupSteps
<1>4. /\ p \notin raced => file[p].config = c.old
      /\ file[p].backup = c.old /\ file[p].meta = m
  BY <1>1, <1>2 DEF ClientInv, CommandInv, SetupInv, SetupSteps
<1>5. CASE /\ d = Done(c, TRUE)
           /\ file' = [file EXCEPT ![proc.path].config = proc.new, ![proc.path].configTmp = Missing]
           /\ written' = [written EXCEPT ![proc.path] = [new |-> proc.new, old |-> proc.old]]
  <2>1. PICK f \in Files : /\ file' = [file EXCEPT ![p] = f] /\ file'[p] = f
                           /\ f.config = c.new /\ f.backup = c.old /\ f.meta = m
    <3>1. ConfigReplaced(p, c.new)
      BY <1>2, <1>5 DEF ConfigReplaced
    <3>2. \E f \in Files : /\ OnePath(p, f) /\ file'[p] = f
                           /\ f.config = c.new /\ f.backup = file[p].backup /\ f.meta = file[p].meta
      BY <1>3, <3>1, ConfigPut
    <3> QED BY <1>4, <3>2 DEF OnePath
  <2>2. /\ written' \in [Clients -> Optional([new : Configs, old : Configs])]
        /\ written'[p] = w /\ \A q \in Clients \ {p} : written'[q] = written[q]
    <3>1. w \in Optional([new : Configs, old : Configs])
      BY <1>2, <1>3 DEF Optional
    <3>2. written' = [written EXCEPT ![p] = w]
      BY <1>2, <1>5
    <3> QED BY <1>3, <3>1, <3>2
  <2>3. m.expected = c.new /\ m # Missing /\ w.new = c.new /\ w.old = c.old
    BY <1>2, <1>3, MissingAssumption DEF UndoMetadata, Metadata
  <2>4. PathInv(p)'
    <3>1. p \notin raced => kept[p] = c.old
      BY <1>3, <1>4 DEF PathInv
    <3> QED BY <1>1, <1>3, <2>1, <2>2, <2>3, <3>1 DEF PathInv, Pristine
  <2>5. d = Idle \/ (d \in Commands /\ d.step = "begin")
    BY <1>3, <1>5, DoneCommand
  <2>6. CommandInv'
    BY <1>2, <2>5, HoldsNothing
  <2> QED BY <1>1, <1>2, <1>3, <2>1, <2>2, <2>4, <2>5, <2>6, PathStep
<1>6. CASE d = [c EXCEPT !.step = "retract"] /\ UNCHANGED <<file, written>>
  <2>1. /\ d \in Commands /\ d.step = "retract" /\ d.undo = c.undo /\ d.path = c.path
        /\ d.client = c.client /\ d.new = c.new /\ d.old = c.old
    BY <1>3, <1>6, NextStage DEF Steps, SetupSteps
  <2>2. CommandInv'
    BY <1>1, <1>2, <1>3, <1>4, <1>6, <2>1
       DEF CommandInv, SetupInv, RestoreInv, DropInv, SetupSteps, RestoreSteps, DropSteps, Pristine
  <2> QED BY <1>1, <1>2, <1>3, <1>6, <2>1, <2>2, CalmStep DEF SameFiles
<1> QED BY <1>2, <1>5, <1>6 DEF ReplaceConfig

LEMMA RetractMetaStep == ASSUME ClientInv, RetractMeta PROVE ClientInv'
<1>1. UNCHANGED <<edits, kept, raced, written>> /\ proc.step = "retract" /\ proc' = Done(proc, FALSE)
  BY DEF RetractMeta
<1>2. PICK c, d, p : c = proc /\ d = proc' /\ p = proc.path
  OBVIOUS
<1>3. /\ c \in Commands /\ p \in Clients /\ PathInv(p)
      /\ file \in [Clients -> Files] /\ file[p] \in Files /\ kept \in [Clients -> Optional(Configs)]
      /\ written \in [Clients -> Optional([new : Configs, old : Configs])]
      /\ file[p].config # Missing => file[p].config.by # "setup"
  BY <1>1, <1>2, SetupFacts DEF SetupSteps
<1>4. d = Idle \/ (d \in Commands /\ d.step = "begin")
  BY <1>1, <1>2, <1>3, DoneCommand
<1>5. CASE UNCHANGED file
  BY <1>1, <1>2, <1>3, <1>4, <1>5, CalmEnd DEF SameFiles
<1>6. CASE Put("meta", Missing)
  <2>1. PICK f : f = [file[p] EXCEPT !.meta = Missing] /\ file' = [file EXCEPT ![p] = f]
    BY <1>2, <1>6 DEF Put
  <2>2. Missing \in Optional(Metadata) /\ Missing \in Optional(Configs)
    BY DEF Optional
  <2>3. f \in Files /\ f.config = file[p].config /\ f.backup = file[p].backup /\ f.meta = Missing
    BY <1>3, <2>1, <2>2, OneFile
  <2>4. file'[p] = f
    BY <1>3, <2>1
  <2>5. PathInv(p)'
    <3>1. written[p] # Missing => file[p].config # written[p].new
      BY <1>3, NotWritten
    <3> QED BY <1>1, <1>3, <2>3, <2>4, <3>1 DEF PathInv, Pristine
  <2>6. CommandInv'
    BY <1>2, <1>4, HoldsNothing
  <2> QED BY <1>1, <1>2, <1>3, <1>4, <2>1, <2>3, <2>5, <2>6, PathStep
<1> QED BY <1>5, <1>6 DEF RetractMeta

-----------------------------------------------------------------------------
(* Undo *)

LEMMA ReadBackupStep == ASSUME ClientInv, ReadBackup PROVE ClientInv'
<1>1. UNCHANGED <<file, edits, kept, raced, written>> /\ proc.step = "readBackup"
  BY DEF ReadBackup
<1>2. PICK c, d, p, f : c = proc /\ d = proc' /\ p = proc.path /\ f = file[p]
  OBVIOUS
<1>3. /\ c \in Commands /\ p \in Clients /\ p = c.path /\ f \in Files /\ PathInv(p)
      /\ file \in [Clients -> Files] /\ c.undo = TRUE
  BY <1>1, <1>2, Running DEF Steps, ClientInv, TypeInv, CommandInv
<1>4. CASE d = Done(c, FALSE)
  <2>1. d = Idle \/ (d \in Commands /\ d.step = "begin")
    BY <1>3, <1>4, DoneCommand
  <2> QED BY <1>1, <1>2, <1>3, <2>1, CalmEnd DEF SameFiles
<1>5. CASE d # Done(c, FALSE) /\ AlreadyRestored(f)
  <2>1. Parses(c.client, f.backup) /\ d = [c EXCEPT !.step = "dropMeta"]
    BY <1>2, <1>5 DEF ReadBackup
  <2>2. f.backup # Missing /\ f.config = f.backup
    BY <1>5, <2>1 DEF Parses, AlreadyRestored
  <2>3. d \in Commands /\ d.step = "dropMeta" /\ d.path = c.path
    BY <1>3, <2>1, NextStage DEF Steps, DropSteps
  <2>4. Pristine(f.config) /\ (p \notin raced => kept[p] = f.config)
    BY <1>2, <1>3, <2>2 DEF PathInv
  <2>5. CommandInv'
    BY <1>1, <1>2, <1>3, <2>2, <2>3, <2>4
       DEF CommandInv, SetupInv, RestoreInv, DropInv, SetupSteps, RestoreSteps, DropSteps, Pristine
  <2> QED BY <1>1, <1>2, <1>3, <2>3, <2>5, CalmStep DEF SameFiles
<1>6. CASE d # Done(c, FALSE) /\ ~AlreadyRestored(f)
  <2>1. /\ Parses(c.client, f.backup) /\ (c.force \/ Owned(c, f))
        /\ d = [c EXCEPT !.step = "restoreTmp", !.new = f.backup]
    BY <1>2, <1>6 DEF ReadBackup
  <2>2. f.backup # Missing /\ f.backup \in Optional(Configs)
    BY <1>3, <2>1 DEF Parses, Files
  <2>3. c.force = FALSE => f.config # Missing /\ f.config.by = "setup"
    BY <1>2, <1>3, <2>1 DEF Owned, PathInv
  <2>4. /\ d \in Commands /\ d.step = "restoreTmp" /\ d.undo = c.undo /\ d.path = c.path
        /\ d.force = c.force /\ d.new = f.backup
    <3>1. PICK one : one = [c EXCEPT !.step = "restoreTmp"]
      OBVIOUS
    <3>2. /\ one \in Commands /\ one.step = "restoreTmp" /\ one.undo = c.undo /\ one.path = c.path
          /\ one.force = c.force
      BY <1>3, <3>1, NextStage DEF Steps, RestoreSteps
    <3>3. d = [one EXCEPT !.new = f.backup]
      BY <2>1, <3>1
    <3> QED BY <2>2, <3>2, <3>3 DEF Commands
  <2>5. CommandInv'
    BY <1>1, <1>2, <1>3, <2>2, <2>3, <2>4
       DEF CommandInv, SetupInv, RestoreInv, DropInv, SetupSteps, RestoreSteps, DropSteps
  <2> QED BY <1>1, <1>2, <1>3, <2>4, <2>5, CalmStep DEF SameFiles
<1> QED BY <1>4, <1>5, <1>6

LEMMA RestoreConfigStep == ASSUME ClientInv, RestoreConfig PROVE ClientInv'
<1>1. UNCHANGED <<edits, raced, written>> /\ proc.step = "restore"
  BY DEF RestoreConfig
<1>2. PICK c, d, p : c = proc /\ d = proc' /\ p = proc.path
  OBVIOUS
<1>3. /\ c \in Commands /\ p \in Clients /\ p = c.path /\ PathInv(p)
      /\ file \in [Clients -> Files] /\ file[p] \in Files /\ kept \in [Clients -> Optional(Configs)]
      /\ written \in [Clients -> Optional([new : Configs, old : Configs])]
      /\ c.undo = TRUE /\ c.new \in Configs /\ c.new # Missing /\ c.new = file[p].backup
      /\ c.force = FALSE /\ p \notin raced => file[p].config # Missing /\ file[p].config.by = "setup"
  BY <1>1, <1>2, RestoreFacts DEF RestoreSteps
<1>4. CASE /\ d = [c EXCEPT !.step = "dropMeta"]
           /\ file' = [file EXCEPT ![proc.path].config = proc.new, ![proc.path].configTmp = Missing]
           /\ kept' = IF proc.force THEN [kept EXCEPT ![proc.path] = proc.new] ELSE kept
  <2>1. PICK f \in Files : /\ OnePath(p, f) /\ file'[p] = f
                           /\ f.config = c.new /\ f.backup = c.new /\ f.meta = file[p].meta
    <3>1. ConfigReplaced(p, c.new)
      BY <1>2, <1>4 DEF ConfigReplaced
    <3>2. \E f \in Files : /\ OnePath(p, f) /\ file'[p] = f
                           /\ f.config = c.new /\ f.backup = file[p].backup /\ f.meta = file[p].meta
      BY <1>3, <3>1, ConfigPut
    <3> QED BY <1>3, <3>2
  <2>2. /\ kept' \in [Clients -> Optional(Configs)] /\ \A q \in Clients \ {p} : kept'[q] = kept[q]
        /\ kept'[p] = c.new \/ kept'[p] = kept[p]
        /\ p \notin raced => kept'[p] = c.new
    <3>1. CASE c.force = TRUE
      <4>1. kept' = [kept EXCEPT ![p] = c.new] /\ c.new \in Optional(Configs)
        BY <1>2, <1>3, <1>4, <3>1 DEF Optional
      <4> QED BY <1>3, <4>1
    <3>2. CASE c.force = FALSE
      <4>1. kept' = kept
        BY <1>2, <1>4, <3>2
      <4>2. p \notin raced => kept[p] = file[p].backup
        BY <1>3, <3>2 DEF PathInv
      <4> QED BY <1>3, <4>1, <4>2
    <3> QED BY <1>3, <3>1, <3>2 DEF Commands
  <2>3. Pristine(c.new)
    BY <1>3 DEF PathInv
  <2>4. PathInv(p)'
    <3>1. written[p] # Missing => c.new # written[p].new
      BY <1>3, <2>3 DEF PathInv, Pristine
    <3> QED BY <1>1, <1>3, <2>1, <2>2, <2>3, <3>1 DEF PathInv, Pristine
  <2>5. d \in Commands /\ d.step = "dropMeta" /\ d.path = c.path
    BY <1>3, <1>4, NextStage DEF Steps, DropSteps
  <2>6. CommandInv'
    BY <1>1, <1>2, <1>3, <2>1, <2>2, <2>3, <2>5
       DEF CommandInv, SetupInv, RestoreInv, DropInv, SetupSteps, RestoreSteps, DropSteps, Pristine
  <2> QED BY <1>1, <1>2, <1>3, <2>1, <2>2, <2>4, <2>5, <2>6, PathStep DEF OnePath
<1>5. CASE d = Done(c, FALSE) /\ UNCHANGED <<file, kept>>
  <2>1. d = Idle \/ (d \in Commands /\ d.step = "begin")
    BY <1>3, <1>5, DoneCommand
  <2> QED BY <1>1, <1>2, <1>3, <1>5, <2>1, CalmEnd DEF SameFiles
<1> QED BY <1>2, <1>4, <1>5 DEF RestoreConfig

LEMMA DropFacts ==
    ASSUME ClientInv, proc.step \in DropSteps, NEW c, c = proc, NEW p, p = proc.path
    PROVE  /\ c \in Commands /\ p \in Clients /\ p = c.path /\ PathInv(p)
           /\ file \in [Clients -> Files] /\ file[p] \in Files /\ kept \in [Clients -> Optional(Configs)]
           /\ written \in [Clients -> Optional([new : Configs, old : Configs])]
           /\ file[p].config # Missing => Pristine(file[p].config)
           /\ p \notin raced => kept[p] = file[p].config
           /\ written[p] # Missing => file[p].config # written[p].new
<1>1. /\ c \in Commands /\ p \in Clients /\ p = c.path /\ PathInv(p)
      /\ file \in [Clients -> Files] /\ file[p] \in Files /\ kept \in [Clients -> Optional(Configs)]
      /\ written \in [Clients -> Optional([new : Configs, old : Configs])]
  BY Running DEF Steps, DropSteps, ClientInv, TypeInv, Commands
<1>2. /\ file[p].config # Missing => Pristine(file[p].config)
      /\ p \notin raced => kept[p] = file[p].config
  BY DEF ClientInv, CommandInv, DropInv
<1>3. written[p] # Missing => file[p].config # written[p].new
  BY <1>1, <1>2, NotWritten DEF Pristine
<1> QED BY <1>1, <1>2, <1>3

LEMMA DropMetaStep == ASSUME ClientInv, DropMeta PROVE ClientInv'
<1>1. UNCHANGED <<edits, kept, raced, written>> /\ proc.step = "dropMeta"
  BY DEF DropMeta
<1>2. PICK c, d, p : c = proc /\ d = proc' /\ p = proc.path
  OBVIOUS
<1>3. /\ c \in Commands /\ p \in Clients /\ p = c.path /\ PathInv(p)
      /\ file \in [Clients -> Files] /\ file[p] \in Files /\ kept \in [Clients -> Optional(Configs)]
      /\ written \in [Clients -> Optional([new : Configs, old : Configs])]
      /\ file[p].config # Missing => Pristine(file[p].config)
      /\ p \notin raced => kept[p] = file[p].config
      /\ written[p] # Missing => file[p].config # written[p].new
  BY <1>1, <1>2, DropFacts DEF DropSteps
<1>4. CASE Put("meta", Missing) /\ d = [c EXCEPT !.step = "dropBackup"]
  <2>1. PICK f : f = [file[p] EXCEPT !.meta = Missing] /\ file' = [file EXCEPT ![p] = f]
    BY <1>2, <1>4 DEF Put
  <2>2. Missing \in Optional(Metadata) /\ Missing \in Optional(Configs)
    BY DEF Optional
  <2>3. f \in Files /\ f.config = file[p].config /\ f.backup = file[p].backup /\ f.meta = Missing
    BY <1>3, <2>1, <2>2, OneFile
  <2>4. file'[p] = f
    BY <1>3, <2>1
  <2>5. PathInv(p)'
    BY <1>1, <1>3, <2>3, <2>4 DEF PathInv, Pristine
  <2>6. d \in Commands /\ d.step = "dropBackup" /\ d.path = c.path
    BY <1>3, <1>4, NextStage DEF Steps, DropSteps
  <2>7. CommandInv'
    BY <1>1, <1>2, <1>3, <2>3, <2>4, <2>6
       DEF CommandInv, SetupInv, RestoreInv, DropInv, SetupSteps, RestoreSteps, DropSteps, Pristine
  <2> QED BY <1>1, <1>2, <1>3, <2>1, <2>3, <2>5, <2>6, <2>7, PathStep
<1>5. CASE d = Done(c, FALSE) /\ UNCHANGED file
  <2>1. d = Idle \/ (d \in Commands /\ d.step = "begin")
    BY <1>3, <1>5, DoneCommand
  <2> QED BY <1>1, <1>2, <1>3, <1>5, <2>1, CalmEnd DEF SameFiles
<1> QED BY <1>2, <1>4, <1>5 DEF DropMeta

LEMMA DropBackupStep == ASSUME ClientInv, DropBackup PROVE ClientInv'
<1>1. UNCHANGED <<edits, kept, raced, written>> /\ proc.step = "dropBackup"
  BY DEF DropBackup
<1>2. PICK c, d, p : c = proc /\ d = proc' /\ p = proc.path
  OBVIOUS
<1>3. /\ c \in Commands /\ p \in Clients /\ p = c.path /\ PathInv(p)
      /\ file \in [Clients -> Files] /\ file[p] \in Files /\ kept \in [Clients -> Optional(Configs)]
      /\ written \in [Clients -> Optional([new : Configs, old : Configs])]
      /\ file[p].config # Missing => Pristine(file[p].config)
      /\ p \notin raced => kept[p] = file[p].config
      /\ written[p] # Missing => file[p].config # written[p].new
  BY <1>1, <1>2, DropFacts DEF DropSteps
<1>4. d = Idle \/ (d \in Commands /\ d.step = "begin")
  <2>1. d = Done(c, TRUE) \/ d = Done(c, FALSE)
    BY <1>2 DEF DropBackup
  <2> QED BY <1>3, <2>1, DoneCommand
<1>5. CASE UNCHANGED file
  BY <1>1, <1>2, <1>3, <1>4, <1>5, CalmEnd DEF SameFiles
<1>6. CASE Put("backup", Missing)
  <2>1. PICK f : f = [file[p] EXCEPT !.backup = Missing] /\ file' = [file EXCEPT ![p] = f]
    BY <1>2, <1>6 DEF Put
  <2>2. Missing \in Optional(Metadata) /\ Missing \in Optional(Configs)
    BY DEF Optional
  <2>3. f \in Files /\ f.config = file[p].config /\ f.backup = Missing /\ f.meta = file[p].meta
    BY <1>3, <2>1, <2>2, OneFile
  <2>4. file'[p] = f
    BY <1>3, <2>1
  <2>5. PathInv(p)'
    BY <1>1, <1>3, <2>3, <2>4 DEF PathInv, Pristine
  <2>6. CommandInv'
    BY <1>2, <1>4, HoldsNothing
  <2> QED BY <1>1, <1>2, <1>3, <1>4, <2>1, <2>3, <2>5, <2>6, PathStep
<1> QED BY <1>5, <1>6 DEF DropBackup

-----------------------------------------------------------------------------
(* Crashes and edits *)

LEMMA CrashStep == ASSUME ClientInv, Crash PROVE ClientInv'
<1>1. UNCHANGED <<edits, kept, raced, written>> /\ proc' = Idle /\ proc # Idle
  BY DEF Crash
<1>2. PICK c, p : c = proc /\ p = proc.path
  OBVIOUS
<1>3. /\ c \in Commands /\ p \in Clients /\ file \in [Clients -> Files] /\ file[p] \in Files
      /\ kept \in [Clients -> Optional(Configs)]
      /\ written \in [Clients -> Optional([new : Configs, old : Configs])]
  BY <1>1, <1>2 DEF ClientInv, TypeInv, Commands
<1>4. CASE UNCHANGED file
  BY <1>1, <1>3, <1>4, CalmEnd DEF SameFiles
<1>5. CASE proc.step = "backup" /\ Put("backup", Truncated(proc.old))
  <2>1. PICK x, f : x = Truncated(c.old) /\ f = [file[p] EXCEPT !.backup = x]
                    /\ file' = [file EXCEPT ![p] = f]
    BY <1>2, <1>5 DEF Put
  <2>2. c.old \in Configs /\ Pristine(c.old)
    BY <1>2, <1>5, SetupFacts DEF SetupSteps
  <2>3. x \in Configs /\ Pristine(x)
    BY <2>1, <2>2, TruncatedConfig DEF Pristine
  <2>4. x \in Optional(Configs) /\ Missing \in Optional(Metadata)
    BY <2>3 DEF Optional
  <2>5. f \in Files /\ f.config = file[p].config /\ f.backup = x /\ f.meta = file[p].meta
    BY <1>3, <2>1, <2>4, OneFile
  <2>6. file'[p] = f
    BY <1>3, <2>1
  <2>7. PathInv(p)'
    BY <1>1, <1>2, <1>5, <2>3, <2>5, <2>6, BackupWritten
  <2>8. CommandInv'
    BY <1>1, HoldsNothing
  <2> QED BY <1>1, <1>2, <1>3, <2>1, <2>5, <2>7, <2>8, PathStep
<1>6. CASE Replacing /\ Put("configTmp", Truncated(proc.new))
  <2>1. PICK x, f : x = Truncated(c.new) /\ f = [file[p] EXCEPT !.configTmp = x]
                    /\ file' = [file EXCEPT ![p] = f]
    BY <1>2, <1>6 DEF Put
  <2>2. c.new \in Configs
    <3>1. CASE proc.step = "configTmp"
      BY <1>2, <3>1, SetupFacts DEF SetupSteps
    <3>2. CASE proc.step = "restoreTmp"
      BY <1>2, <3>2, RestoreFacts DEF RestoreSteps
    <3> QED BY <1>6, <3>1, <3>2 DEF Replacing
  <2>3. x \in Optional(Configs) /\ Missing \in Optional(Metadata)
    BY <2>1, <2>2, TruncatedConfig DEF Optional
  <2>4. f \in Files /\ f.config = file[p].config /\ f.backup = file[p].backup /\ f.meta = file[p].meta
    BY <1>3, <2>1, <2>3, OneFile
  <2>5. file' \in [Clients -> Files] /\ \A q \in Clients : SameFiles(q)
    BY <1>3, <2>1, <2>4, TempWritten
  <2> QED BY <1>1, <2>5, CalmEnd
<1> QED BY <1>4, <1>5, <1>6 DEF Crash

\* What an edit leaves in the configuration: the user's text, or nothing, and
\* no server that was plain is wrapped.
LEMMA EditLeaves ==
    ASSUME ClientInv, UserEdits
    PROVE  \E p \in Clients, f \in Files :
              /\ OnePath(p, f) /\ file'[p] = f /\ f.backup = file[p].backup /\ f.meta = file[p].meta
              /\ f.metaTmp = file[p].metaTmp
              /\ f.config # Missing => /\ f.config.by = "user" /\ file[p].config # Missing
                                       /\ Pristine(file[p].config) => Pristine(f.config)
              /\ kept' = [kept EXCEPT ![p] = f.config]
              /\ raced' = IF proc.step \in Reading /\ proc.path = p THEN raced \cup {p} ELSE raced
<1>1. PICK p \in Clients :
         /\ \/ \E s \in Servers, server \in {Plain, NoCommand} :
                  /\ file[p].config # Missing
                  /\ file' = [file EXCEPT ![p].config = Edited(@, s, server, edits + 1)]
            \/ file' = [file EXCEPT ![p].config = Missing]
         /\ kept' = [kept EXCEPT ![p] = file'[p].config]
         /\ raced' = IF proc.step \in Reading /\ proc.path = p THEN raced \cup {p} ELSE raced
  BY DEF UserEdits
<1>2. file \in [Clients -> Files] /\ file[p] \in Files /\ edits + 1 \in Nat
  BY DEF ClientInv, TypeInv
<1>3. PICK x : /\ file' = [file EXCEPT ![p] = [file[p] EXCEPT !.config = x]]
               /\ x \in Optional(Configs)
               /\ x # Missing => /\ x.by = "user" /\ file[p].config # Missing
                                 /\ Pristine(file[p].config) => Pristine(x)
  <2>1. CASE file' = [file EXCEPT ![p].config = Missing]
    BY <1>1, <2>1 DEF Optional
  <2>2. ASSUME NEW s \in Servers, NEW server \in {Plain, NoCommand}, file[p].config # Missing,
               file' = [file EXCEPT ![p].config = Edited(@, s, server, edits + 1)]
        PROVE  \E x : /\ file' = [file EXCEPT ![p] = [file[p] EXCEPT !.config = x]]
                      /\ x \in Optional(Configs)
                      /\ x # Missing => /\ x.by = "user" /\ file[p].config # Missing
                                        /\ Pristine(file[p].config) => Pristine(x)
    <3>1. PICK old, x : old = file[p].config /\ x = Edited(old, s, server, edits + 1)
      OBVIOUS
    <3>2. file' = [file EXCEPT ![p] = [file[p] EXCEPT !.config = x]]
      BY <1>2, <2>2, <3>1
    <3>3. old \in Configs
      BY <1>2, <2>2, <3>1 DEF Files, Optional
    <3>4. x \in Configs /\ x.by = "user" /\ (Pristine(old) => Pristine(x))
      BY <1>2, <3>1, <3>3, EditedConfig
    <3> QED BY <2>2, <3>1, <3>2, <3>4 DEF Optional
  <2> QED BY <1>1, <2>1, <2>2
<1>4. PICK f : f = [file[p] EXCEPT !.config = x] /\ file' = [file EXCEPT ![p] = f]
  BY <1>3
<1>5. Missing \in Optional(Metadata)
  BY DEF Optional
<1>6. /\ f \in Files /\ f.config = x /\ f.backup = file[p].backup /\ f.meta = file[p].meta
      /\ f.metaTmp = file[p].metaTmp
  BY <1>2, <1>3, <1>4, <1>5, OneFile
<1>7. file'[p] = f
  BY <1>2, <1>4
<1>8. OnePath(p, f) /\ kept' = [kept EXCEPT ![p] = f.config]
  BY <1>1, <1>4, <1>7 DEF OnePath
<1> QED BY <1>1, <1>3, <1>6, <1>7, <1>8

LEMMA UserEditsStep == ASSUME ClientInv, UserEdits PROVE ClientInv'
<1>1. UNCHANGED <<proc, written>> /\ edits' = edits + 1
  BY DEF UserEdits
<1>2. PICK p \in Clients, f \in Files :
         /\ OnePath(p, f) /\ file'[p] = f /\ f.backup = file[p].backup /\ f.meta = file[p].meta
         /\ f.metaTmp = file[p].metaTmp
         /\ f.config # Missing => /\ f.config.by = "user" /\ file[p].config # Missing
                                  /\ Pristine(file[p].config) => Pristine(f.config)
         /\ kept' = [kept EXCEPT ![p] = f.config]
         /\ raced' = IF proc.step \in Reading /\ proc.path = p THEN raced \cup {p} ELSE raced
  BY EditLeaves
<1>3. /\ file \in [Clients -> Files] /\ kept \in [Clients -> Optional(Configs)] /\ edits \in Nat
      /\ written \in [Clients -> Optional([new : Configs, old : Configs])] /\ raced \subseteq Clients
      /\ proc = Idle \/ proc \in Commands
      /\ f.config \in Optional(Configs)
  BY <1>2 DEF ClientInv, TypeInv, Files
<1>4. /\ kept' \in [Clients -> Optional(Configs)] /\ kept'[p] = f.config
      /\ \A q \in Clients \ {p} : kept'[q] = kept[q] /\ file'[q] = file[q]
      /\ raced \subseteq raced' /\ raced' \subseteq Clients
  BY <1>2, <1>3 DEF OnePath
<1>5. TypeInv'
  <2>1. file' \in [Clients -> Files]
    BY <1>2, <1>3 DEF OnePath
  <2>2. edits' \in Nat /\ written' = written /\ proc' = proc
    BY <1>1, <1>3
  <2>3. proc' = Idle \/ proc' \in Commands
    BY <1>3, <2>2
  <2>4. written' \in [Clients -> Optional([new : Configs, old : Configs])]
    BY <1>3, <2>2
  <2> QED BY <1>4, <2>1, <2>2, <2>3, <2>4 DEF TypeInv
<1>6. ASSUME NEW q \in Clients PROVE PathInv(q)'
  <2>1. CASE q # p
    BY <1>1, <1>4, <2>1, OtherPath DEF ClientInv, SameFiles
  <2>2. CASE q = p
    <3>1. PathInv(p)
      BY DEF ClientInv
    <3>2. written[p] # Missing => f.config # written[p].new
      BY <1>2, <1>3, <3>1, MissingAssumption DEF PathInv, Optional
    <3> QED BY <1>1, <1>2, <1>4, <2>2, <3>1, <3>2 DEF PathInv, Pristine
  <2> QED BY <2>1, <2>2
<1>7. CommandInv'
  <2>1. CASE proc.path # p /\ proc \in Commands
    <3>1. file'[proc.path] = file[proc.path] /\ kept'[proc.path] = kept[proc.path]
      BY <1>4, <2>1 DEF Commands
    <3> QED BY <1>1, <1>4, <3>1 DEF ClientInv, CommandInv, SetupInv, RestoreInv, DropInv, Pristine
  <2>2. CASE proc.path = p /\ proc \in Commands
    <3>1. proc.step \in Reading => p \in raced'
      BY <1>2, <2>2
    <3>2. SetupInv'
      BY <1>1, <1>2, <1>4, <2>2, <3>1 DEF ClientInv, CommandInv, SetupInv, SetupSteps, Reading, Pristine
    <3>3. RestoreInv'
      BY <1>1, <1>2, <1>4, <2>2, <3>1 DEF ClientInv, CommandInv, RestoreInv, RestoreSteps, Reading
    <3>4. DropInv'
      BY <1>1, <1>2, <1>4, <2>2 DEF ClientInv, CommandInv, DropInv, Pristine
    <3> QED BY <1>1, <3>2, <3>3, <3>4 DEF ClientInv, CommandInv
  <2>3. CASE proc = Idle
    BY <1>1, <2>3, HoldsNothing
  <2> QED BY <1>3, <2>1, <2>2, <2>3
<1> QED BY <1>5, <1>6, <1>7 DEF ClientInv

-----------------------------------------------------------------------------
LEMMA ClientStep == ClientInv /\ [Next]_vars => ClientInv'
<1> SUFFICES ASSUME ClientInv, [Next]_vars PROVE ClientInv'
  OBVIOUS
<1>1. CASE UNCHANGED vars
  <2>1. UNCHANGED <<file, proc, edits, kept, raced, written>>
    BY <1>1 DEF vars
  <2> QED BY <2>1 DEF ClientInv, TypeInv, PathInv, CommandInv, SetupInv, RestoreInv, DropInv, Pristine
<1>2. CASE Next
  BY <1>2, StartCommandStep, BeginClientStep, ReadConfigStep, WriteBackupStep, WriteMetaTempStep,
     RenameMetaStep, WriteConfigTempStep, ReplaceConfigStep, RetractMetaStep, ReadBackupStep,
     RestoreConfigStep, DropMetaStep, DropBackupStep, CrashStep, UserEditsStep DEF Next
<1> QED BY <1>1, <1>2

\* The files of every path and the running command stay in step through any
\* failures, crashes and edits.
THEOREM ClientInvariant == Spec => []ClientInv
<1>1. Init => ClientInv
  BY ClientInit
<1>2. ClientInv /\ [Next]_vars => ClientInv'
  BY ClientStep
<1> QED BY <1>1, <1>2, PTL DEF Spec

\* Whatever fails or dies, the last text the user wrote is in the configuration
\* or its backup, unless it was written while a command replaced the file.
THEOREM NothingTheUserWroteIsLost == Spec => []UserTextSurvives
<1>1. ClientInv => UserTextSurvives
  BY DEF ClientInv, PathInv, UserTextSurvives
<1> QED BY <1>1, ClientInvariant, PTL

\* No backup ever holds a wrapped server.
THEOREM BackupsArePristine == Spec => []BackupIsPristine
<1>1. ClientInv => BackupIsPristine
  BY DEF ClientInv, PathInv, Pristine, BackupIsPristine
<1> QED BY <1>1, ClientInvariant, PTL

\* A configuration that is exactly what setup wrote has its whole backup, of
\* before the first setup, and the metadata that lets undo put it back.
THEOREM SetupIsUndoable == Spec => []WrappedIsUndoable
<1>1. ClientInv => BackupIsPristine
  BY DEF ClientInv, PathInv, Pristine, BackupIsPristine
<1>2. ClientInv => WrappedIsUndoable
  BY <1>1 DEF ClientInv, PathInv, WrappedIsUndoable
<1> QED BY <1>2, ClientInvariant, PTL
=============================================================================
