---------------------------- MODULE SessionFiles ----------------------------
(***************************************************************************)
(* The files the commands of bridge-cli keep between runs: the snapshot of *)
(* a chat session and the heat of the expert cache.  A command reads them  *)
(* when it starts and replaces them when it is done, through a temporary   *)
(* file and a rename; other commands do the same at the same time, and     *)
(* processes and the machine stop anywhere.                                *)
(***************************************************************************)
EXTENDS Integers, FiniteSets

CONSTANTS Pids,         \* process identifiers; one is used again after its process ended
          MaxAttempts,  \* 16 in atomic_write
          MaxBytes,     \* the limit on what is read of either file
          Sizes,        \* sizes of exports
          MaxCommands,  \* bound: commands started
          MaxLosses     \* bound: power losses

VARIABLES targets,   \* per file: its content and what has reached the disk
          temps,     \* temporary files
          proc,      \* the processes
          started,   \* commands started: the number identifies a command's exports
          losses     \* power losses

filesVars == <<targets, temps, proc, started, losses>>

Targets == {"session", "heat"}

\* synced: the bytes are on the disk, so that a power loss leaves them whole.
NoFile == [by |-> 0, size |-> 0, whole |-> TRUE, synced |-> TRUE]
EmptyFile == [NoFile EXCEPT !.whole = FALSE]
Export(command, size) == [by |-> command, size |-> size, whole |-> TRUE, synced |-> FALSE]
AfterLoss(content) == IF content.synced THEN content ELSE [content EXCEPT !.whole = FALSE, !.synced = TRUE]

NoTemp == [target |-> "none", pid |-> 0, attempt |-> 0]

Ended == [at |-> "ended", command |-> 0, kind |-> "none", looked |-> "none", imported |-> {},
         target |-> "none", content |-> NoFile, attempt |-> 0, temp |-> NoTemp]

\* Either file may be left from earlier commands.
Earlier == [NoFile EXCEPT !.size = 1]

FilesInit ==
    /\ \E old \in [Targets -> {NoFile, Earlier}] :
          targets = [t \in Targets |-> [now |-> old[t], durable |-> old[t]]]
    /\ temps = {} /\ started = 0 /\ losses = 0
    /\ proc = [p \in Pids |-> Ended]

Running(p) == proc[p].at # "ended"
ProcAt(p, from) == proc[p].at = from
ProcIs(p, state) == proc' = [proc EXCEPT ![p] = state]
ProcTo(p, at) == ProcIs(p, [proc[p] EXCEPT !.at = at])
ProcEnds(p) == ProcIs(p, Ended)
\* The process is about to write an export of this size to the target.
ProcWrites(p, t, size) ==
    ProcIs(p, [proc[p] EXCEPT !.at = "create", !.target = t, !.attempt = 0, !.temp = NoTemp,
                              !.content = Export(proc[p].command, size)])
ProcLooks(p, t) == ProcIs(p, [proc[p] EXCEPT !.at = "look", !.looked = t])
HasFile(t) == targets[t].now # NoFile

-----------------------------------------------------------------------------
(* Reading at the start. *)

\* chat may have a session to continue; serve and bench only have the heat.
StartCommand(p, kind) ==
    /\ ~Running(p) /\ started < MaxCommands
    /\ started' = started + 1
    /\ ProcIs(p, [Ended EXCEPT !.at = IF kind = "clear" THEN "clear" ELSE "heat",
                               !.kind = kind, !.command = started + 1])
    /\ UNCHANGED <<targets, temps, losses>>

\* open_engine asks whether there is a heat file before it is read.
InspectHeat(p) ==
    /\ ProcAt(p, "heat")
    /\ IF HasFile("heat") THEN ProcLooks(p, "heat")
       ELSE IF proc[p].kind = "resume" THEN ProcLooks(p, "session") ELSE ProcTo(p, "run")
    /\ UNCHANGED <<targets, temps, started, losses>>

\* read_bounded_with_limit: metadata first.
LookAtFile(p) ==
    /\ ProcAt(p, "look")
    /\ LET t == proc[p].looked IN
       IF HasFile(t) /\ targets[t].now.size <= MaxBytes THEN ProcTo(p, "read") ELSE ProcEnds(p)
    /\ UNCHANGED <<targets, temps, started, losses>>

\* import_heat_json and restore_session look at the bytes themselves again.
Imports(content) == content.size <= MaxBytes /\ content.whole

\* Between the two the file may have been replaced or removed.
ReadFile(p) ==
    /\ ProcAt(p, "read")
    /\ LET t == proc[p].looked
           content == targets[t].now
           goOn == t = "heat" /\ proc[p].kind = "resume"
       IN  IF ~HasFile(t) \/ ~Imports(content) THEN ProcEnds(p)
           ELSE ProcIs(p, [proc[p] EXCEPT !.imported = @ \cup {content},
                                          !.at = IF goOn THEN "look" ELSE "run",
                                          !.looked = IF goOn THEN "session" ELSE "none"])
    /\ UNCHANGED <<targets, temps, started, losses>>

\* The completion fails, or the session is exported within the limit, or, where
\* none is kept, the heat.
Run(p) ==
    /\ ProcAt(p, "run")
    /\ \/ ProcEnds(p)
       \/ \E size \in Sizes, t \in (IF proc[p].kind = "serve" THEN {"heat"} ELSE Targets) :
             /\ t = "session" => size <= MaxBytes
             /\ ProcWrites(p, t, size)
    /\ UNCHANGED <<targets, temps, started, losses>>

-----------------------------------------------------------------------------
(* atomic_write. *)

\* The clock may give the nonce of an earlier process with this identifier.
TempName(p) == [target |-> proc[p].target, pid |-> p, attempt |-> proc[p].attempt]
NameTaken(name) == \E f \in temps : f.name = name

AtomicWriteGivesUp(p) ==
    /\ ProcAt(p, "create")
    /\ ProcEnds(p)
    /\ UNCHANGED <<targets, temps, started, losses>>

NextAttempt(p) ==
    /\ ProcAt(p, "create") /\ NameTaken(TempName(p))
    /\ IF proc[p].attempt + 1 < MaxAttempts
       THEN ProcIs(p, [proc[p] EXCEPT !.attempt = @ + 1]) ELSE ProcEnds(p)
    /\ UNCHANGED <<targets, temps, started, losses>>

CreateTemp(p) ==
    /\ ProcAt(p, "create") /\ ~NameTaken(TempName(p))
    /\ temps' = temps \cup {[name |-> TempName(p), content |-> EmptyFile]}
    /\ ProcIs(p, [proc[p] EXCEPT !.at = "write", !.temp = TempName(p)])
    /\ UNCHANGED <<targets, started, losses>>

Own(p) == CHOOSE f \in temps : f.name = proc[p].temp
OthersOf(p) == temps \ {Own(p)}

WriteTemp(p) ==
    /\ ProcAt(p, "write")
    /\ temps' = OthersOf(p) \cup {[Own(p) EXCEPT !.content = proc[p].content]}
    /\ ProcTo(p, "sync")
    /\ UNCHANGED <<targets, started, losses>>

SyncTemp(p) ==
    /\ ProcAt(p, "sync")
    /\ temps' = OthersOf(p) \cup {[Own(p) EXCEPT !.content.synced = TRUE]}
    /\ ProcTo(p, "rename")
    /\ UNCHANGED <<targets, started, losses>>

\* A failed step removes the temporary file, and ignores whether that works.
DropTemp(p) ==
    /\ ProcEnds(p)
    /\ temps' \in {OthersOf(p), temps}

WriteFails(p) ==
    /\ proc[p].at \in {"write", "sync", "rename"}
    /\ DropTemp(p)
    /\ UNCHANGED <<targets, started, losses>>

RenameUnsynced(p) == proc[p].at \in {"sync", "rename"}  \* mutant: sync_all is left out
RenameReady(p) == ProcAt(p, "rename")

\* replace_file; after the session comes the heat, under a name of its own.
Rename(p) ==
    /\ RenameReady(p)
    /\ targets' = [targets EXCEPT ![proc[p].target].now = Own(p).content]
    /\ temps' = OthersOf(p)
    /\ IF proc[p].target = "session"
       THEN \E size \in Sizes : ProcWrites(p, "heat", size)
       ELSE ProcEnds(p)
    /\ UNCHANGED <<started, losses>>

\* The cache command clear-heat: metadata, then the removal.
ClearHeat(p) ==
    /\ \/ ProcAt(p, "clear") /\ (IF HasFile("heat") THEN ProcTo(p, "remove") ELSE ProcEnds(p))
          /\ UNCHANGED targets
       \/ ProcAt(p, "remove") /\ ProcEnds(p)
          /\ targets' = [targets EXCEPT !["heat"].now = NoFile]
    /\ UNCHANGED <<temps, started, losses>>

-----------------------------------------------------------------------------
(* What happens around the processes. *)

\* Renames and removals reach the disk when the file system likes.
BecomeDurable(t) ==
    /\ targets[t].durable # targets[t].now
    /\ targets' = [targets EXCEPT ![t].durable = targets[t].now]
    /\ UNCHANGED <<temps, proc, started, losses>>

Kill(p) ==
    /\ Running(p) /\ ProcEnds(p)
    /\ UNCHANGED <<targets, temps, started, losses>>

\* Everything that has not reached the disk may be gone.
PowerLoss ==
    /\ losses < MaxLosses
    /\ losses' = losses + 1
    /\ proc' = [p \in Pids |-> Ended]
    /\ \E kept \in SUBSET Targets :
          targets' = [t \in Targets |->
              LET left == AfterLoss(IF t \in kept THEN targets[t].now ELSE targets[t].durable)
              IN  [now |-> left, durable |-> left]]
    /\ temps' = {[f EXCEPT !.content = AfterLoss(@)] : f \in temps}
    /\ UNCHANGED started

FilesStep(p) ==
    \/ \E kind \in {"resume", "new", "serve", "clear"} : StartCommand(p, kind)
    \/ InspectHeat(p) \/ LookAtFile(p) \/ ReadFile(p) \/ Run(p)
    \/ AtomicWriteGivesUp(p) \/ NextAttempt(p) \/ CreateTemp(p)
    \/ WriteTemp(p) \/ SyncTemp(p) \/ WriteFails(p) \/ Rename(p) \/ ClearHeat(p)
    \/ Kill(p)

FilesNext == (\E p \in Pids : FilesStep(p)) \/ (\E t \in Targets : BecomeDurable(t)) \/ PowerLoss

FilesSpec == FilesInit /\ [][FilesNext]_filesVars

-----------------------------------------------------------------------------
(* What holds of the files. *)

FileStates == [by : Nat, size : Sizes \cup {0, 1}, whole : BOOLEAN, synced : BOOLEAN]
TempNames == [target : Targets \cup {"none"}, pid : Pids \cup {0}, attempt : Nat]
Stages == {"ended", "heat", "look", "read", "run", "create", "write", "sync", "rename", "clear", "remove"}
Processes ==
    [at : Stages, command : Nat, kind : {"none", "resume", "new", "serve", "clear"},
     looked : Targets \cup {"none"}, imported : SUBSET FileStates,
     target : Targets \cup {"none"}, content : FileStates, attempt : Nat, temp : TempNames]

\* Targets and processes have the shapes the code gives them, and no two
\* temporary files have one name: create_new sees to that.
FilesTypeOK ==
    /\ targets \in [Targets -> [now : FileStates, durable : FileStates]]
    /\ temps \subseteq [name : TempNames, content : FileStates]
    /\ \A f, g \in temps : f.name = g.name => f = g
    /\ proc \in [Pids -> Processes]
    /\ started \in Nat /\ losses \in Nat

\* A process looks at a file there may be.
Looks(r) == r.at \in {"look", "read"} => r.looked \in Targets

\* An export that is being written is whole, and a process that writes, syncs or
\* renames it in atomic_write still has its own temporary file, in the state the
\* stages before left it in.
Owned(p, r, files) ==
    /\ r.at \in {"create", "write", "sync", "rename"} => r.target \in Targets /\ r.content.whole
    /\ r.at \in {"write", "sync", "rename"} =>
          /\ r.temp.pid = p
          /\ \E f \in files : /\ f.name = r.temp
                              /\ r.at # "write" => f.content.whole
                              /\ r.at = "rename" => f.content.synced
TempsOwned == \A p \in Pids : Looks(proc[p]) /\ Owned(p, proc[p], temps)

\* A session or heat file that exists is one whole export, whatever other
\* commands did meanwhile and wherever a process or the machine stopped:
\* atomic_write renames only a file that is written and synced.
NeverTorn == \A t \in Targets : targets[t].now.whole /\ targets[t].durable.whole

\* What a command imports is whole and within the limit, also when the file was
\* replaced after its metadata were read: read_bounded_with_limit reads
\* whatever is there, the import checks again.
ImportsBounded ==
    \A p \in Pids : \A content \in proc[p].imported : content.whole /\ content.size <= MaxBytes

\* What lasts is whole, so is what a command starts from, and no process loses
\* the temporary file it is about to rename to another.
FilesWhole == NeverTorn /\ ImportsBounded /\ TempsOwned
=============================================================================
