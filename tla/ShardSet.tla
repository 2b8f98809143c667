------------------------------ MODULE ShardSet ------------------------------
(***************************************************************************)
(* open_set of bridge-gguf-split: from one file of a model to its set of   *)
(* shards (discovery.rs) and the directory of their tensors                *)
(* (directory.rs).                                                         *)
(*                                                                         *)
(* A file name is <<prefix>>, or <<prefix, ordinal, total>> where it reads *)
(* "prefix-ordinal-of-total.gguf".  A file is what the reader makes of it: *)
(* its split metadata, its version, byte order and alignment (format), the *)
(* names of its tensors.                                                   *)
(***************************************************************************)
EXTENDS Integers, SequencesExt

CONSTANTS Directories,  \* contents of the directory the entry lies in
          MaxShards     \* u16::MAX

\* Names read as one or three parts; canonicalize has links lead to files.
ASSUME ShardAssumption ==
    \A d \in Directories : \A n \in DOMAIN d :
        /\ n = <<n[1]>> \/ (n = <<n[1], n[2], n[3]>> /\ n[2] \in Nat /\ n[3] \in Nat)
        /\ d[n].kind = "link" => d[n].to \in DOMAIN d /\ d[d[n].to].kind = "file"

VARIABLE dir            \* dir[name]: a file, a link, or something else

Missing == -1    \* metadata that is not there,
WrongType == -2  \* of a type other than the one asked for,
Negative == -3   \* or below zero

ShardInit == dir \in Directories
\* Nothing changes the directory while a set is opened.
ShardSpec == ShardInit /\ [][FALSE]_dir

-----------------------------------------------------------------------------
(* Files and links: canonicalize follows a link to its target. *)

IsFile(name) == /\ name \in DOMAIN dir
                /\ dir[name].kind \in {"file", "link", "outside"}
Escapes(name) == dir[name].kind = "outside"
Canonical(name) == IF dir[name].kind = "link" THEN dir[name].to ELSE name
Parsed(name) == dir[Canonical(name)]

\* NumberedName::parse.
IsNumbered(name) == Len(name) = 3
NumbersValid(name) == name[2] \in 1..name[3] /\ name[3] <= MaxShards

-----------------------------------------------------------------------------
(* Discovery. *)

\* get_u16 refuses a value of another type; a missing one only where required.
RequiredSplit(file, ordinal, count) ==
    file.no = ordinal /\ file.count = count /\ count # 1
OptionalSplit(file, ordinal, count) ==
    file.no \in {Missing, ordinal} /\ file.count \in {Missing, count}

UpToEntry(name) ==  \* mutant: as many shards as the entry's ordinal
    [o \in 1..name[2] |-> <<name[1], o, name[3]>>]
\* discover_numbered: the names of all shards.
Siblings(name) == [o \in 1..name[3] |-> <<name[1], o, name[3]>>]

ShardAllowed(name, ordinal, count) ==
    IsFile(name) /\ ~Escapes(name) /\ RequiredSplit(Parsed(name), ordinal, count)

\* discover: the canonical names of the shards in order, or nothing.
Discover(entry) ==
    IF ~IsFile(entry) \/ Escapes(entry) THEN <<>>
    ELSE LET name == Canonical(entry) IN
         IF ~IsNumbered(name)
         THEN IF OptionalSplit(dir[name], 0, 1) THEN <<name>> ELSE <<>>
         ELSE IF ~NumbersValid(name) THEN <<>>
         ELSE LET names == Siblings(name) IN
              IF \A o \in DOMAIN names : ShardAllowed(names[o], o - 1, name[3])
              THEN [o \in DOMAIN names |-> Canonical(names[o])] ELSE <<>>

-----------------------------------------------------------------------------
(* The tensor directory. *)

\* optional_aggregate_count.
CountsReadable(files) == \A i \in DOMAIN files : dir[files[i]].declared \notin {WrongType, Negative}
Declared(files) == {dir[files[i]].declared : i \in DOMAIN files} \ {Missing}

Ordered(files) == FlattenSeq([i \in DOMAIN files |->
                                 [k \in DOMAIN dir[files[i]].tensors |->
                                     [shard |-> i, name |-> dir[files[i]].tensors[k]]]])

\* build.
DirectoryBuilds(files) ==
    /\ \A i \in DOMAIN files : dir[files[i]].format = dir[files[1]].format
    /\ CountsReadable(files)
    /\ \A c, d \in Declared(files) : c = d
    /\ IsInjective([k \in DOMAIN Ordered(files) |-> Ordered(files)[k].name])
    /\ \A c \in Declared(files) : c = Len(Ordered(files))

Refused == [files |-> <<>>, tensors |-> <<>>]

OpenSet(entry) ==
    LET files == Discover(entry) IN
    IF files = <<>> \/ ~DirectoryBuilds(files) THEN Refused
    ELSE [files |-> files, tensors |-> Ordered(files)]

-----------------------------------------------------------------------------
(* Properties. *)

LinkedShards(name) ==
    \E o \in 1..name[3] : LET n == <<name[1], o, name[3]>> IN
        n \in DOMAIN dir /\ dir[n].kind \in {"link", "outside"}

\* Whichever of its shards a set is opened through, the same set is opened, or
\* none through any, as long as no shard is a link to another file; so nothing
\* depends on which one the command line names.
EntryIndependent ==
    \A a, b \in {n \in DOMAIN dir : IsNumbered(n) /\ NumbersValid(n)} :
        a[1] = b[1] /\ a[3] = b[3] /\ ~LinkedShards(a) => OpenSet(a) = OpenSet(b)

\* However links are laid, no file is taken as two shards of a set, and each
\* file of a set agrees that it is that shard of that many.
ShardsDistinct ==
    \A entry \in DOMAIN dir :
        LET files == OpenSet(entry).files IN
        /\ IsInjective(files)
        /\ \A i \in DOMAIN files : OptionalSplit(dir[files[i]], i - 1, Len(files))

\* A model is the same set of distinct files whatever the entry and the links.
SetsConsistent == EntryIndependent /\ ShardsDistinct
=============================================================================
