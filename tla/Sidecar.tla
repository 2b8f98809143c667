------------------------------- MODULE Sidecar -------------------------------
(***************************************************************************)
(* The expert sidecar: how prepare_sidecar lays the routed experts of a    *)
(* model out in one data file and binds them to their source with a        *)
(* manifest, what SidecarManifest::validate and Sidecar::open accept, and  *)
(* what a runtime then reads for an expert.                                *)
(*                                                                         *)
(* Sizes are scaled down: HeaderBytes and MinAlignment stand for 64 and    *)
(* 32, MaxOffset for u64::MAX.  A hash is modelled by what it is the hash  *)
(* of.  The commit of the finished pair is PrepareCommit.                  *)
(***************************************************************************)
EXTENDS Integers, Sequences, FiniteSets

CONSTANTS MoeLayers, Experts,   \* numbers of routed layers, of experts in each
          Models,               \* contents the source file may have
          Directory,            \* Directory[m]: the tensor directory of model m
          SegmentSizes,         \* lengths a routed tensor's slab may have
          HeaderBytes, MinAlignment, MaxOffset,
          Alignments,           \* alignments a caller may ask for
          Deltas,               \* changes made to a number of a stored manifest
          ReplacedDuring        \* the source may be replaced during preparation

ASSUME SidecarAssumption ==
    /\ MoeLayers \in Nat /\ Experts \in Nat \ {0}
    /\ SegmentSizes \subseteq Nat \ {0}
    /\ HeaderBytes \in Nat /\ MinAlignment \in Nat \ {0} /\ MaxOffset \in Nat
    /\ Alignments \subseteq Nat
    /\ Deltas \subseteq Int
    /\ ReplacedDuring \in BOOLEAN

Segments == {"gate", "up", "down"}
Layouts  == {"sequential", "fused"}

VARIABLES options,   \* layout and alignment asked for
          sizes,     \* sizes[l][s]: the length of segment s of an expert of layer l
          source,    \* the model now at the source path
          handle,    \* the model the direct readers hold open
          bound,     \* the model whose hash the manifest will name
          phase,
          data,      \* the data file: its header fields and its bytes
          records,   \* the records laid out so far
          manifest,  \* the manifest file: a set of at most one
          edited,    \* the stored pair was changed by someone else
          opened     \* the sidecars runtimes have open: at most one

vars == <<options, sizes, source, handle, bound, phase, data, records, manifest, edited, opened>>

-----------------------------------------------------------------------------
(* bridge-format *)

\* align_up: (value + mask) & !mask for a power of two.
AlignUp(value, alignment) == ((value + alignment - 1) \div alignment) * alignment

PowerOfTwo(n) == \E k \in 0..(n - 1) : n = 2^k

End(range) == range.offset + range.length

\* Experts in the order of DirectExpertIndex::build: by layer, then expert.
RecordCount == MoeLayers * Experts
LayerOf(i)  == ((i - 1) \div Experts) + 1
Key(i)      == <<LayerOf(i), (i - 1) % Experts>>
KeyLess(a, b) == a[1] < b[1] \/ (a[1] = b[1] /\ a[2] < b[2])

\* validate_record_segments
SegmentsWithin(r) ==
    \A s \in Segments :
        /\ r[s].length > 0
        /\ r[s].offset >= r.offset
        /\ End(r[s]) <= End(r)

SegmentsValid(r, layout, alignment) ==
    /\ SegmentsWithin(r)
    /\ End(r.gate) <= r.up.offset
    /\ End(r.up) <= r.down.offset
    /\ layout = "sequential" =>
          \A s \in Segments : r[s].offset % alignment = 0
    /\ layout = "fused" =>
          /\ r.gate.offset = r.offset
          /\ r.up.offset = End(r.gate)
          /\ r.down.offset % alignment = 0

\* The end of what precedes record i: the padded header or record i - 1.
PreviousEnd(m, i) ==
    IF i = 1 THEN AlignUp(HeaderBytes, m.alignment) ELSE End(m.records[i - 1])

RecordValid(m, i) ==
    LET r == m.records[i] IN
    /\ i > 1 => KeyLess(m.records[i - 1].key, r.key)
    /\ r.offset % m.alignment = 0
    /\ r.offset >= PreviousEnd(m, i)
    /\ End(r) <= m.length
    /\ SegmentsValid(r, m.layout, m.alignment)

\* SidecarManifest::validate; the format strings and versions are constant.
Valid(m) ==
    /\ m.alignment >= MinAlignment /\ PowerOfTwo(m.alignment)
    /\ m.length >= HeaderBytes
    /\ \A i \in DOMAIN m.records : RecordValid(m, i)

-----------------------------------------------------------------------------
(* prepare_sidecar *)

Size(i, s) == sizes[LayerOf(i)][s]
Bytes(model, i, s) == [j \in 1..Size(i, s) |-> <<model, Key(i), s, j>>]
Zeroes(n) == [j \in 1..n |-> <<>>]

\* A writer is the bytes written and the position counter kept beside them.
\* pad_to_alignment
Pad(w) ==
    LET aligned == AlignUp(w.position, options.alignment)
    IN [bytes |-> w.bytes \o Zeroes(aligned - w.position), position |-> aligned]

\* copy_segment: the reader opened at the start supplies the bytes.
Copy(w, i, s) ==
    [bytes |-> w.bytes \o Bytes(handle, i, s), position |-> w.position + Size(i, s)]

Segment(w, i, s) == [offset |-> w.position, length |-> Size(i, s)]

\* The checked addition in align_up; the last padding of a record asks most.
Fits(w) == w.position + options.alignment - 1 <= MaxOffset

Header == [bytes |-> Zeroes(HeaderBytes), position |-> HeaderBytes]
HeaderWriter == Pad(Header)
Writer == [bytes |-> data.bytes, position |-> Len(data.bytes)]

Init ==
    /\ options \in [layout : Layouts, alignment : Alignments]
    /\ sizes \in [1..MoeLayers -> [Segments -> SegmentSizes]]
    /\ source \in Models /\ handle = source /\ bound = source
    /\ phase = "start"
    /\ data = [header |-> <<>>, bytes |-> <<>>]
    /\ records = <<>> /\ manifest = {} /\ edited = FALSE /\ opened = {}

Goto(from, to) == phase = from /\ phase' = to

\* validate_options and DirectExpertStore::open; the set was parsed just before.
OpenReaders ==
    /\ Goto("start", "opened")
    /\ PowerOfTwo(options.alignment)
    /\ handle' = source
    /\ UNCHANGED <<options, sizes, source, bound, data, records, manifest, edited, opened>>

\* hash_source_files, which opens the path again; tensor_directory_sha256
\* hashes the directory parsed before.
HashSources ==
    /\ Goto("opened", "hashed")
    /\ bound' = source
    /\ UNCHANGED <<options, sizes, source, handle, data, records, manifest, edited, opened>>

WriteHeader ==
    /\ Goto("hashed", "copying")
    /\ Fits(Header)
    /\ data' = [header |-> [layout |-> options.layout, alignment |-> options.alignment,
                            count |-> RecordCount],
                bytes |-> HeaderWriter.bytes]
    /\ UNCHANGED <<options, sizes, source, handle, bound, records, manifest, edited, opened>>

PadBetween(w) == w  \* mutant: no padding before up in the sequential layout
BeforeUp(w) == IF options.layout = "sequential" THEN Pad(w) ELSE w

\* One iteration of the loop over the experts.
CopyRecord ==
    /\ Goto("copying", "copying")
    /\ Len(records) < RecordCount
    /\ LET i == Len(records) + 1
           start == Pad(Writer)
           up    == BeforeUp(Copy(start, i, "gate"))
           down  == Pad(Copy(up, i, "up"))
           last  == Copy(down, i, "down")
           end   == Pad(last)
       IN /\ Fits(last)
          /\ data' = [data EXCEPT !.bytes = end.bytes]
          /\ records' = Append(records,
                [key |-> Key(i), offset |-> start.position,
                 length |-> end.position - start.position,
                 gate |-> Segment(start, i, "gate"), up |-> Segment(up, i, "up"),
                 down |-> Segment(down, i, "down")])
    /\ UNCHANGED <<options, sizes, source, handle, bound, manifest, edited, opened>>

NewManifest ==
    [alignment |-> options.alignment, layout |-> options.layout, source |-> bound,
     directory |-> Directory[handle], length |-> Len(data.bytes), hash |-> data.bytes,
     records |-> records]

\* The manifest is validated before it is written.
WriteManifest ==
    /\ phase = "copying" /\ Len(records) = RecordCount
    /\ IF Valid(NewManifest)
       THEN phase' = "stored" /\ manifest' = {NewManifest}
       ELSE phase' = "rejected" /\ UNCHANGED manifest
    /\ UNCHANGED <<options, sizes, source, handle, bound, data, records, edited, opened>>

\* Cancellation, an I/O error or an overflow: the temporary files go.
Preparing == {"start", "opened", "hashed", "copying"}

Fail ==
    /\ phase \in Preparing
    /\ phase' = "failed"
    /\ UNCHANGED <<options, sizes, source, handle, bound, data, records, manifest, edited, opened>>

-----------------------------------------------------------------------------
(* What others do to the files before a runtime opens them. *)

\* The source path gets another file; readers already open keep the old one.
ReplaceSource ==
    /\ opened = {}
    /\ ReplacedDuring \/ phase \in {"start", "stored"}
    /\ source' \in Models \ {source}
    /\ UNCHANGED <<options, sizes, handle, bound, phase, data, records, manifest, edited, opened>>

AlterData ==
    /\ phase = "stored" /\ opened = {} /\ ~edited /\ edited' = TRUE
    /\ \E p \in 1..Len(data.bytes) :
          \/ data' = [data EXCEPT !.bytes[p] = <<"altered">>]
          \/ data' = [data EXCEPT !.bytes = SubSeq(@, 1, p - 1)]
    /\ UNCHANGED <<options, sizes, source, handle, bound, phase, records, manifest, opened>>

\* One number of one record changes.
AlterManifest ==
    /\ phase = "stored" /\ opened = {} /\ ~edited /\ edited' = TRUE
    /\ \E m \in manifest, d \in Deltas : \E i \in DOMAIN m.records :
          LET r == m.records[i] IN
          \E new \in {[r EXCEPT !.offset = @ + d], [r EXCEPT !.length = @ + d],
                      [r EXCEPT !.key[2] = @ + d]}
                \cup {[r EXCEPT ![s].offset = @ + d] : s \in Segments}
                \cup {[r EXCEPT ![s].length = @ + d] : s \in Segments} :
             /\ new.offset >= 0 /\ new.length >= 0 /\ new.key[2] >= 0
             /\ \A s \in Segments : new[s].offset >= 0 /\ new[s].length >= 0
             /\ manifest' = {[m EXCEPT !.records[i] = new]}
    /\ UNCHANGED <<options, sizes, source, handle, bound, phase, data, records, opened>>

-----------------------------------------------------------------------------
(* ExpertSource::open and read_tight *)

\* Sidecar::open
PairMatches(m) ==
    /\ Valid(m)
    /\ Len(data.bytes) = m.length
    /\ data.header = [layout |-> m.layout, alignment |-> m.alignment,
                      count |-> Len(m.records)]

BindingsVerified(m) == m.directory = Directory[source] /\ m.source = source

\* The runtime of the command line verifies the bindings and the data hash.
OpenSidecar ==
    /\ phase = "stored" /\ opened = {}
    /\ \E m \in manifest :
          /\ PairMatches(m)
          /\ BindingsVerified(m)
          /\ m.hash = data.bytes
          /\ opened' = {[model |-> source, manifest |-> m]}
    /\ UNCHANGED <<options, sizes, source, handle, bound, phase, data, records, manifest, edited>>

Slice(bytes, from, length) ==
    IF from >= 0 /\ from + length <= Len(bytes) THEN SubSeq(bytes, from + 1, from + length)
    ELSE << <<"panic">> >>

\* A read returns a set: empty for an error, or holding the one result.
\* PositionedFile::read_exact_at refuses what lies beyond the file.
ReadRange(range) ==
    IF End(range) > Len(data.bytes) THEN {}
    ELSE {Slice(data.bytes, range.offset, range.length)}

\* append_checked: a segment must have the length the model's layout gives.
LengthsUnchecked(r, i) == TRUE  \* mutant
LengthsExpected(r, i) == \A s \in Segments : r[s].length = Size(i, s)

\* read_expert and read_tight of expert i.
ReadTight(m, i) ==
    UNION {{[s \in Segments |-> Slice(bytes, r[s].offset - r.offset, r[s].length)] :
                bytes \in ReadRange(r)} :
           r \in {m.records[k] : k \in {j \in DOMAIN m.records :
                      /\ m.records[j].key = Key(i)
                      /\ LengthsExpected(m.records[j], i)}}}

Next ==
    \/ OpenReaders \/ HashSources \/ WriteHeader \/ CopyRecord \/ WriteManifest \/ Fail
    \/ ReplaceSource \/ AlterData \/ AlterManifest
    \/ OpenSidecar

Spec == Init /\ [][Next]_vars

-----------------------------------------------------------------------------
(* Properties. *)

Expected(model, i) == [s \in Segments |-> Bytes(model, i, s)]

\* The position counter never leaves the file behind, and every offset fits.
TypeOK ==
    /\ options \in [layout : Layouts, alignment : Alignments]
    /\ {source, handle, bound} \subseteq Models
    /\ Len(records) <= RecordCount
    /\ Cardinality(manifest) <= 1 /\ Cardinality(opened) <= 1
    /\ ~edited => Len(data.bytes) <= MaxOffset

\* The layout loop and validate agree: whatever the sizes, the number of
\* experts and the layout, a finished preparation is only thrown away when the
\* caller's alignment is below the format's minimum.
LayoutAccepted == phase = "rejected" => options.alignment < MinAlignment

\* "source-bound, lossless": an expert read through an opened sidecar is the
\* expert of the model the runtime opened, or an error.  No single altered
\* number of the manifest, byte of the data or replaced source gets through.
NeverMisreads ==
    \A o \in opened : \A i \in 1..RecordCount :
        ReadTight(o.manifest, i) \subseteq {Expected(o.model, i)}

\* A pair nobody touched serves every expert.
PreparedReadable ==
    ~edited => \A o \in opened : \A i \in 1..RecordCount :
        ReadTight(o.manifest, i) = {Expected(o.model, i)}

\* The architecture document: the manifest binds the "sidecar to source file
\* hashes ... Any mismatch rejects the sidecar".  What a stored sidecar holds
\* comes from the source whose hash its manifest names.
BoundToSource ==
    ~edited => \A m \in manifest : \A p \in DOMAIN data.bytes :
        data.bytes[p] # <<>> => data.bytes[p][1] = m.source

\* An expert of a stored pair is read exactly, or, from a damaged pair, not at all.
ReadsExactly == TypeOK /\ NeverMisreads /\ PreparedReadable
=============================================================================
