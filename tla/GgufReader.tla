----------------------------- MODULE GgufReader -----------------------------
(***************************************************************************)
(* GgufReader::read of bridge-gguf, with the tensor descriptors of         *)
(* bridge-core: header, metadata under its budgets, alignment, tensor      *)
(* directory, and the extents of the tensor data.                          *)
(*                                                                         *)
(* A file is what its bytes declare: counts, lengths, types and offsets,   *)
(* none of which need be true, and its length.  Sizes are the real ones;   *)
(* the limits and the 64-bit range are constants.                          *)
(***************************************************************************)
EXTENDS Integers, Sequences

CONSTANTS GgufFiles,           \* the files there are to read
          MaxStringBytes, MaxArrayElements, MaxTensors,
          MaxMetadataEntries, MaxMetadataBytes, MaxDimensions,
          MaxU64, U32Bits

\* What the bytes of a file declare: counts, lengths and offsets are unsigned,
\* and a string is well-formed UTF-8 or not.  An array declares as many items as
\* it counts; those behind the end of the file are never reached.
Item == [len : Nat, val : Nat, utf8 : BOOLEAN]
Entry == [key : STRING, keyLen : Nat, keyUtf8 : BOOLEAN, ty : STRING, value : Item,
          elem : STRING, items : Seq(Item)]
Descriptor == [nameLen : Nat, nameUtf8 : BOOLEAN, dims : Seq(Nat), ty : STRING, offset : Nat]

\* The alignments the reader takes: every power of two of a u32.
PowersOfTwo == {2 ^ i : i \in 0..(U32Bits - 1)}

\* A file has the entries it counts at most, and its length and the limits are
\* u64; the greatest u64 is one less than a multiple of each u32 power of two.
ASSUME ReaderAssumption ==
    /\ GgufFiles \subseteq [magic : STRING, version : Nat, metadataCount : Nat, tensorCount : Nat,
                            metadata : Seq(Entry), tensors : Seq(Descriptor), length : 0..MaxU64]
    /\ \A f \in GgufFiles : Len(f.metadata) <= f.metadataCount /\ Len(f.tensors) <= f.tensorCount
    /\ MaxU64 \in Nat /\ U32Bits \in Nat
    /\ 32 \in PowersOfTwo /\ \A a \in PowersOfTwo : a \in Nat \ {0} /\ (MaxU64 + 1) % a = 0
    /\ {MaxStringBytes, MaxArrayElements, MaxTensors, MaxMetadataEntries, MaxMetadataBytes,
        MaxDimensions} \subseteq 0..MaxU64

VARIABLES gguf,    \* the file being read
          reader   \* the reader: fields of GgufReader and locals of read

readerVars == <<gguf, reader>>

-----------------------------------------------------------------------------
(* GgmlType and TensorDesc. *)

BlockSize(ty) ==
    CASE ty \in {"F32", "F16", "BF16", "F64", "I8", "I16", "I32", "I64"} -> 1
      [] ty \in {"Q4_0", "Q4_1", "Q5_0", "Q5_1", "Q8_0", "Q8_1", "IQ4_NL", "MXFP4"} -> 32
      [] ty \in {"Q2_0", "NVFP4"} -> 64
      [] ty = "Q1_0" -> 128
      [] OTHER -> 256

TypeSizes ==
    [F32 |-> 4, I32 |-> 4, F16 |-> 2, BF16 |-> 2, I16 |-> 2, F64 |-> 8, I64 |-> 8, I8 |-> 1,
     Q4_0 |-> 18, IQ4_NL |-> 18, Q4_1 |-> 20, Q5_0 |-> 22, Q5_1 |-> 24, Q8_0 |-> 34, Q8_1 |-> 36,
     Q2_K |-> 84, Q3_K |-> 110, IQ3_S |-> 110, Q4_K |-> 144, Q5_K |-> 176, Q6_K |-> 210,
     Q8_K |-> 292, IQ2_XXS |-> 66, TQ2_0 |-> 66, IQ2_XS |-> 74, IQ2_S |-> 82, IQ3_XXS |-> 98,
     IQ1_S |-> 50, IQ4_XS |-> 136, IQ1_M |-> 56, TQ1_0 |-> 54, MXFP4 |-> 17, NVFP4 |-> 36,
     Q1_0 |-> 18, Q2_0 |-> 18]

GgmlTypes == DOMAIN TypeSizes

Overflow == -1

\* checked_mul and checked_add; an overflow stays one.
CheckedMul(a, b) == IF a = Overflow \/ b = Overflow \/ a * b > MaxU64 THEN Overflow ELSE a * b
CheckedAdd(a, b) == IF a = Overflow \/ b = Overflow \/ a + b > MaxU64 THEN Overflow ELSE a + b

\* align_up of the reader, and the padding of a tensor.
AlignedUp(value, alignment) ==
    LET sum == CheckedAdd(value, alignment - 1)
    IN  IF sum = Overflow THEN Overflow ELSE sum - (sum % alignment)

RowSize(ty, ne0) == CheckedMul(ne0 \div BlockSize(ty), TypeSizes[ty])

\* Mutant: strides[i] from the wrong dimension.
StrideOff(dims, ty) ==
    LET stride[i \in 2..4] == IF i = 2 THEN RowSize(ty, dims[1])
                              ELSE CheckedMul(stride[i - 1], dims[i])
    IN  stride
\* compute_strides beyond the first.
Stride(dims, ty) ==
    LET stride[i \in 2..4] == IF i = 2 THEN RowSize(ty, dims[1])
                              ELSE CheckedMul(stride[i - 1], dims[i - 1])
    IN  stride

EncodedBytes(t) ==
    IF Len(t.dims) = 1 THEN RowSize(t.ty, t.dims[1])
    ELSE CheckedMul(Stride(t.dims, t.ty)[Len(t.dims)], t.dims[Len(t.dims)])

\* TensorDesc::new, with the reader's checks of the dimension count.
DescriptorValid(t) ==
    /\ Len(t.dims) \in 1..4 /\ Len(t.dims) <= MaxDimensions
    /\ \A i \in DOMAIN t.dims : t.dims[i] > 0
    /\ t.ty \in GgmlTypes
    /\ t.dims[1] % BlockSize(t.ty) = 0
    /\ IF Len(t.dims) = 1 THEN RowSize(t.ty, t.dims[1]) # Overflow
       ELSE Stride(t.dims, t.ty)[Len(t.dims)] # Overflow

\* checked_absolute_range.
InFile(t, dataOffset, fileLength) ==
    LET end == CheckedAdd(CheckedAdd(dataOffset, t.offset), EncodedBytes(t))
    IN  end # Overflow /\ end <= fileLength

-----------------------------------------------------------------------------
(* Reading bytes. *)

Fail(r) == [r EXCEPT !.phase = "refused"]
Failed(r) == r.phase = "refused"

\* read_exact; counted is account_metadata.
Take(r, n, counted) ==
    IF \/ Failed(r)
       \/ counted /\ CheckedAdd(r.metadataBytes, n) \notin 0..MaxMetadataBytes
       \/ r.pos + n > gguf.length
    THEN Fail(r)
    ELSE [r EXCEPT !.pos = @ + n, !.metadataBytes = IF counted THEN @ + n ELSE @]

\* Mutant: the length is believed.
TakeAnyString(r, len, utf8) ==
    LET h == Take(r, 8, TRUE) IN
    IF Failed(h) THEN h ELSE Take([h EXCEPT !.held = @ + len], len, TRUE)
\* read_string: the buffer is allocated before its bytes are read, and they are
\* looked at after.
TakeString(r, len, utf8) ==
    LET h == Take(r, 8, TRUE) IN
    IF Failed(h) \/ len > MaxStringBytes THEN Fail(h) ELSE
    LET s == Take([h EXCEPT !.held = @ + len], len, TRUE) IN
    IF utf8 THEN s ELSE Fail(s)

ValueTypes == {"U8", "I8", "Bool", "U16", "I16", "U32", "I32", "F32", "U64", "I64", "F64",
               "String", "Array"}

Width(ty) == CASE ty \in {"U8", "I8", "Bool"} -> 1
               [] ty \in {"U16", "I16"} -> 2
               [] ty \in {"U32", "I32", "F32"} -> 4
               [] ty \in {"U64", "I64", "F64", "String"} -> 8

\* check_array_budget: refuse by the least the elements can take.
ArrayBudget(r, elem, count) ==
    /\ CheckedAdd(r.arrayElements, count) \in 0..MaxArrayElements
    /\ CheckedAdd(r.metadataBytes, CheckedMul(count, Width(elem))) \in 0..MaxMetadataBytes

\* read_value but for arrays; a byte that is no boolean is the value 2.
TakeScalar(r, ty, x) ==
    CASE ty = "String" -> TakeString(r, x.len, x.utf8)
      [] ty = "Bool" /\ x.val > 1 -> Fail(Take(r, 1, TRUE))
      [] OTHER -> Take(r, Width(ty), TRUE)

\* try_push: a vector holds one value more.
TakePlaces(r, places) == IF Failed(r) THEN r ELSE [r EXCEPT !.slots = @ + places]

\* The elements of an array, one after the other.
TakeElements(r, elem, items) ==
    LET after[k \in 0..Len(items)] ==
            IF k = 0 THEN r ELSE TakePlaces(TakeScalar(after[k - 1], elem, items[k]), 1)
    IN  after[Len(items)]

TakeArray(r, elem, items) ==
    LET h == Take(r, 12, TRUE) IN
    IF \/ Failed(h) \/ elem \notin ValueTypes \ {"Array"}
       \/ ~ArrayBudget(h, elem, Len(items))
    THEN Fail(h)
    ELSE TakeElements([h EXCEPT !.arrayElements = @ + Len(items)], elem, items)

TakeValue(r, e) ==
    IF e.ty = "Array" THEN TakeArray(r, e.elem, e.items) ELSE TakeScalar(r, e.ty, e.value)

-----------------------------------------------------------------------------
(* GgufReader::read, a step per turn of its loops. *)

FreshReader ==
    [phase |-> "header", pos |-> 0, metadataBytes |-> 0, arrayElements |-> 0, next |-> 1,
     alignment |-> 32, dataOffset |-> 0, extent |-> 0, held |-> 0, slots |-> 0]

ReaderInit == gguf \in GgufFiles /\ reader = FreshReader

ReaderAt(phase) == reader.phase = phase /\ UNCHANGED gguf

ReadHeader ==
    /\ ReaderAt("header")
    /\ LET h == Take(reader, 24, FALSE) IN
       reader' = IF \/ Failed(h) \/ MaxDimensions > 4
                    \/ gguf.magic \notin {"GGUF", "FUGG"} \/ gguf.version \notin 2..3
                    \/ gguf.tensorCount > MaxTensors
                    \/ gguf.metadataCount > MaxMetadataEntries
                 THEN Fail(h) ELSE [h EXCEPT !.phase = "metadata"]

\* try_clone_string: the key set keeps a copy of every key beside the metadata.
CloneKey(r, len) == IF Failed(r) THEN r ELSE [r EXCEPT !.held = @ + len]

\* Where fewer entries follow than declared, the file ends there.
ReadMetadata ==
    /\ ReaderAt("metadata") /\ reader.next <= gguf.metadataCount
    /\ IF reader.next > Len(gguf.metadata) THEN reader' = Fail(reader) ELSE
       LET e == gguf.metadata[reader.next]
           h == Take(TakeString(reader, e.keyLen, e.keyUtf8), 4, TRUE)
           v == IF Failed(h) \/ e.ty \notin ValueTypes THEN Fail(h)
                ELSE CloneKey(TakeValue(h, e), e.keyLen)
       IN  reader' = IF \/ Failed(v)
                        \/ \E i \in 1..(reader.next - 1) : gguf.metadata[i].key = e.key
                     THEN Fail(v) ELSE [TakePlaces(v, 2) EXCEPT !.next = @ + 1]

AlignmentOf(entries) ==
    LET found == {i \in DOMAIN entries : entries[i].key = "general.alignment"}
    IN  IF found = {} THEN 32
        ELSE LET e == entries[CHOOSE i \in found : TRUE]
             IN  IF e.ty = "U32" /\ e.value.val \in PowersOfTwo THEN e.value.val ELSE Overflow

ReadAlignment ==
    /\ ReaderAt("metadata") /\ reader.next > gguf.metadataCount
    /\ LET a == AlignmentOf(gguf.metadata) IN
       reader' = IF a = Overflow THEN Fail(reader)
                 ELSE [reader EXCEPT !.phase = "tensors", !.next = 1, !.alignment = a]

\* Only the name counts as metadata.
ReadTensor ==
    /\ ReaderAt("tensors") /\ reader.next <= gguf.tensorCount
    /\ IF reader.next > Len(gguf.tensors) THEN reader' = Fail(reader) ELSE
       LET t == gguf.tensors[reader.next]
           h == Take(TakeString(reader, t.nameLen, t.nameUtf8), 4 + 8 * Len(t.dims) + 4 + 8, FALSE)
       IN  reader' = IF Failed(h) \/ ~DescriptorValid(t) THEN Fail(h)
                     ELSE [TakePlaces(h, 1) EXCEPT !.next = @ + 1]

LocateData ==
    /\ ReaderAt("tensors") /\ reader.next > gguf.tensorCount
    /\ LET offset == AlignedUp(reader.pos, reader.alignment) IN
       reader' = IF offset = Overflow \/ offset > gguf.length THEN Fail(reader)
                 ELSE [reader EXCEPT !.phase = "extents", !.next = 1, !.dataOffset = offset]

OffsetExpected(t) == t.offset = reader.extent

CheckExtent ==
    /\ ReaderAt("extents") /\ reader.next <= gguf.tensorCount
    /\ LET t == gguf.tensors[reader.next]
           padded == AlignedUp(EncodedBytes(t), reader.alignment)
           extent == CheckedAdd(reader.extent, padded)
       IN  reader' = IF \/ ~OffsetExpected(t) \/ padded = Overflow \/ extent = Overflow
                        \/ ~InFile(t, reader.dataOffset, gguf.length)
                     THEN Fail(reader) ELSE [reader EXCEPT !.next = @ + 1, !.extent = extent]

FinishExtents ==
    /\ ReaderAt("extents") /\ reader.next > gguf.tensorCount
    /\ LET end == CheckedAdd(reader.dataOffset, reader.extent) IN
       reader' = IF end = Overflow \/ end > gguf.length THEN Fail(reader)
                 ELSE [reader EXCEPT !.phase = "accepted"]

ReaderNext == \/ ReadHeader \/ ReadMetadata \/ ReadAlignment \/ ReadTensor
              \/ LocateData \/ CheckExtent \/ FinishExtents

ReaderSpec == ReaderInit /\ [][ReaderNext]_readerVars

-----------------------------------------------------------------------------
(* Properties. *)

SumOf(f, n) == LET sum[i \in 0..n] == IF i = 0 THEN 0 ELSE sum[i - 1] + f[i] IN sum[n]

\* What an entry takes, and a tensor over the integers, without a limit.
ScalarBytes(ty, x) == Width(ty) + IF ty = "String" THEN x.len ELSE 0
ItemsTo(elem, items, k) == SumOf([i \in DOMAIN items |-> ScalarBytes(elem, items[i])], k)
ValueBytes(e) ==
    IF e.ty = "Array" THEN 12 + ItemsTo(e.elem, e.items, Len(e.items))
    ELSE ScalarBytes(e.ty, e.value)

EntryBytes(e) == 8 + e.keyLen + 4 + ValueBytes(e)

TensorBytes(t) ==
    LET product[i \in 0..Len(t.dims)] == IF i = 0 THEN 1 ELSE product[i - 1] * t.dims[i]
    IN  (product[Len(t.dims)] \div BlockSize(t.ty)) * TypeSizes[t.ty]

PaddedUp(x, a) == ((x + a - 1) \div a) * a

\* Running totals of a file: its metadata and the elements of its arrays, the
\* names and the other fields of its tensor directory, and its tensors.
MetadataTo(f, k) == SumOf([i \in DOMAIN f.metadata |-> EntryBytes(f.metadata[i])], k)
ElementsTo(f, k) ==
    SumOf([i \in DOMAIN f.metadata |->
              IF f.metadata[i].ty = "Array" THEN Len(f.metadata[i].items) ELSE 0], k)
NamesTo(f, k) == SumOf([i \in DOMAIN f.tensors |-> 8 + f.tensors[i].nameLen], k)
FieldsTo(f, k) == SumOf([i \in DOMAIN f.tensors |-> 16 + 8 * Len(f.tensors[i].dims)], k)
ExtentTo(f, k) ==
    SumOf([i \in DOMAIN f.tensors |->
              PaddedUp(TensorBytes(f.tensors[i]), AlignmentOf(f.metadata))], k)

StringFine(len, utf8) == len <= MaxStringBytes /\ utf8

ScalarFine(ty, x) ==
    /\ ty = "String" => StringFine(x.len, x.utf8)
    /\ ty = "Bool" => x.val \in {0, 1}

ValueFine(e) ==
    /\ e.ty \in ValueTypes
    /\ IF e.ty = "Array"
       THEN /\ e.elem \in ValueTypes \ {"Array"}
            /\ \A k \in DOMAIN e.items : ScalarFine(e.elem, e.items[k])
       ELSE ScalarFine(e.ty, e.value)

ShapeFine(t) ==
    /\ t.ty \in GgmlTypes
    /\ Len(t.dims) \in 1..MaxDimensions /\ \A k \in DOMAIN t.dims : t.dims[k] > 0
    /\ t.dims[1] % BlockSize(t.ty) = 0

\* A reference without cursor, budget or order of checks: which files are valid.
Acceptable(f) ==
    LET metadata == MetadataTo(f, Len(f.metadata))
        names == NamesTo(f, Len(f.tensors))
        directory == 24 + metadata + names + FieldsTo(f, Len(f.tensors))
    IN  /\ f.magic \in {"GGUF", "FUGG"} /\ f.version \in {2, 3} /\ MaxDimensions <= 4
        /\ f.metadataCount = Len(f.metadata) /\ f.metadataCount <= MaxMetadataEntries
        /\ f.tensorCount = Len(f.tensors) /\ f.tensorCount <= MaxTensors
        /\ \A i \in DOMAIN f.metadata :
              /\ StringFine(f.metadata[i].keyLen, f.metadata[i].keyUtf8)
              /\ ValueFine(f.metadata[i])
              /\ \A j \in DOMAIN f.metadata : j # i => f.metadata[j].key # f.metadata[i].key
        /\ ElementsTo(f, Len(f.metadata)) <= MaxArrayElements
        /\ AlignmentOf(f.metadata) # Overflow
        /\ metadata + names <= MaxMetadataBytes
        /\ \A i \in DOMAIN f.tensors :
              /\ StringFine(f.tensors[i].nameLen, f.tensors[i].nameUtf8) /\ ShapeFine(f.tensors[i])
              /\ f.tensors[i].offset = ExtentTo(f, i - 1)
        /\ PaddedUp(directory, AlignmentOf(f.metadata)) + ExtentTo(f, Len(f.tensors)) <= f.length

\* The reader accepts exactly the valid files: checking array budgets ahead of
\* the elements, cutting arithmetic off at 64 bits and computing sizes through
\* strides refuse nothing valid and let nothing else pass.
AcceptsExactly ==
    /\ reader.phase = "accepted" => Acceptable(gguf)
    /\ reader.phase = "refused" => ~Acceptable(gguf)

\* Whatever lengths and counts a file declares, the metadata read stays within
\* its budget; the reader holds no more string bytes than twice what it has read
\* of it, a key being kept twice, and one string of the permitted length that
\* is being read; and its vectors and key set hold no more values than bytes
\* were read.
MemoryPaidFor ==
    /\ reader.metadataBytes <= MaxMetadataBytes /\ reader.metadataBytes <= reader.pos
    /\ reader.held <= 2 * reader.metadataBytes + MaxStringBytes
    /\ reader.slots <= reader.pos
=============================================================================
