--------------------------- MODULE Sidecar_proofs ---------------------------
(***************************************************************************)
(* For every alignment, expert count, segment size and layout, the offsets *)
(* that prepare_sidecar computes are the ones SidecarManifest::validate    *)
(* accepts, and what a runtime reads through a pair it could open is the   *)
(* expert of its own model.  The invariant carries, record by record, the  *)
(* checks of validate and the bytes at the recorded offsets for the part   *)
(* of the file written so far.                                             *)
(***************************************************************************)
EXTENDS Sidecar, SequenceTheorems, FiniteSetTheorems, TLAPS

Byte == {<<>>} \cup (Models \X (Nat \X Nat) \X Segments \X Nat)
SegmentRange == [offset : Nat, length : Nat]
Record == [key : Nat \X Nat, offset : Nat, length : Nat,
           gate : SegmentRange, up : SegmentRange, down : SegmentRange]

\* The counter of a writer is the length of what it wrote.
IsWriter(w) ==
    /\ w = [bytes |-> w.bytes, position |-> w.position]
    /\ w.bytes \in Seq(Byte)
    /\ w.position = Len(w.bytes)

\* What w wrote is the beginning of what v wrote.
Begins(w, v) ==
    /\ Len(w.bytes) <= Len(v.bytes)
    /\ \A p \in 1..Len(w.bytes) : v.bytes[p] = w.bytes[p]

Checked == phase \in {"opened", "hashed", "copying"}

Types ==
    /\ options \in [layout : Layouts, alignment : Alignments]
    /\ sizes \in [1..MoeLayers -> [Segments -> SegmentSizes]]
    /\ handle \in Models /\ source \in Models /\ bound \in Models
    /\ records \in Seq(Record) /\ Len(records) <= RecordCount
    /\ data = [header |-> data.header, bytes |-> data.bytes]
    /\ ~edited => Len(data.bytes) <= MaxOffset
    /\ Checked \/ phase = "stored" => PowerOfTwo(options.alignment)
    /\ phase \in {"start", "opened", "hashed"} => records = <<>>
    /\ phase # "stored" => manifest = {} /\ opened = {} /\ ~edited

\* The segments of expert i follow each other with less than one alignment
\* between them, and the expert's bytes stand where they say.
Placed(r, i) ==
    /\ r.gate.offset = r.offset
    /\ r.up.offset < End(r.gate) + options.alignment
    /\ r.down.offset < End(r.up) + options.alignment
    /\ End(r) < End(r.down) + options.alignment
    /\ End(r) <= Len(data.bytes)
    /\ \A s \in Segments :
          /\ r[s].length = Size(i, s)
          /\ \A j \in 1..Size(i, s) :
                data.bytes[r[s].offset + j] = <<handle, Key(i), s, j>>

\* What is laid out passes the checks of validate and is where it should be.
Laid ==
    /\ data.bytes \in Seq(Byte)
    /\ \A i \in DOMAIN records :
          RecordValid(NewManifest, i) /\ records[i].key = Key(i) /\ Placed(records[i], i)

LaidOut ==
    phase = "copying" =>
        Laid /\ Len(data.bytes) >= AlignUp(HeaderBytes, options.alignment)

\* The records that differ from r by d in one number.
NumberChanged(r, d) ==
    {[r EXCEPT !.offset = @ + d], [r EXCEPT !.length = @ + d], [r EXCEPT !.key[2] = @ + d]}
        \cup {[r EXCEPT ![s].offset = @ + d] : s \in Segments}
        \cup {[r EXCEPT ![s].length = @ + d] : s \in Segments}

\* A record but for one of its numbers.
OneChanged(r, new) ==
    \/ \A s \in Segments : new[s] = r[s]
    \/ /\ new.offset = r.offset /\ new.length = r.length
       /\ \E s \in Segments : \A t \in Segments \ {s} : new[t] = r[t]

\* What was written but for one number of one record.
OneEdit(m) ==
    /\ m.alignment = options.alignment /\ m.layout = options.layout
    /\ m.length = Len(data.bytes)
    /\ m.records \in Seq(Record) /\ Len(m.records) = Len(records)
    /\ \E k \in Nat : \A j \in DOMAIN records :
          /\ j # k => m.records[j] = records[j]
          /\ OneChanged(records[j], m.records[j])

\* The manifest names the source it was bound to; a runtime that opened the
\* pair found it valid and the data's hash in it; with that hash the data is
\* what was laid out.
Kept ==
    phase = "stored" =>
        \E m :
           /\ manifest = {m} /\ m.source = bound
           /\ \A o \in opened :
                 o = [model |-> bound, manifest |-> m] /\ Valid(m) /\ m.hash = data.bytes
           /\ ~edited => m = NewManifest
           /\ m.hash = data.bytes => Laid /\ Len(records) = RecordCount /\ OneEdit(m)

\* Nobody replaces the source between the two times it is opened.
SourceKept ==
    ReplacedDuring = FALSE =>
        /\ phase = "opened" => handle = source
        /\ phase \in {"hashed", "copying", "stored"} => bound = handle

LayoutInv == Types /\ LaidOut /\ Kept /\ SourceKept /\ LayoutAccepted

-----------------------------------------------------------------------------
(* Arithmetic. *)

\* Division with remainder, which align_up and the expert numbering rest on.
LEMMA Division ==
    ASSUME NEW n \in Nat, NEW a \in Nat \ {0}
    PROVE  /\ n \div a \in Nat
           /\ n % a \in 0..(a - 1)
           /\ n % a = n - a * (n \div a)
<1>1. n \div a \in Nat
  OBVIOUS
<1>2. n % a \in 0..(a - 1)
  OBVIOUS
<1>3. n \in Int /\ a \in Int /\ a > 0
  OBVIOUS
<1>4. n % a = n - a * (n \div a)
  BY <1>3
<1> QED
  BY <1>1, <1>2, <1>4

\* align_up rounds up to a multiple of the alignment.
LEMMA AlignUpRounds ==
    ASSUME NEW v \in Nat, NEW a \in Nat \ {0}
    PROVE  /\ AlignUp(v, a) \in Nat
           /\ AlignUp(v, a) >= v
           /\ AlignUp(v, a) < v + a
           /\ AlignUp(v, a) % a = 0
<1>1. AlignUp(v, a) \in Nat /\ AlignUp(v, a) >= v /\ AlignUp(v, a) < v + a
  BY DEF AlignUp
<1>2. ASSUME NEW q \in Nat PROVE (q * a) % a = 0
  OBVIOUS
<1>3. (v + a - 1) \div a \in Nat
  OBVIOUS
<1> QED
  BY <1>1, <1>2, <1>3 DEF AlignUp

\* A power of two is not zero.
LEMMA PowerPositive ==
    ASSUME Types, Checked \/ phase = "stored"
    PROVE  options.alignment \in Nat \ {0}
BY SidecarAssumption DEF Types, PowerOfTwo

\* The numbering of DirectExpertIndex::build is strictly increasing in the
\* order of ExpertKey.
LEMMA KeysIncrease ==
    ASSUME NEW i \in Nat, i > 1
    PROVE  KeyLess(Key(i - 1), Key(i))
<1> DEFINE n == i - 2
           q == n \div Experts
           r == n % Experts
<1>1. /\ n \in Nat /\ Experts \in Nat \ {0}
      /\ q \in Nat /\ r \in 0..(Experts - 1) /\ n = Experts * q + r
  <2>1. n \in Nat /\ Experts \in Nat \ {0}
    BY SidecarAssumption
  <2>2. q \in Nat /\ r \in 0..(Experts - 1) /\ r = n - Experts * q
    BY <2>1, Division
  <2> QED
    BY <2>1, <2>2
<1>2. Key(i - 1) = <<q + 1, r>>
  <2>1. (i - 1) - 1 = n
    OBVIOUS
  <2> QED
    BY <2>1 DEF Key, LayerOf
<1> HIDE DEF q, r
<1>3. Key(i) = <<((n + 1) \div Experts) + 1, (n + 1) % Experts>>
  <2>1. i - 1 = n + 1
    OBVIOUS
  <2> QED
    BY <2>1 DEF Key, LayerOf
<1>4. CASE r + 1 < Experts
  <2>1. (n + 1) \div Experts = q /\ (n + 1) % Experts = r + 1
    BY <1>1, <1>4
  <2> QED
    BY <1>1, <1>2, <1>3, <2>1 DEF KeyLess
<1>5. CASE r + 1 = Experts
  <2>1. n + 1 = Experts * (q + 1) + 0
    BY <1>1, <1>5
  <2>2. (n + 1) \div Experts = q + 1
    BY <1>1, <2>1
  <2> QED
    BY <1>1, <1>2, <1>3, <2>2 DEF KeyLess
<1> QED
  BY <1>1, <1>4, <1>5

\* An expert's layer and number.
LEMMA KeyTyped ==
    ASSUME NEW i \in 1..RecordCount
    PROVE  LayerOf(i) \in 1..MoeLayers /\ Key(i) \in Nat \X Nat
<1> DEFINE n == i - 1
           q == n \div Experts
<1>1. n \in Nat /\ Experts \in Nat \ {0} /\ MoeLayers \in Nat /\ n < MoeLayers * Experts
  BY SidecarAssumption DEF RecordCount
<1>2. q \in Nat /\ n % Experts \in 0..(Experts - 1) /\ n % Experts = n - Experts * q
  BY <1>1, Division
<1> HIDE DEF q
<1>3. q < MoeLayers
  <2> SUFFICES ASSUME q >= MoeLayers PROVE FALSE
    BY <1>1, <1>2
  <2>1. Experts * q >= Experts * MoeLayers
    BY <1>1, <1>2
  <2>2. Experts * q <= n
    BY <1>1, <1>2
  <2> QED
    BY <1>1, <1>2, <2>1, <2>2
<1> QED
  BY <1>1, <1>2, <1>3 DEF LayerOf, Key, q

-----------------------------------------------------------------------------
(* Writers. *)

\* pad_to_alignment keeps the counter and the file together and rounds up.
LEMMA PadWrites ==
    ASSUME Types, Checked, NEW w, IsWriter(w)
    PROVE  /\ IsWriter(Pad(w))
           /\ Pad(w).position \in Nat
           /\ Pad(w).position >= w.position
           /\ Pad(w).position < w.position + options.alignment
           /\ Pad(w).position % options.alignment = 0
           /\ Pad(w).position = AlignUp(w.position, options.alignment)
           /\ Begins(w, Pad(w))
<1> DEFINE a == options.alignment
           aligned == AlignUp(w.position, a)
           zeroes == Zeroes(aligned - w.position)
<1>1. w.bytes \in Seq(Byte) /\ w.position = Len(w.bytes) /\ w.position \in Nat
  BY DEF IsWriter
<1>2. aligned \in Nat /\ aligned >= w.position /\ aligned < w.position + a /\ aligned % a = 0
  BY <1>1, PowerPositive, AlignUpRounds
<1> HIDE DEF aligned
<1>3. zeroes \in Seq(Byte) /\ Len(zeroes) = aligned - w.position
  BY <1>1, <1>2 DEF Zeroes, Byte
<1>4. Pad(w) = [bytes |-> w.bytes \o zeroes, position |-> aligned]
  BY DEF Pad, aligned
<1> HIDE DEF zeroes
<1>5. w.bytes \o zeroes \in Seq(Byte) /\ Len(w.bytes \o zeroes) = aligned
  BY <1>1, <1>2, <1>3, ConcatProperties
<1>6. IsWriter(Pad(w)) /\ Pad(w).position = aligned
  BY <1>4, <1>5 DEF IsWriter
<1>7. Begins(w, Pad(w))
  BY <1>1, <1>3, <1>4, ConcatProperties DEF Begins
<1> QED
  BY <1>2, <1>6, <1>7 DEF aligned

\* copy_segment advances the counter by what it writes after what is there.
LEMMA CopyWrites ==
    ASSUME Types, NEW w, IsWriter(w), NEW i \in 1..RecordCount, NEW s \in Segments
    PROVE  /\ Size(i, s) \in Nat \ {0}
           /\ IsWriter(Copy(w, i, s))
           /\ Copy(w, i, s).position \in Nat
           /\ Copy(w, i, s).position = w.position + Size(i, s)
           /\ Begins(w, Copy(w, i, s))
           /\ \A j \in 1..Size(i, s) :
                 Copy(w, i, s).bytes[w.position + j] = <<handle, Key(i), s, j>>
<1> DEFINE bytes == Bytes(handle, i, s)
<1>1. w.bytes \in Seq(Byte) /\ w.position = Len(w.bytes) /\ w.position \in Nat
  BY DEF IsWriter
<1>2. LayerOf(i) \in 1..MoeLayers /\ Key(i) \in Nat \X Nat
  BY KeyTyped
<1>3. Size(i, s) \in Nat \ {0}
  BY <1>2, SidecarAssumption DEF Types, Size
<1>4. /\ bytes \in Seq(Byte) /\ Len(bytes) = Size(i, s)
      /\ \A j \in 1..Size(i, s) : bytes[j] = <<handle, Key(i), s, j>>
  <2>1. handle \in Models
    BY DEF Types
  <2>2. \A j \in 1..Size(i, s) : <<handle, Key(i), s, j>> \in Byte
    BY <1>2, <1>3, <2>1 DEF Byte
  <2> QED
    BY <1>3, <2>2 DEF Bytes
<1>5. Copy(w, i, s) = [bytes |-> w.bytes \o bytes, position |-> w.position + Size(i, s)]
  BY DEF Copy
<1> HIDE DEF bytes
<1>6. w.bytes \o bytes \in Seq(Byte) /\ Len(w.bytes \o bytes) = w.position + Size(i, s)
  <2>1. w.bytes \o bytes \in Seq(Byte) /\ Len(w.bytes \o bytes) = Len(w.bytes) + Len(bytes)
    BY <1>1, <1>4, ConcatProperties
  <2> QED
    BY <1>1, <1>3, <1>4, <2>1
<1>7. Begins(w, Copy(w, i, s))
  BY <1>1, <1>4, <1>5, ConcatProperties DEF Begins
<1>8. ASSUME NEW j \in 1..Size(i, s)
      PROVE  Copy(w, i, s).bytes[w.position + j] = <<handle, Key(i), s, j>>
  <2>1. w.position + j \in (Len(w.bytes) + 1)..(Len(w.bytes) + Len(bytes))
    BY <1>1, <1>3, <1>4
  <2>2. (w.bytes \o bytes)[w.position + j] = bytes[w.position + j - Len(w.bytes)]
    BY <1>1, <1>3, <1>4, <2>1, ConcatProperties
  <2>3. w.position + j - Len(w.bytes) = j
    BY <1>1, <1>3
  <2>4. (w.bytes \o bytes)[w.position + j] = bytes[j]
    BY <2>2, <2>3
  <2>5. Copy(w, i, s).bytes = w.bytes \o bytes
    BY <1>5
  <2> HIDE DEF bytes
  <2> QED
    BY <1>4, <2>4, <2>5
<1>9. IsWriter(Copy(w, i, s)) /\ Copy(w, i, s).position \in Nat
  BY <1>1, <1>3, <1>5, <1>6 DEF IsWriter
<1>10. Copy(w, i, s).position = w.position + Size(i, s)
  BY <1>5
<1> HIDE DEF bytes
<1> QED
  BY <1>3, <1>7, <1>8, <1>9, <1>10

\* Writing goes on after what was written.
LEMMA BeginsTransitive ==
    ASSUME NEW u, NEW v, NEW w,
           u.bytes \in Seq(Byte), v.bytes \in Seq(Byte), w.bytes \in Seq(Byte),
           Begins(u, v), Begins(v, w)
    PROVE  Begins(u, w)
BY DEF Begins

-----------------------------------------------------------------------------
(* The layout invariant. *)

\* What was laid out does not depend on the source path or on the manifest.
LEMMA LaidStill ==
    ASSUME UNCHANGED <<options, sizes, handle, bound, data, records>>
    PROVE  /\ Laid' <=> Laid
           /\ NewManifest' = NewManifest
           /\ \A m : OneEdit(m)' <=> OneEdit(m)
<1>1. NewManifest' = NewManifest
  BY DEF NewManifest
<1>2. \A i : Placed(records[i], i)' <=> Placed(records[i], i)
  BY DEF Placed, Size
<1>3. \A i : RecordValid(NewManifest, i)' <=> RecordValid(NewManifest, i)
  BY <1>1 DEF RecordValid, PreviousEnd
<1>4. Laid' <=> Laid
  BY <1>2, <1>3 DEF Laid
<1> QED
  BY <1>1, <1>4 DEF OneEdit

\* Nothing is laid out at first.
LEMMA LayoutInit == Init => LayoutInv
<1> SUFFICES ASSUME Init PROVE LayoutInv
  OBVIOUS
<1>1. <<>> \in Seq(Record) /\ Len(<<>>) = 0
  OBVIOUS
<1>2. 0 <= MaxOffset /\ 0 <= RecordCount
  BY SidecarAssumption DEF RecordCount
<1>3. Types
  BY <1>1, <1>2 DEF Init, Types, Checked
<1> QED
  BY <1>3 DEF Init, LayoutInv, LaidOut, Kept, SourceKept, LayoutAccepted

\* The header leaves the file padded, and no records yet.
LEMMA HeaderKeeps ==
    ASSUME LayoutInv, WriteHeader
    PROVE  LayoutInv'
<1> DEFINE h == [bytes |-> Zeroes(HeaderBytes), position |-> HeaderBytes]
<1>0. Types /\ Checked
  BY DEF LayoutInv, WriteHeader, Goto, Checked
<1>1. IsWriter(h)
  <2>1. Zeroes(HeaderBytes) \in Seq(Byte) /\ Len(Zeroes(HeaderBytes)) = HeaderBytes
    BY SidecarAssumption DEF Zeroes, Byte
  <2> QED
    BY <2>1 DEF IsWriter
<1>2. /\ IsWriter(HeaderWriter)
      /\ HeaderWriter.position = AlignUp(HeaderBytes, options.alignment)
      /\ HeaderWriter.position \in Nat
  BY <1>0, <1>1, PadWrites DEF HeaderWriter, Header
<1>3. /\ data'.bytes = HeaderWriter.bytes
      /\ data' = [header |-> data'.header, bytes |-> data'.bytes]
  BY DEF WriteHeader
<1>5. records' = <<>>
  BY <1>0 DEF WriteHeader, Goto, Types
<1>4. Types' /\ Kept' /\ SourceKept' /\ LayoutAccepted'
  <2>1. Len(data'.bytes) <= MaxOffset
    <3>1. options.alignment \in Nat \ {0}
      BY <1>0, PowerPositive
    <3>2. Len(data'.bytes) = HeaderWriter.position
      BY <1>2, <1>3 DEF IsWriter
    <3>3. HeaderWriter.position < HeaderBytes + options.alignment
      BY <1>2, <3>1, AlignUpRounds, SidecarAssumption
    <3>4. HeaderBytes + options.alignment - 1 <= MaxOffset
      BY DEF WriteHeader, Fits, Header
    <3> QED
      BY <1>2, <3>1, <3>2, <3>3, <3>4, SidecarAssumption
  <2>2. Types'
    BY <1>0, <1>3, <2>1 DEF WriteHeader, Goto, Types, Checked
  <2> QED
    BY <2>2 DEF LayoutInv, WriteHeader, Goto, Kept, SourceKept, LayoutAccepted
<1>6. LaidOut'
  <2>1. /\ data'.bytes \in Seq(Byte)
        /\ Len(data'.bytes) >= AlignUp(HeaderBytes, options'.alignment)
    <3>1. options' = options
      BY DEF WriteHeader
    <3>2. data'.bytes \in Seq(Byte) /\ Len(data'.bytes) = HeaderWriter.position
      BY <1>2, <1>3 DEF IsWriter
    <3> QED
      BY <1>2, <3>1, <3>2
  <2>2. DOMAIN records' = {}
    BY <1>5
  <2> QED
    BY <2>1, <2>2 DEF LaidOut, Laid
<1> QED
  BY <1>4, <1>6 DEF LayoutInv

\* One expert more: the heart of the argument.  Its record starts at or after
\* the end of the file so far, its segments follow each other inside it, and
\* the records before it are unchanged.
LEMMA RecordKeeps ==
    ASSUME LayoutInv, CopyRecord
    PROVE  LayoutInv'
<1> DEFINE a == options.alignment
           i == Len(records) + 1
           start == Pad(Writer)
           gate  == Copy(start, i, "gate")
           up    == BeforeUp(gate)
           upend == Copy(up, i, "up")
           down  == Pad(upend)
           last  == Copy(down, i, "down")
           end   == Pad(last)
           r == [key |-> Key(i), offset |-> start.position,
                 length |-> end.position - start.position,
                 gate |-> Segment(start, i, "gate"), up |-> Segment(up, i, "up"),
                 down |-> Segment(down, i, "down")]
<1>0. Types /\ Checked /\ LaidOut /\ phase = "copying" /\ a \in Nat \ {0}
  BY PowerPositive DEF LayoutInv, CopyRecord, Goto, Checked
<1>1. /\ data.bytes \in Seq(Byte) /\ Len(records) \in Nat /\ i \in 1..RecordCount
      /\ data = [header |-> data.header, bytes |-> data.bytes]
      /\ Len(data.bytes) >= AlignUp(HeaderBytes, a) /\ Len(data.bytes) \in Nat
  <2>1. RecordCount \in Nat
    BY SidecarAssumption DEF RecordCount
  <2>2. Len(records) < RecordCount
    BY DEF CopyRecord
  <2> QED
    BY <1>0, <2>1, <2>2 DEF LaidOut, Laid, Types
<1> HIDE DEF i
<1>copy. ASSUME NEW w, IsWriter(w), NEW s \in Segments
         PROVE  /\ IsWriter(Copy(w, i, s)) /\ Copy(w, i, s).position \in Nat
                /\ Copy(w, i, s).position = w.position + Size(i, s)
                /\ Size(i, s) \in Nat \ {0}
                /\ Begins(w, Copy(w, i, s))
                /\ \A j \in 1..Size(i, s) :
                      Copy(w, i, s).bytes[w.position + j] = <<handle, Key(i), s, j>>
  <2>1. Types /\ i \in 1..RecordCount
    BY <1>0, <1>1
  <2> QED
    BY <1>copy, <2>1, CopyWrites
<1>segments. "gate" \in Segments /\ "up" \in Segments /\ "down" \in Segments
  BY DEF Segments
<1>2. IsWriter(Writer) /\ Writer.position = Len(data.bytes)
  BY <1>1 DEF Writer, IsWriter
<1>3. /\ IsWriter(start) /\ start.position \in Nat
      /\ start.position >= Len(data.bytes) /\ start.position % a = 0
      /\ Begins(Writer, start)
  BY <1>0, <1>2, PadWrites
<1> HIDE DEF start
<1>4. /\ IsWriter(gate) /\ gate.position \in Nat
      /\ gate.position = start.position + Size(i, "gate")
      /\ Size(i, "gate") \in Nat \ {0}
      /\ Begins(start, gate)
      /\ \A j \in 1..Size(i, "gate") :
            gate.bytes[start.position + j] = <<handle, Key(i), "gate", j>>
  BY <1>copy, <1>segments, <1>3
<1> HIDE DEF gate
<1>5. /\ IsWriter(up) /\ up.position \in Nat /\ up.position >= gate.position
      /\ options.layout = "sequential" => up.position % a = 0
      /\ options.layout # "sequential" => up.position = gate.position
      /\ up.position < gate.position + a
      /\ Begins(gate, up)
  <2>1. CASE options.layout = "sequential"
    BY <1>0, <1>4, <2>1, PadWrites DEF BeforeUp
  <2>2. CASE options.layout # "sequential"
    <3>1. up = gate
      BY <2>2 DEF BeforeUp
    <3>2. Len(gate.bytes) \in Nat
      BY <1>4 DEF IsWriter
    <3>3. Begins(gate, gate)
      BY <3>2 DEF Begins
    <3>4. gate.position >= gate.position /\ gate.position < gate.position + a
      BY <1>0, <1>4
    <3> HIDE DEF up
    <3> QED
      BY <1>4, <2>2, <3>1, <3>3, <3>4
  <2> QED
    BY <2>1, <2>2
<1> HIDE DEF up
<1>6. /\ IsWriter(upend) /\ upend.position \in Nat
      /\ upend.position = up.position + Size(i, "up")
      /\ Size(i, "up") \in Nat \ {0}
      /\ Begins(up, upend)
      /\ \A j \in 1..Size(i, "up") :
            upend.bytes[up.position + j] = <<handle, Key(i), "up", j>>
  BY <1>copy, <1>segments, <1>5
<1> HIDE DEF upend
<1>7. /\ IsWriter(down) /\ down.position \in Nat
      /\ down.position >= upend.position /\ down.position % a = 0
      /\ down.position < upend.position + a
      /\ Begins(upend, down)
  BY <1>0, <1>6, PadWrites
<1> HIDE DEF down
<1>8. /\ IsWriter(last) /\ last.position \in Nat
      /\ last.position = down.position + Size(i, "down")
      /\ Size(i, "down") \in Nat \ {0}
      /\ Begins(down, last)
      /\ \A j \in 1..Size(i, "down") :
            last.bytes[down.position + j] = <<handle, Key(i), "down", j>>
  BY <1>copy, <1>segments, <1>7
<1> HIDE DEF last
<1>9. /\ IsWriter(end) /\ end.position \in Nat /\ end.position >= last.position
      /\ end.position < last.position + a
      /\ Begins(last, end)
  BY <1>0, <1>8, PadWrites
<1> HIDE DEF end
<1>ordered. /\ start.position < gate.position /\ gate.position <= up.position
       /\ up.position < upend.position /\ upend.position <= down.position
       /\ down.position < last.position /\ last.position <= end.position
       /\ start.position \in Nat /\ gate.position \in Nat /\ up.position \in Nat
       /\ upend.position \in Nat /\ down.position \in Nat /\ last.position \in Nat
       /\ end.position \in Nat
  <2>1. start.position < gate.position /\ gate.position <= up.position
    BY <1>3, <1>4, <1>5
  <2>2. up.position < upend.position /\ upend.position <= down.position
    BY <1>5, <1>6, <1>7
  <2>3. down.position < last.position /\ last.position <= end.position
    BY <1>7, <1>8, <1>9
  <2> QED
    BY <1>3, <1>4, <1>5, <1>6, <1>7, <1>8, <1>9, <2>1, <2>2, <2>3
<1>10. /\ data' = [data EXCEPT !.bytes = end.bytes]
       /\ records' = Append(records, r)
       /\ phase' = "copying"
       /\ UNCHANGED <<options, sizes, source, handle, bound, manifest, edited, opened>>
       /\ last.position + a - 1 <= MaxOffset
  BY DEF CopyRecord, Goto, Fits, i, start, gate, up, upend, down, last, end
<1>11. r \in Record
  <2>1. Key(i) \in Nat \X Nat
    BY <1>1, KeyTyped
  <2>2. end.position - start.position \in Nat
    BY <1>ordered
  <2> QED
    BY <1>3, <1>4, <1>5, <1>6, <1>7, <1>8, <2>1, <2>2 DEF Record, Segment, SegmentRange
<1>12. /\ r.key = Key(i) /\ r.offset = start.position /\ End(r) = end.position
       /\ r.gate.offset = start.position /\ End(r.gate) = gate.position
       /\ r.up.offset = up.position /\ End(r.up) = upend.position
       /\ r.down.offset = down.position /\ End(r.down) = last.position
       /\ r.gate.length = Size(i, "gate") /\ r.up.length = Size(i, "up")
       /\ r.down.length = Size(i, "down")
  BY <1>3, <1>4, <1>5, <1>6, <1>7, <1>8, <1>9 DEF End, Segment
<1> HIDE DEF r
<1>13. SegmentsValid(r, options.layout, a)
  <2>1. SegmentsWithin(r)
    <3>1. r.gate.length > 0 /\ r.up.length > 0 /\ r.down.length > 0
      BY <1>4, <1>6, <1>8, <1>12
    <3>2. /\ r.gate.offset >= r.offset /\ End(r.gate) <= End(r)
          /\ r.up.offset >= r.offset /\ End(r.up) <= End(r)
          /\ r.down.offset >= r.offset /\ End(r.down) <= End(r)
      BY <1>ordered, <1>12
    <3> QED
      BY <3>1, <3>2 DEF SegmentsWithin, Segments
  <2>2. End(r.gate) <= r.up.offset /\ End(r.up) <= r.down.offset
    BY <1>5, <1>6, <1>7, <1>12
  <2>3. options.layout = "sequential" => \A s \in Segments : r[s].offset % a = 0
    BY <1>3, <1>5, <1>7, <1>12 DEF Segments
  <2>4. options.layout = "fused" =>
           /\ r.gate.offset = r.offset /\ r.up.offset = End(r.gate)
           /\ r.down.offset % a = 0
    BY <1>5, <1>7, <1>12
  <2> QED
    BY <2>1, <2>2, <2>3, <2>4 DEF SegmentsValid
<1>14. /\ data'.bytes = end.bytes /\ Len(data'.bytes) = end.position
       /\ data'.bytes \in Seq(Byte)
       /\ data' = [header |-> data'.header, bytes |-> data'.bytes]
       /\ end.position >= Len(data.bytes)
  <2>1. end.position >= Len(data.bytes)
    BY <1>1, <1>3, <1>ordered
  <2>2. data'.bytes = end.bytes /\ data' = [header |-> data'.header, bytes |-> data'.bytes]
    BY <1>1, <1>10
  <2> QED
    BY <1>9, <2>1, <2>2 DEF IsWriter
<1>15. /\ records' \in Seq(Record) /\ Len(records') = i
       /\ records'[i] = r /\ DOMAIN records' = 1..i
       /\ \A k \in 1..(i - 1) : k \in DOMAIN records /\ records'[k] = records[k]
  BY <1>0, <1>10, <1>11 DEF Types, i
<1>16. ASSUME NEW k \in 1..i
       PROVE  RecordValid(NewManifest, k)' /\ records'[k].key = Key(k)
  <2> DEFINE m == NewManifest
  <2>1. /\ NewManifest'.records = records' /\ NewManifest'.alignment = a
        /\ NewManifest'.layout = options.layout /\ NewManifest'.length = end.position
        /\ NewManifest.records = records /\ NewManifest.alignment = a
        /\ NewManifest.layout = options.layout /\ NewManifest.length = Len(data.bytes)
    BY <1>10, <1>14 DEF NewManifest
  <2>2. CASE k < i
    <3>1. k \in DOMAIN records /\ records'[k] = records[k]
      BY <1>1, <1>15, <2>2
    <3>2. RecordValid(NewManifest, k) /\ records[k].key = Key(k)
      BY <1>0, <3>1 DEF LaidOut, Laid
    <3>3. k > 1 => records'[k - 1] = records[k - 1]
      BY <1>1, <1>15, <2>2
    <3>4. PreviousEnd(NewManifest', k) = PreviousEnd(NewManifest, k)
      BY <2>1, <3>3 DEF PreviousEnd
    <3>5. End(records[k]) <= end.position
      <4>1. records[k] \in Record
        BY <1>0, <3>1 DEF Types
      <4>2. End(records[k]) \in Nat
        BY <4>1 DEF Record, End
      <4>3. End(records[k]) <= Len(data.bytes)
        BY <2>1, <3>2 DEF RecordValid
      <4> QED
        BY <1>1, <1>9, <1>14, <4>2, <4>3
    <3> QED
      BY <2>1, <3>1, <3>2, <3>3, <3>4, <3>5 DEF RecordValid
  <2>3. CASE k = i
    <3>1. i > 1 => KeyLess(records'[i - 1].key, r.key)
      <4> SUFFICES ASSUME i > 1 PROVE KeyLess(records'[i - 1].key, r.key)
        OBVIOUS
      <4>1. i - 1 \in DOMAIN records /\ records'[i - 1] = records[i - 1]
        BY <1>1, <1>15
      <4>2. records[i - 1].key = Key(i - 1)
        BY <1>0, <4>1 DEF LaidOut, Laid
      <4> QED
        BY <1>1, <1>12, <4>1, <4>2, KeysIncrease
    <3>2. r.offset >= PreviousEnd(NewManifest', i)
      <4>1. CASE i = 1
        BY <1>0, <1>1, <1>3, <1>12, <2>1, <4>1, AlignUpRounds, SidecarAssumption DEF PreviousEnd
      <4>2. CASE i > 1
        <5>1. i - 1 \in DOMAIN records /\ records'[i - 1] = records[i - 1]
          BY <1>1, <1>15, <4>2
        <5>2. End(records[i - 1]) <= Len(data.bytes)
          BY <1>0, <2>1, <5>1 DEF LaidOut, Laid, RecordValid
        <5>3. End(records[i - 1]) \in Nat
          <6>1. records[i - 1] \in Record
            BY <1>0, <5>1 DEF Types
          <6> QED
            BY <6>1 DEF Record, End
        <5>4. PreviousEnd(NewManifest', i) = End(records[i - 1])
          BY <1>1, <2>1, <4>2, <5>1 DEF PreviousEnd
        <5> QED
          BY <1>1, <1>3, <1>12, <5>2, <5>3, <5>4
      <4> QED
        BY <1>1, <4>1, <4>2
    <3> QED
      BY <1>3, <1>9, <1>12, <1>13, <1>15, <2>1, <2>3, <3>1, <3>2 DEF RecordValid
  <2> QED
    BY <1>1, <2>2, <2>3
<1>wrote. /\ \A p \in 1..Len(data.bytes) : end.bytes[p] = data.bytes[p]
          /\ \A j \in 1..Size(i, "gate") :
                end.bytes[start.position + j] = <<handle, Key(i), "gate", j>>
          /\ \A j \in 1..Size(i, "up") :
                end.bytes[up.position + j] = <<handle, Key(i), "up", j>>
          /\ \A j \in 1..Size(i, "down") :
                end.bytes[down.position + j] = <<handle, Key(i), "down", j>>
  <2>1. Begins(down, end)
    BY <1>7, <1>8, <1>9, BeginsTransitive DEF IsWriter
  <2>2. Begins(upend, end)
    BY <1>6, <1>7, <1>9, <2>1, BeginsTransitive DEF IsWriter
  <2>3. Begins(gate, end)
    <3>1. Begins(up, end)
      BY <1>5, <1>6, <1>9, <2>2, BeginsTransitive DEF IsWriter
    <3> QED
      BY <1>4, <1>5, <1>9, <3>1, BeginsTransitive DEF IsWriter
  <2>4. Begins(Writer, end)
    <3>1. Begins(start, end)
      BY <1>3, <1>4, <1>9, <2>3, BeginsTransitive DEF IsWriter
    <3> QED
      BY <1>2, <1>3, <1>9, <3>1, BeginsTransitive DEF IsWriter
  <2>5. \A p \in 1..Len(data.bytes) : end.bytes[p] = data.bytes[p]
    BY <2>4 DEF Begins, Writer
  <2>6. ASSUME NEW j \in 1..Size(i, "gate")
        PROVE  end.bytes[start.position + j] = gate.bytes[start.position + j]
    BY <1>3, <1>4, <2>3 DEF Begins, IsWriter
  <2>7. ASSUME NEW j \in 1..Size(i, "up")
        PROVE  end.bytes[up.position + j] = upend.bytes[up.position + j]
    BY <1>5, <1>6, <2>2 DEF Begins, IsWriter
  <2>8. ASSUME NEW j \in 1..Size(i, "down")
        PROVE  end.bytes[down.position + j] = last.bytes[down.position + j]
    <3>1. down.position + j \in 1..Len(last.bytes)
      BY <1>7, <1>8 DEF IsWriter
    <3>2. Begins(last, end)
      BY <1>9
    <3> QED
      BY <3>1, <3>2 DEF Begins
  <2> QED
    BY <1>4, <1>6, <1>8, <2>5, <2>6, <2>7, <2>8
<1>placed. ASSUME NEW k \in 1..i
           PROVE  Placed(records[k], k)'
  <2>1. UNCHANGED <<options, handle>> /\ \A s \in Segments : UNCHANGED Size(k, s)
    BY <1>10 DEF Size
  <2>2. CASE k < i
    <3>1. k \in DOMAIN records /\ records'[k] = records[k] /\ records[k] \in Record
      BY <1>0, <1>1, <1>15, <2>2 DEF Types
    <3>2. Placed(records[k], k) /\ RecordValid(NewManifest, k)
      BY <1>0, <3>1 DEF LaidOut, Laid
    <3>3. End(records[k]) <= Len(data'.bytes) /\ End(records[k]) \in Nat
      BY <1>1, <1>9, <1>14, <3>1, <3>2 DEF Placed, End, Record
    <3>4. ASSUME NEW s \in Segments, NEW j \in 1..Size(k, s)
          PROVE  data'.bytes[records[k][s].offset + j] = <<handle, Key(k), s, j>>
      <4>1. records[k][s] \in SegmentRange
        BY <3>1 DEF Record, Segments
      <4>2. End(records[k][s]) <= End(records[k]) /\ records[k][s].length = Size(k, s)
        BY <3>2 DEF Placed, RecordValid, SegmentsValid, SegmentsWithin, NewManifest
      <4>3. records[k][s].offset + j \in 1..Len(data.bytes)
        BY <1>1, <3>1, <3>2, <3>3, <4>1, <4>2 DEF SegmentRange, End, Placed
      <4> QED
        BY <1>14, <1>wrote, <3>2, <4>3 DEF Placed
    <3> QED
      BY <2>1, <3>1, <3>2, <3>3, <3>4 DEF Placed
  <2>3. CASE k = i
    <3>1. /\ r.gate.offset = r.offset
          /\ r.up.offset < End(r.gate) + a /\ r.down.offset < End(r.up) + a
          /\ End(r) < End(r.down) + a /\ End(r) <= Len(data'.bytes)
      BY <1>5, <1>7, <1>9, <1>12, <1>14
    <3>2. ASSUME NEW s \in Segments
          PROVE  /\ r[s].length = Size(i, s)
                 /\ \A j \in 1..Size(i, s) :
                       data'.bytes[r[s].offset + j] = <<handle, Key(i), s, j>>
      BY <1>12, <1>14, <1>wrote DEF Segments
    <3> QED
      BY <1>15, <2>1, <2>3, <3>1, <3>2 DEF Placed
  <2> QED
    BY <1>1, <2>2, <2>3
<1>17. Types' /\ Kept' /\ SourceKept' /\ LayoutAccepted'
  <2>1. Len(data'.bytes) <= MaxOffset /\ Len(records') <= RecordCount
    <3>1. MaxOffset \in Nat
      BY SidecarAssumption
    <3>2. end.position <= MaxOffset
      BY <1>0, <1>8, <1>9, <1>10, <3>1
    <3>3. i <= RecordCount
      BY <1>1
    <3> QED
      BY <1>14, <1>15, <3>2, <3>3
  <2>2. Types'
    BY <1>0, <1>10, <1>14, <1>15, <2>1 DEF Types, Checked
  <2> QED
    BY <1>0, <1>10, <2>2 DEF LayoutInv, Kept, SourceKept, LayoutAccepted
<1>18. LaidOut'
  <2>1. Len(data'.bytes) >= AlignUp(HeaderBytes, a)
    BY <1>0, <1>1, <1>9, <1>14, AlignUpRounds, SidecarAssumption
  <2>2. \A k \in DOMAIN records' :
           RecordValid(NewManifest, k)' /\ records'[k].key = Key(k) /\ Placed(records[k], k)'
    BY <1>15, <1>16, <1>placed
  <2> QED
    BY <1>10, <1>14, <2>1, <2>2 DEF LaidOut, Laid
<1> QED
  BY <1>17, <1>18 DEF LayoutInv

\* Once every expert is laid out validate can only object to the alignment.
LEMMA ManifestKeeps ==
    ASSUME LayoutInv, WriteManifest
    PROVE  LayoutInv'
<1>0. /\ Types /\ Checked /\ LaidOut /\ phase = "copying" /\ options.alignment \in Nat \ {0}
      /\ Len(records) = RecordCount
  BY PowerPositive DEF LayoutInv, WriteManifest, Checked
<1>1. ~Valid(NewManifest) => options.alignment < MinAlignment
  <2> SUFFICES ASSUME options.alignment >= MinAlignment PROVE Valid(NewManifest)
    BY <1>0, SidecarAssumption
  <2>1. /\ NewManifest.alignment = options.alignment
        /\ NewManifest.length = Len(data.bytes) /\ NewManifest.records = records
    BY DEF NewManifest
  <2>2. Len(data.bytes) >= HeaderBytes
    <3>1. AlignUp(HeaderBytes, options.alignment) >= HeaderBytes
          /\ AlignUp(HeaderBytes, options.alignment) \in Nat
      BY <1>0, AlignUpRounds, SidecarAssumption
    <3> QED
      BY <1>0, <3>1, SidecarAssumption DEF LaidOut, Laid
  <2> QED
    BY <1>0, <2>1, <2>2 DEF Valid, LaidOut, Laid, Types, Checked
<1>2. phase' \in {"stored", "rejected"} /\ (phase' = "rejected" => ~Valid(NewManifest))
  BY DEF WriteManifest
<1>3. /\ UNCHANGED <<options, sizes, source, handle, bound, data, records, edited, opened>>
      /\ phase' = "stored" => manifest' = {NewManifest}
      /\ phase' = "rejected" => manifest' = manifest
  BY <1>2 DEF WriteManifest
<1>4. Types'
  BY <1>0, <1>2, <1>3 DEF Types, Checked
<1>5. Kept'
  <2> SUFFICES ASSUME phase' = "stored", NEW m, m = NewManifest PROVE Kept'
    BY DEF Kept
  <2>1. NewManifest' = m /\ Laid'
    BY <1>0, <1>3, LaidStill DEF NewManifest, LaidOut
  <2>2. OneEdit(m)'
    <3>1. /\ m.alignment = options'.alignment /\ m.layout = options'.layout
          /\ m.length = Len(data'.bytes) /\ m.records = records'
      BY <1>3 DEF NewManifest
    <3>2. records' \in Seq(Record)
      BY <1>4 DEF Types
    <3>3. \A j \in DOMAIN records' : OneChanged(records'[j], m.records[j])
      BY <3>1 DEF OneChanged
    <3>4. \E k \in Nat : \A j \in DOMAIN records' :
             /\ j # k => m.records[j] = records'[j]
             /\ OneChanged(records'[j], m.records[j])
      BY <3>1, <3>3
    <3> QED
      BY <3>1, <3>2, <3>4 DEF OneEdit
  <2>3. manifest' = {m} /\ m.source = bound' /\ opened' = {}
    BY <1>0, <1>3 DEF NewManifest, Types
  <2> QED
    BY <1>0, <1>3, <2>1, <2>2, <2>3 DEF Kept
<1> QED
  BY <1>0, <1>1, <1>2, <1>3, <1>4, <1>5 DEF LayoutInv, LaidOut, SourceKept, LayoutAccepted

-----------------------------------------------------------------------------
(* What others do to a stored pair. *)

\* Altered or shortened data no longer has the hash the manifest names.
LEMMA DataAltered ==
    ASSUME LayoutInv, AlterData
    PROVE  LayoutInv'
<1>1. /\ Types /\ Kept /\ phase = "stored" /\ phase' = "stored" /\ opened = {} /\ ~edited
      /\ edited' = TRUE
      /\ UNCHANGED <<options, sizes, source, handle, bound, records, manifest, opened>>
  BY DEF LayoutInv, AlterData
<1>2. PICK m : /\ manifest = {m} /\ m.source = bound /\ m = NewManifest
               /\ m.hash = data.bytes => Laid
  BY <1>1 DEF Kept
<1>3. m.hash = data.bytes /\ data.bytes \in Seq(Byte)
  BY <1>2 DEF NewManifest, Laid
<1>4. data'.bytes # data.bytes /\ data' = [header |-> data'.header, bytes |-> data'.bytes]
  <2>1. PICK p \in 1..Len(data.bytes) :
           \/ data' = [data EXCEPT !.bytes[p] = <<"altered">>]
           \/ data' = [data EXCEPT !.bytes = SubSeq(@, 1, p - 1)]
    BY DEF AlterData
  <2>2. data = [header |-> data.header, bytes |-> data.bytes]
    BY <1>1 DEF Types
  <2>3. data.bytes[p] # <<"altered">>
    <3>1. data.bytes[p] \in Byte
      BY <1>3
    <3>2. Len(<<"altered">>) = 1 /\ Len(<<>>) = 0
      OBVIOUS
    <3>3. ASSUME NEW q \in Models \X (Nat \X Nat) \X Segments \X Nat
          PROVE  Len(q) = 4
      OBVIOUS
    <3> QED
      BY <3>1, <3>2, <3>3 DEF Byte
  <2>4. CASE data' = [data EXCEPT !.bytes[p] = <<"altered">>]
    <3>1. data'.bytes = [data.bytes EXCEPT ![p] = <<"altered">>]
          /\ data' = [header |-> data'.header, bytes |-> data'.bytes]
      BY <2>2, <2>4
    <3>2. data'.bytes[p] = <<"altered">>
      BY <1>3, <3>1
    <3> QED
      BY <2>3, <3>1, <3>2
  <2>5. CASE data' = [data EXCEPT !.bytes = SubSeq(@, 1, p - 1)]
    <3>1. data'.bytes = SubSeq(data.bytes, 1, p - 1)
          /\ data' = [header |-> data'.header, bytes |-> data'.bytes]
      BY <2>2, <2>5
    <3>2. Len(data'.bytes) = p - 1 /\ p - 1 < Len(data.bytes)
      BY <1>3, <3>1, SubSeqProperties
    <3> QED
      BY <3>1, <3>2
  <2> QED
    BY <2>1, <2>4, <2>5
<1>5. Types'
  BY <1>1, <1>4 DEF Types, Checked
<1>6. Kept'
  BY <1>1, <1>2, <1>3, <1>4 DEF Kept
<1> QED
  BY <1>1, <1>5, <1>6 DEF LayoutInv, LaidOut, SourceKept, LayoutAccepted

\* One number of one record differs from what was written.
LEMMA ManifestAltered ==
    ASSUME LayoutInv, AlterManifest
    PROVE  LayoutInv'
<1>1. /\ Types /\ Kept /\ phase = "stored" /\ phase' = "stored" /\ opened = {} /\ ~edited
      /\ edited' = TRUE
      /\ UNCHANGED <<options, sizes, source, handle, bound, data, records, opened>>
  BY DEF LayoutInv, AlterManifest
<1>2. PICK m : /\ manifest = {m} /\ m.source = bound /\ m = NewManifest
               /\ Laid /\ Len(records) = RecordCount
  BY <1>1 DEF Kept, NewManifest
<1>3. /\ m.alignment = options.alignment /\ m.layout = options.layout
      /\ m.length = Len(data.bytes) /\ m.records = records /\ m.hash = data.bytes
      /\ records \in Seq(Record)
  BY <1>1, <1>2 DEF NewManifest, Types
<1> DEFINE Altered(d, i, n) ==
             /\ n \in NumberChanged(records[i], d)
             /\ n.offset >= 0 /\ n.length >= 0 /\ n.key[2] >= 0
             /\ \A s \in Segments : n[s].offset >= 0 /\ n[s].length >= 0
             /\ manifest' = {[m EXCEPT !.records[i] = n]}
<1>a. PICK d \in Deltas, i \in DOMAIN records : \E n : Altered(d, i, n)
  <2>1. PICK mm \in manifest, d \in Deltas : \E i \in DOMAIN mm.records :
           \E new \in NumberChanged(mm.records[i], d) :
             /\ new.offset >= 0 /\ new.length >= 0 /\ new.key[2] >= 0
             /\ \A s \in Segments : new[s].offset >= 0 /\ new[s].length >= 0
             /\ manifest' = {[mm EXCEPT !.records[i] = new]}
    BY DEF AlterManifest, NumberChanged
  <2>2. mm = m
    BY <1>2
  <2> QED
    BY <1>3, <2>1, <2>2
<1>4. PICK new : Altered(d, i, new)
  BY <1>a
<1> DEFINE r == records[i]
<1>5. r \in Record /\ d \in Int
  BY <1>3, SidecarAssumption
<1>6. new \in Record /\ OneChanged(r, new)
  <2>1. CASE new = [r EXCEPT !.offset = @ + d]
    BY <1>4, <1>5, <2>1 DEF Record, SegmentRange, OneChanged, Segments
  <2>2. CASE new = [r EXCEPT !.length = @ + d]
    BY <1>4, <1>5, <2>2 DEF Record, SegmentRange, OneChanged, Segments
  <2>3. CASE new = [r EXCEPT !.key[2] = @ + d]
    <3>1. PICK layer \in Nat, expert \in Nat : r.key = <<layer, expert>>
      BY <1>5 DEF Record
    <3>2. new = [r EXCEPT !.key = [<<layer, expert>> EXCEPT ![2] = @ + d]]
      BY <2>3, <3>1
    <3>3. [<<layer, expert>> EXCEPT ![2] = @ + d] = <<layer, expert + d>>
      OBVIOUS
    <3>4. new = [r EXCEPT !.key = <<layer, expert + d>>]
      BY <3>2, <3>3
    <3>5. new.key[2] = expert + d
      BY <1>5, <3>4 DEF Record
    <3>6. expert + d \in Nat
      BY <1>4, <1>5, <3>5
    <3> QED
      BY <1>5, <3>4, <3>6 DEF Record, OneChanged, Segments
  <2>4. ASSUME NEW s \in Segments, new = [r EXCEPT ![s].offset = @ + d]
        PROVE  new \in Record /\ OneChanged(r, new)
    <3>1. r[s] \in SegmentRange
      BY <1>5 DEF Record, Segments
    <3>2. new = [r EXCEPT ![s] = [r[s] EXCEPT !.offset = @ + d]]
      BY <1>5, <2>4
    <3>3. new[s].offset >= 0
      BY <1>4
    <3>4. new[s] = [r[s] EXCEPT !.offset = @ + d]
      BY <1>5, <3>2 DEF Record, Segments
    <3>5. new[s] \in SegmentRange
      BY <1>5, <3>1, <3>3, <3>4 DEF SegmentRange
    <3> QED
      BY <1>5, <3>2, <3>4, <3>5 DEF Record, Segments, OneChanged
  <2>5. ASSUME NEW s \in Segments, new = [r EXCEPT ![s].length = @ + d]
        PROVE  new \in Record /\ OneChanged(r, new)
    <3>1. r[s] \in SegmentRange
      BY <1>5 DEF Record, Segments
    <3>2. new = [r EXCEPT ![s] = [r[s] EXCEPT !.length = @ + d]]
      BY <1>5, <2>5
    <3>3. new[s].length >= 0
      BY <1>4
    <3>4. new[s] = [r[s] EXCEPT !.length = @ + d]
      BY <1>5, <3>2 DEF Record, Segments
    <3>5. new[s] \in SegmentRange
      BY <1>5, <3>1, <3>3, <3>4 DEF SegmentRange
    <3> QED
      BY <1>5, <3>2, <3>4, <3>5 DEF Record, Segments, OneChanged
  <2> QED
    BY <1>4, <2>1, <2>2, <2>3, <2>4, <2>5 DEF NumberChanged
<1>7. Types' /\ manifest' = {[m EXCEPT !.records[i] = new]}
  BY <1>1, <1>4 DEF Types, Checked
<1> DEFINE edit == [m EXCEPT !.records = [records EXCEPT ![i] = new]]
<1>8. /\ edit.alignment = m.alignment /\ edit.layout = m.layout /\ edit.length = m.length
      /\ edit.source = m.source /\ edit.records = [records EXCEPT ![i] = new]
      /\ manifest' = {edit}
  BY <1>2, <1>3, <1>7 DEF NewManifest
<1> HIDE DEF edit
<1>9. OneEdit(edit)
  <2>1. edit.records \in Seq(Record) /\ Len(edit.records) = Len(records)
    BY <1>3, <1>6, <1>8
  <2>2. ASSUME NEW j \in DOMAIN records
        PROVE  /\ j # i => edit.records[j] = records[j]
               /\ OneChanged(records[j], edit.records[j])
    <3>1. CASE j = i
      BY <1>3, <1>6, <1>8, <3>1
    <3>2. CASE j # i
      BY <1>3, <1>8, <3>2 DEF OneChanged
    <3> QED
      BY <3>1, <3>2
  <2>3. i \in Nat
    BY <1>3
  <2> QED
    BY <1>3, <1>8, <2>1, <2>2, <2>3 DEF OneEdit
<1>10. Kept'
  <2> SUFFICES ASSUME NEW e, e = edit PROVE Kept'
    OBVIOUS
  <2>1. Laid' /\ OneEdit(e)'
    BY <1>1, <1>2, <1>9, LaidStill
  <2> QED
    BY <1>1, <1>2, <1>8, <2>1 DEF Kept
<1> QED
  BY <1>1, <1>7, <1>10 DEF LayoutInv, LaidOut, SourceKept, LayoutAccepted

\* A runtime opens the pair only for the source the manifest names.
LEMMA OpenKeeps ==
    ASSUME LayoutInv, OpenSidecar
    PROVE  LayoutInv'
<1>1. /\ Types /\ Kept /\ phase = "stored" /\ phase' = "stored" /\ opened = {}
      /\ UNCHANGED <<options, sizes, source, handle, bound, data, records, manifest, edited>>
  BY DEF LayoutInv, OpenSidecar
<1>2. PICK m : /\ manifest = {m} /\ m.source = bound
               /\ ~edited => m = NewManifest
               /\ m.hash = data.bytes => Laid /\ Len(records) = RecordCount /\ OneEdit(m)
  BY <1>1 DEF Kept
<1>3. Valid(m) /\ m.source = source /\ m.hash = data.bytes
      /\ opened' = {[model |-> source, manifest |-> m]}
  BY <1>2 DEF OpenSidecar, PairMatches, BindingsVerified
<1>4. Kept'
  <2>1. Laid' <=> Laid
    BY <1>1, LaidStill
  <2>2. NewManifest' = NewManifest
    BY <1>1, LaidStill
  <2>3. OneEdit(m)' <=> OneEdit(m)
    BY <1>1, LaidStill
  <2> QED
    BY <1>1, <1>2, <1>3, <2>1, <2>2, <2>3 DEF Kept
<1>5. Types'
  BY <1>1 DEF Types, Checked
<1> QED
  BY <1>1, <1>4, <1>5 DEF LayoutInv, LaidOut, SourceKept, LayoutAccepted

\* A step that leaves the prepared files alone.
LEMMA FilesStill ==
    ASSUME LayoutInv, UNCHANGED <<options, sizes, handle, bound, phase, data, records,
                                  manifest, edited, opened>>,
           source' \in Models,
           source' = source \/ (~ReplacedDuring => phase # "opened")
    PROVE  LayoutInv'
<1>1. (Laid' <=> Laid) /\ NewManifest' = NewManifest /\ \A m : OneEdit(m)' <=> OneEdit(m)
  BY LaidStill
<1>2. Types'
  BY DEF LayoutInv, Types, Checked
<1>3. LaidOut'
  BY <1>1 DEF LayoutInv, LaidOut
<1>4. Kept'
  BY <1>1 DEF LayoutInv, Kept
<1>5. SourceKept'
  BY DEF LayoutInv, SourceKept
<1> QED
  BY <1>2, <1>3, <1>4, <1>5 DEF LayoutInv, LayoutAccepted

\* Every step keeps the layout invariant.
LEMMA LayoutStep == LayoutInv /\ [Next]_vars => LayoutInv'
<1> SUFFICES ASSUME LayoutInv, [Next]_vars PROVE LayoutInv'
  OBVIOUS
<1>1. CASE OpenReaders
  BY <1>1 DEF OpenReaders, Goto, LayoutInv, Types, LaidOut, Kept, SourceKept,
              LayoutAccepted, Checked
<1>2. CASE HashSources
  BY <1>2 DEF HashSources, Goto, LayoutInv, Types, LaidOut, Kept, SourceKept,
              LayoutAccepted, Checked
<1>3. CASE WriteHeader
  BY <1>3, HeaderKeeps
<1>4. CASE CopyRecord
  BY <1>4, RecordKeeps
<1>5. CASE WriteManifest
  BY <1>5, ManifestKeeps
<1>6. CASE Fail
  BY <1>6 DEF Fail, Preparing, LayoutInv, Types, LaidOut, Kept, SourceKept,
              LayoutAccepted, Checked
<1>7. CASE ReplaceSource
  <2>1. ~ReplacedDuring => phase # "opened"
    BY <1>7 DEF ReplaceSource
  <2>2. source' \in Models
    BY <1>7 DEF ReplaceSource
  <2> QED
    BY <1>7, <2>1, <2>2, FilesStill DEF ReplaceSource
<1>8. CASE AlterData
  BY <1>8, DataAltered
<1>9. CASE AlterManifest
  BY <1>9, ManifestAltered
<1>10. CASE OpenSidecar
  BY <1>10, OpenKeeps
<1>11. CASE UNCHANGED vars
  <2>1. source \in Models
    BY DEF LayoutInv, Types
  <2>2. UNCHANGED <<options, sizes, handle, bound, phase, data, records,
                    manifest, edited, opened>> /\ source' = source
    BY <1>11 DEF vars
  <2> QED
    BY <2>1, <2>2, FilesStill
<1> QED
  BY <1>1, <1>2, <1>3, <1>4, <1>5, <1>6, <1>7, <1>8, <1>9, <1>10, <1>11 DEF Next

\* For every size, expert count, layout and alignment, validate accepts what
\* prepare_sidecar lays out unless the alignment is below the minimum.
THEOREM LayoutsAccepted == Spec => []LayoutAccepted
<1>1. Init => LayoutInv
  BY LayoutInit
<1>2. LayoutInv /\ [Next]_vars => LayoutInv'
  BY LayoutStep
<1>3. LayoutInv => LayoutAccepted
  BY DEF LayoutInv
<1> QED
  BY <1>1, <1>2, <1>3, PTL DEF Spec

-----------------------------------------------------------------------------
(* What a runtime reads. *)

\* The experts are numbered in the order of their keys.
LEMMA KeysOrdered ==
    ASSUME NEW i \in 1..RecordCount, NEW j \in 1..RecordCount
    PROVE  /\ KeyLess(Key(i), Key(j)) => i < j
           /\ Key(i) = Key(j) => i = j
<1> DEFINE p == (i - 1) \div Experts
           q == (j - 1) \div Experts
           r == (i - 1) % Experts
           t == (j - 1) % Experts
<1>1. i - 1 \in Nat /\ j - 1 \in Nat /\ Experts \in Nat \ {0}
  BY SidecarAssumption DEF RecordCount
<1>2. /\ p \in Nat /\ r \in 0..(Experts - 1) /\ r = i - 1 - Experts * p
      /\ q \in Nat /\ t \in 0..(Experts - 1) /\ t = j - 1 - Experts * q
  BY <1>1, Division
<1>3. Key(i) = <<p + 1, r>> /\ Key(j) = <<q + 1, t>>
  BY DEF Key, LayerOf
<1> HIDE DEF p, q, r, t
<1>4. ASSUME p < q PROVE i < j
  <2>1. Experts * (p + 1) <= Experts * q
    BY <1>1, <1>2, <1>4
  <2>2. Experts * (p + 1) = Experts * p + Experts
    BY <1>1, <1>2
  <2>3. Experts * p \in Nat /\ Experts * q \in Nat
    BY <1>1, <1>2
  <2> QED
    BY <1>1, <1>2, <2>1, <2>2, <2>3
<1>5. ASSUME p = q PROVE (r < t => i < j) /\ (r = t => i = j)
  <2>1. Experts * p \in Nat /\ Experts * p = Experts * q
    BY <1>1, <1>2, <1>5
  <2> QED
    BY <1>1, <1>2, <2>1
<1>6. KeyLess(Key(i), Key(j)) => p < q \/ (p = q /\ r < t)
  BY <1>2, <1>3 DEF KeyLess
<1>7. Key(i) = Key(j) => p = q /\ r = t
  BY <1>2, <1>3
<1> QED
  BY <1>4, <1>5, <1>6, <1>7

\* Two multiples of the alignment less than one alignment apart are one.
LEMMA OneAligned ==
    ASSUME NEW x \in Nat, NEW y \in Nat, NEW a \in Nat \ {0},
           x % a = 0, y % a = 0, x < y + a, y < x + a
    PROVE  x = y
<1> DEFINE p == x \div a
           q == y \div a
<1>1. p \in Nat /\ q \in Nat /\ x = a * p /\ y = a * q
  BY Division
<1> HIDE DEF p, q
<1>2. ASSUME NEW u \in Nat, NEW v \in Nat, u < v PROVE a * u + a <= a * v
  <2>1. a * (u + 1) <= a * v
    BY <1>2
  <2> QED
    BY <2>1
<1>3. CASE p < q
  BY <1>1, <1>2, <1>3
<1>4. CASE q < p
  BY <1>1, <1>2, <1>4
<1>5. CASE p = q
  BY <1>1, <1>5
<1> QED
  BY <1>1, <1>3, <1>4, <1>5

\* A record that validate accepts has its segments where they were laid out:
\* between its neighbours no other aligned offset leaves them room.
LEMMA SegmentsFixed ==
    ASSUME Types, phase = "stored",
           NEW i \in 1..RecordCount, NEW r \in Record, NEW new \in Record,
           Placed(r, i), SegmentsValid(r, options.layout, options.alignment),
           OneChanged(r, new), SegmentsValid(new, options.layout, options.alignment),
           LengthsExpected(new, i)
    PROVE  \A s \in Segments : new[s] = r[s]
<1> DEFINE a == options.alignment
<1>1. a \in Nat \ {0} /\ options.layout \in Layouts
  BY PowerPositive DEF Types
<1> HIDE DEF a
<1>2. /\ r.offset \in Nat /\ new.offset \in Nat /\ End(r) \in Nat
      /\ \A s \in Segments : r[s] \in SegmentRange /\ new[s] \in SegmentRange
      /\ r.gate \in SegmentRange /\ r.up \in SegmentRange /\ r.down \in SegmentRange
  BY DEF Record, Segments, SegmentRange, End
<1>3. \A s \in Segments : new[s].length = r[s].length
  BY DEF LengthsExpected, Placed
<1>4. SUFFICES ASSUME NEW s \in Segments, new.offset = r.offset, new.length = r.length,
                      \A t \in Segments \ {s} : new[t] = r[t]
               PROVE  new[s].offset = r[s].offset
  <2>1. ASSUME NEW t \in Segments, new[t].offset = r[t].offset PROVE new[t] = r[t]
    BY <1>2, <1>3, <2>1 DEF SegmentRange
  <2> QED
    BY <2>1 DEF OneChanged
<1> DEFINE seq == options.layout = "sequential"
<1>5. /\ ~seq => options.layout = "fused"
      /\ seq => \A t \in Segments : r[t].offset % a = 0 /\ new[t].offset % a = 0
      /\ ~seq => /\ r.gate.offset = r.offset /\ new.gate.offset = new.offset
                 /\ r.up.offset = End(r.gate) /\ new.up.offset = End(new.gate)
                 /\ r.down.offset % a = 0 /\ new.down.offset % a = 0
  BY <1>1 DEF SegmentsValid, Layouts, a
<1>6. /\ End(new.gate) <= new.up.offset /\ End(new.up) <= new.down.offset
      /\ End(new.down) <= End(new) /\ new.gate.offset >= new.offset
      /\ End(new) = End(r)
  BY <1>4 DEF SegmentsValid, SegmentsWithin, Segments, End
<1>7. /\ r.gate.offset = r.offset
      /\ r.up.offset < End(r.gate) + a
      /\ r.down.offset < End(r.up) + a
      /\ End(r) < End(r.down) + a
      /\ End(r.gate) <= r.up.offset /\ End(r.up) <= r.down.offset
      /\ End(r.down) <= End(r)
  BY DEF Placed, SegmentsValid, SegmentsWithin, Segments, a
<1> HIDE DEF seq
<1>8. CASE s = "gate"
  <2>1. new.up = r.up /\ new.gate.length = r.gate.length
    BY <1>3, <1>4, <1>8 DEF Segments
  <2>2. CASE ~seq
    BY <1>4, <1>5, <1>8, <2>2
  <2>3. CASE seq
    <3>1. new.gate.offset < r.gate.offset + a /\ r.gate.offset < new.gate.offset + a
      BY <1>1, <1>2, <1>4, <1>6, <1>7, <2>1 DEF End, SegmentRange, Segments
    <3>2. r.gate.offset % a = 0 /\ new.gate.offset % a = 0
      BY <1>5, <2>3 DEF Segments
    <3>3. r.gate.offset \in Nat /\ new.gate.offset \in Nat
      BY <1>2 DEF SegmentRange, Segments
    <3> QED
      BY <1>1, <1>8, <3>1, <3>2, <3>3, OneAligned
  <2> QED
    BY <2>2, <2>3
<1>9. CASE s = "up"
  <2>1. new.gate = r.gate /\ new.down = r.down /\ new.up.length = r.up.length
    BY <1>3, <1>4, <1>9 DEF Segments
  <2>2. CASE ~seq
    BY <1>5, <1>9, <2>1, <2>2
  <2>3. CASE seq
    <3>1. new.up.offset < r.up.offset + a /\ r.up.offset < new.up.offset + a
      BY <1>1, <1>2, <1>6, <1>7, <2>1 DEF End, SegmentRange, Segments
    <3>2. r.up.offset % a = 0 /\ new.up.offset % a = 0
      BY <1>5, <2>3 DEF Segments
    <3>3. r.up.offset \in Nat /\ new.up.offset \in Nat
      BY <1>2 DEF SegmentRange, Segments
    <3> QED
      BY <1>1, <1>9, <3>1, <3>2, <3>3, OneAligned
  <2> QED
    BY <2>2, <2>3
<1>10. CASE s = "down"
  <2>1. new.up = r.up /\ new.down.length = r.down.length
    BY <1>3, <1>4, <1>10 DEF Segments
  <2>2. new.down.offset < r.down.offset + a /\ r.down.offset < new.down.offset + a
    BY <1>1, <1>2, <1>6, <1>7, <2>1 DEF End, SegmentRange, Segments
  <2>3. r.down.offset % a = 0 /\ new.down.offset % a = 0
    BY <1>5 DEF Segments
  <2>4. r.down.offset \in Nat /\ new.down.offset \in Nat
    BY <1>2 DEF SegmentRange, Segments
  <2> QED
    BY <1>1, <1>10, <2>2, <2>3, <2>4, OneAligned
<1> QED
  BY <1>8, <1>9, <1>10 DEF Segments

\* Reading a range and then a part of it is reading the part.
LEMMA SliceOfSlice ==
    ASSUME NEW bytes \in Seq(Byte), NEW from \in Nat, NEW length \in Nat,
           from + length <= Len(bytes),
           NEW at \in Nat, NEW size \in Nat, at + size <= length
    PROVE  /\ Slice(Slice(bytes, from, length), at, size) \in Seq(Byte)
           /\ Len(Slice(Slice(bytes, from, length), at, size)) = size
           /\ \A j \in 1..size :
                 Slice(Slice(bytes, from, length), at, size)[j] = bytes[from + at + j]
<1>1. ASSUME NEW b \in Seq(Byte), NEW f \in Nat, NEW l \in Nat, f + l <= Len(b)
      PROVE  /\ Slice(b, f, l) \in Seq(Byte) /\ Len(Slice(b, f, l)) = l
             /\ \A j \in 1..l : Slice(b, f, l)[j] = b[f + j]
  <2> DEFINE c == SubSeq(b, f + 1, f + l)
             first == f + 1
             last == f + l
  <2>1. Slice(b, f, l) = c
    BY <1>1 DEF Slice
  <2>0. c = SubSeq(b, first, last) /\ first \in Int /\ last \in Int
    OBVIOUS
  <2>2. \A p \in first..last : b[p] \in Byte
    BY <1>1
  <2> HIDE DEF c, first, last
  <2>a. /\ c \in Seq(Byte)
        /\ Len(c) = IF first <= last THEN last - first + 1 ELSE 0
        /\ \A j \in 1..(last - first + 1) : c[j] = b[first + j - 1]
    BY <2>0, <2>2, SubSeqProperties
  <2>3. /\ c \in Seq(Byte)
        /\ Len(c) = IF f + 1 <= f + l THEN f + l - (f + 1) + 1 ELSE 0
        /\ \A j \in 1..(f + l - (f + 1) + 1) : c[j] = b[(f + 1) + j - 1]
    BY <2>a DEF first, last
  <2>4. \A j \in 1..l : (f + 1) + j - 1 = f + j
    OBVIOUS
  <2>5. f + l - (f + 1) + 1 = l /\ (l = 0 <=> ~(f + 1 <= f + l))
    OBVIOUS
  <2> QED
    BY <2>1, <2>3, <2>4, <2>5
<1> DEFINE outer == Slice(bytes, from, length)
<1>2. /\ outer \in Seq(Byte) /\ Len(outer) = length
      /\ \A j \in 1..length : outer[j] = bytes[from + j]
  BY <1>1
<1> HIDE DEF outer
<1>3. /\ Slice(outer, at, size) \in Seq(Byte) /\ Len(Slice(outer, at, size)) = size
      /\ \A j \in 1..size : Slice(outer, at, size)[j] = outer[at + j]
  BY <1>1, <1>2
<1>4. ASSUME NEW j \in 1..size PROVE outer[at + j] = bytes[from + at + j]
  <2>1. at + j \in 1..length /\ from + (at + j) = from + at + j
    OBVIOUS
  <2> QED
    BY <1>2, <2>1
<1> QED
  BY <1>3, <1>4 DEF outer

\* The state once a runtime has the pair open: the data is what was laid out
\* and the manifest is valid.
Open(m) ==
    /\ Types /\ phase = "stored" /\ Laid /\ Len(records) = RecordCount
    /\ OneEdit(m) /\ Valid(m)

\* The record a read of expert i uses is that expert's record, with its
\* segments where they were laid out, inside the file.
LEMMA RecordFound ==
    ASSUME NEW m, Open(m), NEW i \in 1..RecordCount, NEW j \in DOMAIN m.records,
           m.records[j].key = Key(i), LengthsExpected(m.records[j], i)
    PROVE  /\ j = i
           /\ m.records[i] \in Record /\ Placed(records[i], i)
           /\ SegmentsWithin(m.records[i])
           /\ End(m.records[i]) <= Len(data.bytes)
           /\ \A s \in Segments : m.records[i][s] = records[i][s]
<1> DEFINE new == m.records[j]
<1>1. PICK k \in Nat : \A l \in DOMAIN records :
         /\ l # k => m.records[l] = records[l]
         /\ OneChanged(records[l], m.records[l])
  BY DEF Open, OneEdit
<1>2. /\ RecordCount \in Nat /\ DOMAIN records = 1..RecordCount /\ j \in 1..RecordCount
      /\ DOMAIN m.records = DOMAIN records
      /\ \A l \in 1..RecordCount : records[l] \in Record /\ m.records[l] \in Record
  <2>1. records \in Seq(Record) /\ m.records \in Seq(Record)
        /\ Len(records) = RecordCount /\ Len(m.records) = RecordCount
    BY DEF Open, OneEdit, Types
  <2>2. RecordCount \in Nat
    BY <2>1
  <2> QED
    BY <2>1, <2>2
<1>3. \A l \in 1..RecordCount :
         /\ RecordValid(m, l)
         /\ RecordValid(NewManifest, l) /\ records[l].key = Key(l) /\ Placed(records[l], l)
  BY <1>2 DEF Open, Laid, Valid
<1>4. j = i
  <2>1. CASE j # k
    <3>1. Key(j) = Key(i)
      BY <1>1, <1>2, <1>3, <2>1
    <3> QED
      BY <1>2, <3>1, KeysOrdered
  <2>2. CASE j = k
    <3>1. j > 1 => j - 1 < i
      <4> SUFFICES ASSUME j > 1 PROVE j - 1 < i
        OBVIOUS
      <4>1. j - 1 \in 1..RecordCount /\ j - 1 # k
        BY <1>2, <2>2
      <4>2. KeyLess(m.records[j - 1].key, new.key)
        BY <1>2, <1>3 DEF RecordValid
      <4>3. m.records[j - 1].key = Key(j - 1)
        BY <1>1, <1>2, <1>3, <4>1
      <4> QED
        BY <4>1, <4>2, <4>3, KeysOrdered
    <3>2. j < RecordCount => i < j + 1
      <4> SUFFICES ASSUME j < RecordCount PROVE i < j + 1
        OBVIOUS
      <4>1. j + 1 \in 1..RecordCount /\ j + 1 # k /\ j + 1 > 1 /\ (j + 1) - 1 = j
        BY <1>2, <2>2
      <4>2. KeyLess(new.key, m.records[j + 1].key)
        BY <1>3, <4>1 DEF RecordValid
      <4>3. m.records[j + 1].key = Key(j + 1)
        BY <1>1, <1>2, <1>3, <4>1
      <4> QED
        BY <4>1, <4>2, <4>3, KeysOrdered
    <3> QED
      BY <1>2, <3>1, <3>2
  <2> QED
    BY <2>1, <2>2
<1>5. /\ m.alignment = options.alignment /\ m.layout = options.layout
      /\ m.length = Len(data.bytes)
      /\ NewManifest.alignment = options.alignment /\ NewManifest.layout = options.layout
      /\ NewManifest.records = records
  BY DEF Open, OneEdit, NewManifest
<1>6. /\ SegmentsValid(records[i], options.layout, options.alignment)
      /\ SegmentsValid(m.records[i], options.layout, options.alignment)
      /\ End(m.records[i]) <= Len(data.bytes)
  BY <1>2, <1>3, <1>5 DEF RecordValid
<1>7. \A s \in Segments : m.records[i][s] = records[i][s]
  <2>1. OneChanged(records[i], m.records[i])
    BY <1>1, <1>2
  <2>2. Types /\ phase = "stored" /\ LengthsExpected(m.records[i], i)
    BY <1>4 DEF Open
  <2> QED
    BY <1>2, <1>3, <1>6, <2>1, <2>2, SegmentsFixed
<1> QED
  BY <1>2, <1>3, <1>4, <1>6, <1>7 DEF SegmentsValid

\* What such a record gives is the expert of the model that was copied.
LEMMA ReadsExpert ==
    ASSUME NEW m, Open(m), NEW i \in 1..RecordCount, NEW r \in Record,
           Placed(records[i], i), SegmentsWithin(r), End(r) <= Len(data.bytes),
           \A s \in Segments : r[s] = records[i][s]
    PROVE  /\ ReadRange(r) = {Slice(data.bytes, r.offset, r.length)}
           /\ [s \in Segments |-> Slice(Slice(data.bytes, r.offset, r.length),
                                        r[s].offset - r.offset, r[s].length)]
              = Expected(handle, i)
<1>1. data.bytes \in Seq(Byte) /\ r.offset \in Nat /\ r.length \in Nat
      /\ r.offset + r.length <= Len(data.bytes)
  BY DEF Open, Laid, Record, End
<1>2. ReadRange(r) = {Slice(data.bytes, r.offset, r.length)}
  <2>1. ~(End(r) > Len(data.bytes))
    BY <1>1 DEF End
  <2> QED
    BY <2>1 DEF ReadRange
<1>3. ASSUME NEW s \in Segments
      PROVE  Slice(Slice(data.bytes, r.offset, r.length), r[s].offset - r.offset, r[s].length)
             = Bytes(handle, i, s)
  <2> DEFINE size == Size(i, s)
             part == Slice(Slice(data.bytes, r.offset, r.length), r[s].offset - r.offset, size)
  <2>1. r[s] \in SegmentRange /\ r[s].length = size
    BY DEF Record, Segments, Placed
  <2>2. /\ r[s].offset \in Nat /\ size \in Nat
        /\ r.offset <= r[s].offset /\ r[s].offset + size <= r.offset + r.length
    BY <2>1 DEF SegmentRange, SegmentsWithin, End
  <2>3. \A j \in 1..size : data.bytes[r[s].offset + j] = <<handle, Key(i), s, j>>
    BY DEF Placed
  <2>4. /\ part \in Seq(Byte) /\ Len(part) = size
        /\ \A j \in 1..size : part[j] = data.bytes[r[s].offset + j]
    <3> DEFINE at == r[s].offset - r.offset
    <3>1. at \in Nat /\ at + size <= r.length /\ r.offset + at = r[s].offset
      BY <1>1, <2>2
    <3> HIDE DEF at, size
    <3>2. part = Slice(Slice(data.bytes, r.offset, r.length), at, size)
      BY DEF at, size
    <3> HIDE DEF part
    <3>3. /\ part \in Seq(Byte) /\ Len(part) = size
          /\ \A j \in 1..size : part[j] = data.bytes[r.offset + at + j]
      <4> DEFINE bytes == data.bytes
                 from == r.offset
                 length == r.length
      <4>1. /\ bytes \in Seq(Byte) /\ from \in Nat /\ length \in Nat
            /\ from + length <= Len(bytes)
            /\ at \in Nat /\ size \in Nat /\ at + size <= length
            /\ part = Slice(Slice(bytes, from, length), at, size)
        BY <1>1, <2>2, <3>1, <3>2
      <4> HIDE DEF bytes, from, length
      <4>2. /\ part \in Seq(Byte) /\ Len(part) = size
            /\ \A j \in 1..size : part[j] = bytes[from + at + j]
        BY <4>1, SliceOfSlice
      <4> QED
        BY <4>2 DEF bytes, from, length
    <3> QED
      BY <3>1, <3>3
  <2> HIDE DEF part
  <2>5. \A j \in 1..size : part[j] = <<handle, Key(i), s, j>>
    BY <2>3, <2>4
  <2>6. part = [j \in 1..size |-> part[j]]
    BY <2>4
  <2>7. part = Bytes(handle, i, s)
    BY <2>5, <2>6 DEF Bytes
  <2> QED
    BY <2>1, <2>7 DEF part
<1> QED
  BY <1>2, <1>3 DEF Expected

\* No read of an open pair gives anything but the expert.
LEMMA ReadsNothingElse ==
    ASSUME NEW m, Open(m), NEW i \in 1..RecordCount
    PROVE  ReadTight(m, i) \subseteq {Expected(handle, i)}
<1> SUFFICES ASSUME NEW x \in ReadTight(m, i) PROVE x = Expected(handle, i)
  OBVIOUS
<1>1. PICK j \in DOMAIN m.records :
         /\ m.records[j].key = Key(i) /\ LengthsExpected(m.records[j], i)
         /\ \E bytes \in ReadRange(m.records[j]) :
               x = [s \in Segments |-> Slice(bytes, m.records[j][s].offset - m.records[j].offset,
                                            m.records[j][s].length)]
  BY DEF ReadTight
<1> DEFINE r == m.records[i]
<1>2. /\ j = i /\ r \in Record /\ Placed(records[i], i) /\ SegmentsWithin(r)
      /\ End(r) <= Len(data.bytes) /\ \A s \in Segments : r[s] = records[i][s]
  BY <1>1, RecordFound
<1> HIDE DEF r
<1>3. /\ ReadRange(r) = {Slice(data.bytes, r.offset, r.length)}
      /\ [s \in Segments |-> Slice(Slice(data.bytes, r.offset, r.length),
                                   r[s].offset - r.offset, r[s].length)]
         = Expected(handle, i)
  BY <1>2, ReadsExpert
<1>4. \E bytes \in ReadRange(r) :
         x = [s \in Segments |-> Slice(bytes, r[s].offset - r.offset, r[s].length)]
  BY <1>1, <1>2 DEF r
<1> QED
  BY <1>3, <1>4

\* A pair nobody touched gives it.
LEMMA ReadsUntouched ==
    ASSUME NEW m, Open(m), m = NewManifest, NEW i \in 1..RecordCount
    PROVE  Expected(handle, i) \in ReadTight(m, i)
<1> DEFINE r == records[i]
<1>1. /\ m.records = records /\ i \in DOMAIN records /\ r \in Record
      /\ r.key = Key(i) /\ Placed(r, i) /\ RecordValid(NewManifest, i)
      /\ m.length = Len(data.bytes) /\ NewManifest.records = records
  BY DEF Open, Laid, Types, NewManifest
<1>2. LengthsExpected(r, i) /\ SegmentsWithin(r) /\ End(r) <= Len(data.bytes)
  BY <1>1 DEF LengthsExpected, Placed, RecordValid, SegmentsValid
<1> HIDE DEF r
<1>3. /\ ReadRange(r) = {Slice(data.bytes, r.offset, r.length)}
      /\ [s \in Segments |-> Slice(Slice(data.bytes, r.offset, r.length),
                                   r[s].offset - r.offset, r[s].length)]
         = Expected(handle, i)
  BY <1>1, <1>2, ReadsExpert DEF r
<1>4. r \in {m.records[k] : k \in {j \in DOMAIN m.records :
                   /\ m.records[j].key = Key(i)
                   /\ LengthsExpected(m.records[j], i)}}
  BY <1>1, <1>2 DEF r
<1> QED
  BY <1>3, <1>4 DEF ReadTight

\* The invariant gives the run's property.
LEMMA Exact ==
    ASSUME LayoutInv, ReplacedDuring = FALSE
    PROVE  ReadsExactly
<1>1. Types /\ Kept /\ SourceKept
  BY DEF LayoutInv
<1>2. Cardinality({}) = 0 /\ \A x : Cardinality({x}) = 1
  BY FS_EmptySet, FS_Singleton
<1>3. TypeOK
  <2>1. Cardinality(manifest) <= 1
    <3>1. CASE phase # "stored"
      <4>1. manifest = {}
        BY <1>1, <3>1 DEF Types
      <4> QED
        BY <1>2, <4>1
    <3>2. CASE phase = "stored"
      <4>1. PICK m : manifest = {m}
        BY <1>1, <3>2 DEF Kept
      <4> QED
        BY <1>2, <4>1
    <3> QED
      BY <3>1, <3>2
  <2>2. Cardinality(opened) <= 1
    <3>1. CASE opened = {}
      BY <1>2, <3>1
    <3>2. CASE opened # {}
      <4>1. phase = "stored"
        BY <1>1, <3>2 DEF Types
      <4>2. PICK m : \A o \in opened : o = [model |-> bound, manifest |-> m]
        BY <1>1, <4>1 DEF Kept
      <4>3. PICK x : x = [model |-> bound, manifest |-> m]
        OBVIOUS
      <4>4. opened = {x}
        BY <3>2, <4>2, <4>3
      <4> QED
        BY <1>2, <4>2
    <3> QED
      BY <3>1, <3>2
  <2> QED
    BY <1>1, <2>1, <2>2 DEF TypeOK, Types
<1>4. ASSUME NEW o \in opened
      PROVE  o.model = handle /\ Open(o.manifest) /\ (~edited => o.manifest = NewManifest)
  <2>1. phase = "stored"
    BY <1>1 DEF Types
  <2>2. PICK m :
           /\ o = [model |-> bound, manifest |-> m] /\ Valid(m) /\ m.hash = data.bytes
           /\ ~edited => m = NewManifest
           /\ m.hash = data.bytes => Laid /\ Len(records) = RecordCount /\ OneEdit(m)
    BY <1>1, <2>1 DEF Kept
  <2>3. bound = handle
    BY <1>1, <2>1 DEF SourceKept
  <2> QED
    BY <1>1, <2>1, <2>2, <2>3 DEF Open
<1>5. NeverMisreads
  BY <1>4, ReadsNothingElse DEF NeverMisreads
<1>6. PreparedReadable
  <2> SUFFICES ASSUME ~edited, NEW o \in opened, NEW i \in 1..RecordCount
               PROVE  ReadTight(o.manifest, i) = {Expected(o.model, i)}
    BY DEF PreparedReadable
  <2>1. o.model = handle /\ Open(o.manifest) /\ o.manifest = NewManifest
    BY <1>4
  <2>2. ReadTight(o.manifest, i) \subseteq {Expected(handle, i)}
    BY <2>1, ReadsNothingElse
  <2>3. Expected(handle, i) \in ReadTight(o.manifest, i)
    BY <2>1, ReadsUntouched
  <2> QED
    BY <2>1, <2>2, <2>3
<1> QED
  BY <1>3, <1>5, <1>6 DEF ReadsExactly

\* "Source-bound, lossless", for every size, alignment and number of experts
\* and for a change of any size to any number of the manifest: as long as the
\* source is not replaced while it is copied, what a runtime reads through a
\* pair it could open is the expert of the model it opened, and a pair nobody
\* touched serves every expert.
THEOREM SidecarLossless ==
    ASSUME ReplacedDuring = FALSE
    PROVE  Spec => []ReadsExactly
<1>1. Init => LayoutInv
  BY LayoutInit
<1>2. LayoutInv /\ [Next]_vars => LayoutInv'
  BY LayoutStep
<1>3. LayoutInv => ReadsExactly
  BY Exact
<1> QED
  BY <1>1, <1>2, <1>3, PTL DEF Spec
=============================================================================
