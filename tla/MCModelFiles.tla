---------------------------- MODULE MCModelFiles ----------------------------
(* Small instances of the components between a model's files and what an   *)
(* opened model holds.                                                     *)
EXTENDS GgufReader, ShardSet, Hy3Model, ModelOpening

(* GgufReader *)

ItemOf(len, val) == [len |-> len, val |-> val, utf8 |-> TRUE]
NotUtf8(len) == [ItemOf(len, 0) EXCEPT !.utf8 = FALSE]
MetadataEntry(key, ty, value) ==
    [key |-> key, keyLen |-> 1, keyUtf8 |-> TRUE, ty |-> ty, value |-> value, elem |-> "U8",
     items |-> <<>>]
ArrayEntry(key, elem, items) ==
    [MetadataEntry(key, "Array", ItemOf(0, 0)) EXCEPT !.elem = elem, !.items = items]
AlignmentEntry(ty, val) == MetadataEntry("general.alignment", ty, ItemOf(0, val))
\* Keys and strings up to, at and beyond the limit, ill-formed ones, and arrays
\* of none to too many items, the last of which may be the only bad one.
Entries ==
    {AlignmentEntry("U32", v) : v \in {0, 8, 12, 64, 1024}} \cup {AlignmentEntry("U64", 8)}
    \cup {ArrayEntry(key, elem, [i \in 1..n |-> ItemOf(3, 0)]) :
             key \in {"a", "b"}, elem \in {"U16", "String", "Array"}, n \in {0, 2, 3, 6}}
    \cup {ArrayEntry("a", "String", s) :
             s \in {<<NotUtf8(3)>>, <<ItemOf(0, 0), NotUtf8(3)>>, <<ItemOf(9, 0), ItemOf(60, 0)>>}}
    \cup {[ArrayEntry("a", "String", [i \in 1..n |-> ItemOf(0, 0)]) EXCEPT !.keyLen = 40] : n \in {4, 5}}
    \cup {ArrayEntry("a", "Bool", b) : b \in {<<ItemOf(0, 2)>>, <<ItemOf(0, 1), ItemOf(0, 0)>>,
                                             <<ItemOf(0, 0), ItemOf(0, 2)>>}}
    \cup {MetadataEntry("c", "String", x) : x \in {ItemOf(n, 0) : n \in {0, 9, 41, 200}} \cup {NotUtf8(3)}}
    \cup {MetadataEntry("c", "Bool", ItemOf(0, v)) : v \in {1, 2}}
    \cup {MetadataEntry("b", "I64", ItemOf(0, 0)), MetadataEntry("c", "bad", ItemOf(0, 0)),
          [MetadataEntry("d", "Bool", ItemOf(0, 0)) EXCEPT !.keyUtf8 = FALSE]}
    \cup {[MetadataEntry(key, ty, ItemOf(40, 0)) EXCEPT !.keyLen = n] :
             key \in {"c", "d"}, ty \in {"Bool", "String"}, n \in {40, 41}}

TensorInfo(dims, ty, offset) ==
    [nameLen |-> 2, nameUtf8 |-> TRUE, dims |-> dims, ty |-> ty, offset |-> offset]
\* Shapes with and without whole blocks, with no, four or five dimensions, and
\* sizes beyond MaxU64; offsets that leave gaps, overlap or are exact.
TensorLists ==
    {<<TensorInfo(dims, ty, 0)>> : ty \in {"F32", "Q8_0"},
        dims \in {<<32>>, <<64, 2>>, <<32, 3, 2>>, <<32, 2, 2, 2>>, <<16>>, <<32, 0>>, <<>>,
                  <<32, 1, 1, 1, 1>>, <<640, 40>>, <<32, 64, 64, 64>>}}
    \cup {<<TensorInfo(<<32>>, "Q8_0", 0), TensorInfo(<<3>>, "F32", o)>> : o \in {32, 34, 40, 64, 128}}
    \cup {<<TensorInfo(<<3>>, "F32", 0), TensorInfo(<<3, 2>>, "F32", o), TensorInfo(<<1>>, "F32", o + p)>> :
             o \in {12, 16, 32, 64}, p \in {24, 32, 64}}
    \cup {<<>>, <<[TensorInfo(<<3>>, "F32", 0) EXCEPT !.nameUtf8 = FALSE]>>}

\* Entries that are no values have some length.
WrittenBytes(e) == IF e.ty = "bad" \/ e.elem = "Array" THEN 20 + e.keyLen + 4 * Len(e.items) ELSE EntryBytes(e)
DirectoryBytes(m, t) ==
    24 + SumOf([i \in DOMAIN m |-> WrittenBytes(m[i])], Len(m))
       + SumOf([i \in DOMAIN t |-> 24 + t[i].nameLen + 8 * Len(t[i].dims)], Len(t))

\* h: magic, version, and how many entries and tensors too many are declared;
\* spare: the bytes behind the directory.
FileWith(h, m, tensors, spare) ==
    LET t == IF h[3] > 0 THEN <<>> ELSE tensors IN
    [magic |-> h[1], version |-> h[2], metadataCount |-> Len(m) + h[3],
     tensorCount |-> Len(t) + h[4], metadata |-> m, tensors |-> t,
     length |-> DirectoryBytes(m, t) + IF h[3] + h[4] > 0 THEN 0 ELSE spare]
Current == <<"GGUF", 3, 0, 0>>
OneTensor == <<TensorInfo(<<3>>, "F32", 0)>>
SmallFiles ==
    {FileWith(Current, <<e, f>>, t, spare) :
        e, f \in Entries, t \in {<<>>, OneTensor}, spare \in {0, 128}}
    \cup {FileWith(Current, m, t, spare) :
        m \in {<<>>} \cup {<<AlignmentEntry("U32", v)>> : v \in {8, 64}},
        t \in TensorLists, spare \in {0, 31, 64, 110, 150, 200, 300}}
    \cup {FileWith(h, m, t, 128) :
        h \in {<<"FUGG", 2, 0, 0>>, <<"bad", 3, 0, 0>>, <<"GGUF", 4, 0, 0>>, <<"GGUF", 3, 1, 0>>,
               <<"GGUF", 3, 0, 1>>, <<"GGUF", 3, 9, 0>>, <<"GGUF", 3, 0, 9>>},
        m \in {<<>>, <<MetadataEntry("b", "I64", ItemOf(0, 0))>>}, t \in {<<>>, OneTensor}}

(* ShardSet *)

Numbered(o, count) == <<"p", o, count>>
SingleName == <<"x">>
ShardFile(no, count, format, tensors, declared) ==
    [kind |-> "file", no |-> no, count |-> count, format |-> format, tensors |-> tensors,
     declared |-> declared]
SingleFile == ShardFile(Missing, Missing, "v3", <<"a">>, Missing)
ShardFiles ==
    {ShardFile(no, count, format, tensors, Missing) : no \in {0, 1, Missing}, count \in {1, 2},
        format \in {"v2", "v3"}, tensors \in {<<>>, <<"a">>, <<"b", "c">>}}
    \cup {ShardFile(no, 2, "v3", tensors, declared) : no \in {0, 1},
             tensors \in {<<"a">>, <<"b", "c">>}, declared \in {2, 3, Negative, WrongType}}
    \cup {ShardFile(no, Missing, "v3", <<"a">>, Missing) : no \in {0, WrongType}}
OtherNodes ==
    {[kind |-> kind, to |-> SingleName] : kind \in {"absent", "folder", "outside", "link"}}
    \cup {[kind |-> "link", to |-> Numbered(o, 2)] : o \in {1, 2}}
Laid(first, second, single, first1, third) ==
    [n \in {Numbered(o, 2) : o \in 1..3} \cup {SingleName, Numbered(1, 1)} |->
        CASE n = SingleName -> single
          [] n = Numbered(1, 1) -> first1
          [] n = Numbered(1, 2) -> first
          [] n = Numbered(2, 2) -> second
          [] OTHER -> third]
\* Links lead to files.
SmallDirectories ==
    {d \in {Laid(a, b, SingleFile, SingleFile, SingleFile) : a, b \in ShardFiles \cup OtherNodes}
           \cup {Laid(ShardFile(0, 2, "v3", t, Missing), b, c, c, [kind |-> "link", to |-> SingleName]) :
                    t \in {<<>>, <<"a">>}, b \in OtherNodes, c \in ShardFiles \cup OtherNodes} :
        \A n \in DOMAIN d : d[n].kind = "link" => d[d[n].to].kind = "file"}

(* Hy3Model *)

SmallModel(blocks, experts) ==
    [SelectedConfig EXCEPT !.block_count = blocks, !.embedding_length = 256,
        !.dense_ffn_length = 512, !.expert_ffn_length = 256, !.shared_expert_ffn_length = 256,
        !.attention_head_count = 4, !.attention_kv_head_count = 2, !.expert_count = experts,
        !.expert_used_count = 1, !.vocabulary_size = 3]
SmallConfigs ==
    {[SmallModel(b, e) EXCEPT !.attention_kv_head_count = kv, !.expert_used_count = u] :
        b \in {0, 1, 7}, e \in {0, 1, 3}, kv \in {0, 4, 5}, u \in {0, 1, 3}}
    \cup {SmallModel(b, 65536) : b \in {1024, 1025}} \cup {SelectedConfig}

MetadataOf(c) ==
    [key \in SelectedKeys |->
        [ty |-> KeyType(key), elem |-> "String",
         val |-> IF key = "architecture" THEN "hy_v3" ELSE c[key]]]
Small == SmallModel(2, 2)
SmallMetadata == MetadataOf(Small)
Without(m, key) == [k \in DOMAIN m \ {key} |-> m[k]]
\* One key missing, of the wrong type or of another value, a float off by one
\* rounding or by more.
OneKeyOff(m) ==
    {Without(m, key) : key \in SelectedKeys}
    \cup {[m EXCEPT ![key].ty = "U64"] : key \in SelectedKeys}
    \cup {[m EXCEPT ![key].val = v] : key \in DimensionKeys \cup {"vocabulary_size"}, v \in {0, 9}}
    \cup {[m EXCEPT ![key].val = v] : key \in FloatKeys, v \in {-1, 1, 2, NonFinite}}
    \cup {[m EXCEPT ![key].val = "other"] : key \in {"architecture", "rope_scaling_type"}}
    \cup {[m EXCEPT !["expert_weights_norm"].val = FALSE], [m EXCEPT !["vocabulary_size"].elem = "I32"]}

TensorsOf(schema) == {[name |-> s.name, shape |-> s.shape, ty |-> s.ty] : s \in schema}
SmallTensors == TensorsOf(Schema(Small))
\* One tensor missing, too many or another one.
OneTensorOff(ts) ==
    UNION {{ts \ {t}, ts \cup {[t EXCEPT !.name.part = "mtp"]}, ts \cup {[t EXCEPT !.ty = "F16"]}}
           \cup {(ts \ {t}) \cup {u} :
                   u \in {[t EXCEPT !.ty = "F16"], [t EXCEPT !.shape = Append(@, 2)],
                          [t EXCEPT !.shape[1] = @ * 2], [t EXCEPT !.name.padded = TRUE],
                          [t EXCEPT !.name.layer = @ + 1]}} : t \in ts}
\* Schemas an explicit profile may be asked to take.
OddSchemas ==
    UNION {{Schema(Small) \cup {[s EXCEPT !.name.padded = TRUE]}, Schema(Small) \ {s},
            (Schema(Small) \ {s}) \cup {[s EXCEPT !.shape = <<256, 2>>]},
            Schema(Small) \cup {[s EXCEPT !.ty = "F16"]}} : s \in Schema(Small)}

ProfileOf(c, schema) == [selected |-> FALSE, expected |-> c, schema |-> schema]
SmallProfile == ProfileOf(Small, Schema(Small))
Validated(profile, files, tensors) == [profile |-> profile, files |-> files, tensors |-> tensors]
ModelSets ==
    {Validated(SmallProfile, <<m>>, SmallTensors) : m \in OneKeyOff(SmallMetadata) \cup {SmallMetadata}}
    \cup {Validated(SmallProfile, <<m, n>>, SmallTensors) :
             m \in {SmallMetadata, [SmallMetadata EXCEPT !["rope_base"].val = 1]},
             n \in OneKeyOff(SmallMetadata) \cup {SmallMetadata, <<>>}
                   \cup {[key \in {k} |-> SmallMetadata[k]] : k \in SelectedKeys}}
    \cup {Validated(SmallProfile, <<SmallMetadata, <<>>>>, ts) : ts \in OneTensorOff(SmallTensors)}
    \cup {Validated(ProfileOf(Small, schema), <<SmallMetadata>>, TensorsOf(schema)) : schema \in OddSchemas}
    \cup {Validated(SelectedProfile, <<MetadataOf(SelectedConfig), <<>>>>, ts) :
             ts \in {TensorsOf(Schema(SelectedConfig)),
                     TensorsOf(Schema([SelectedConfig EXCEPT !.block_count = 79]))}}

(* ModelOpening *)

Version(authentic, conforms, length, sparse, little) ==
    [authentic |-> authentic, conforms |-> conforms, length |-> length, sparse |-> sparse,
     little |-> little]
\* The payload, and files that differ from it in one respect more each.
Versions ==
    {Version(TRUE, TRUE, 1, FALSE, TRUE), Version(FALSE, TRUE, 1, FALSE, TRUE),
     Version(FALSE, TRUE, 1, TRUE, TRUE), Version(FALSE, FALSE, 1, FALSE, TRUE),
     Version(FALSE, TRUE, 2, FALSE, TRUE), Version(FALSE, TRUE, 1, FALSE, FALSE)}

OpenedModel == [Small EXCEPT !.context_length = 2]
SmallHeadroom == 7
MemoryFor(page) ==
    ResidentBudget(OpenedModel) + LargestExpert(OpenedModel) + SmallHeadroom
        + KvTokenBytes(OpenedModel) * page
\* Contexts, pages, caches and memories up to, at and beyond each limit.
ModelOpenings ==
    {[config |-> OpenedModel, context |-> context, page |-> page, cache |-> cache,
      headroom |-> SmallHeadroom, memory |-> memory] :
        context \in 0..3, page \in 0..3,
        cache \in {0, LargestExpert(OpenedModel) - 1, LargestExpert(OpenedModel)},
        memory \in {0} \cup {MemoryFor(p) + d : p \in 1..3, d \in {-1, 0}}}
=============================================================================
