------------------------------ MODULE Hy3Model ------------------------------
(***************************************************************************)
(* bridge-model-hy3: from the shards of a model to a validated one.  The   *)
(* configuration is resolved from the metadata of the first shard and      *)
(* compared with a profile, later shards must say the same or nothing, and *)
(* the tensor directory must be the schema of the profile.                 *)
(*                                                                         *)
(* Metadata is a function from keys to a type and a value.  A float is its *)
(* distance from the value of the profile, in tolerances.  A tensor name   *)
(* is its part, its layer, and whether the layer is written with a leading *)
(* zero.  The directory is a set: ShardSet refuses a name twice.           *)
(***************************************************************************)
EXTENDS GgufReader, FiniteSets

CONSTANTS Hy3Cases,     \* profiles, and sets of shards to validate with them
          Hy3Configs    \* configurations to generate a schema for

VARIABLE hy3            \* a validation: its inputs, how far it is, its result

NoLayer == -1
NonFinite == 999999

-----------------------------------------------------------------------------
(* config.rs. *)

DimensionKeys ==
    {"block_count", "context_length", "embedding_length", "dense_ffn_length",
     "expert_ffn_length", "shared_expert_ffn_length", "attention_head_count",
     "attention_kv_head_count", "key_length", "value_length", "expert_count",
     "expert_used_count", "expert_gating_func", "yarn_original_context"}
FloatKeys == {"rms_epsilon", "expert_weights_scale", "rope_base", "yarn_factor"}

ConfigKeys == DimensionKeys \cup FloatKeys
                  \cup {"expert_weights_norm", "rope_scaling_type", "vocabulary_size"}

\* SELECTED_METADATA_KEYS; the vocabulary is the array of tokens.
SelectedKeys == ConfigKeys \cup {"architecture"}

KeyType(key) ==
    CASE key \in DimensionKeys -> "U32"
      [] key \in FloatKeys -> "F32"
      [] key = "expert_weights_norm" -> "Bool"
      [] key = "vocabulary_size" -> "Array"
      [] OTHER -> "String"

\* resolve_config succeeds.
Resolves(metadata) ==
    /\ \A key \in SelectedKeys : key \in DOMAIN metadata /\ metadata[key].ty = KeyType(key)
    /\ metadata["architecture"].val = "hy_v3"
    /\ \A key \in FloatKeys : metadata[key].val # NonFinite
    /\ metadata["vocabulary_size"].elem = "String"

ConfigOf(metadata) == [key \in ConfigKeys |-> metadata[key].val]

\* Hy3Profile::validate; compare_float allows for one tolerance.
ProfileAccepts(expected, config) ==
    \A key \in ConfigKeys :
        IF key \in FloatKeys THEN config[key] \in -1..1 ELSE config[key] = expected[key]

\* Mutant: a replica need only be there.
ShardPresent(metadata, config) ==
    DOMAIN metadata \cap SelectedKeys = {} \/ Resolves(metadata)
\* A turn of validate_later_shard_metadata, with validate_exact_replica.
ShardAgrees(metadata, config) ==
    \/ DOMAIN metadata \cap SelectedKeys = {}
    \/ Resolves(metadata) /\ ConfigOf(metadata) = config

-----------------------------------------------------------------------------
(* schema.rs and tensor_role.rs. *)

Limits ==
    [block_count |-> 1024, embedding_length |-> 16777216, dense_ffn_length |-> 16777216,
     expert_ffn_length |-> 16777216, shared_expert_ffn_length |-> 16777216,
     attention_head_count |-> 4096, attention_kv_head_count |-> 4096, key_length |-> 65536,
     value_length |-> 65536, expert_count |-> 65536, vocabulary_size |-> 16777216]
MaxSchemaTensors == 16382

\* validate_schema_config.
SchemaConfigValid(c) ==
    /\ \A field \in DOMAIN Limits : c[field] \in 1..Limits[field]
    /\ c["expert_used_count"] \in 1..c["expert_count"]
    /\ c["attention_kv_head_count"] <= c["attention_head_count"]

PartName(part, layer) == [part |-> part, layer |-> layer, padded |-> FALSE]

SpecOf(part, layer, kind, shape, ty) ==
    [name |-> PartName(part, layer), role |-> <<kind, layer>>, shape |-> shape, ty |-> ty]

GlobalSpecs(c) ==
    LET hidden == c["embedding_length"]
        vocabulary == c["vocabulary_size"]
    IN  {SpecOf("token_embd", NoLayer, "TokenEmbedding", <<hidden, vocabulary>>, "IQ3_S"),
         SpecOf("output_norm", NoLayer, "OutputNorm", <<hidden>>, "F32"),
         SpecOf("output", NoLayer, "Output", <<hidden, vocabulary>>, "Q5_K")}

AttentionSpecs(c, l) ==
    LET hidden == c["embedding_length"]
        qWidth == c["attention_head_count"] * c["key_length"]
        kWidth == c["attention_kv_head_count"] * c["key_length"]
        vWidth == c["attention_kv_head_count"] * c["value_length"]
        outputWidth == c["attention_head_count"] * c["value_length"]
    IN  {SpecOf("attn_k", l, "AttentionK", <<hidden, kWidth>>, "IQ2_S"),
         SpecOf("attn_k_norm", l, "AttentionKNorm", <<c["key_length"]>>, "F32"),
         SpecOf("attn_norm", l, "AttentionNorm", <<hidden>>, "F32"),
         SpecOf("attn_output", l, "AttentionOutput", <<outputWidth, hidden>>, "IQ3_S"),
         SpecOf("attn_q", l, "AttentionQ", <<hidden, qWidth>>, "IQ2_S"),
         SpecOf("attn_q_norm", l, "AttentionQNorm", <<c["key_length"]>>, "F32"),
         SpecOf("attn_v", l, "AttentionV", <<hidden, vWidth>>, "Q4_K"),
         SpecOf("ffn_norm", l, "FfnNorm", <<hidden>>, "F32")}

DenseSpecs(c, l) ==
    LET hidden == c["embedding_length"]
        dense == c["dense_ffn_length"]
    IN  {SpecOf("ffn_down", l, "DenseDown", <<dense, hidden>>, "IQ3_S"),
         SpecOf("ffn_gate", l, "DenseGate", <<hidden, dense>>, "IQ2_S"),
         SpecOf("ffn_up", l, "DenseUp", <<hidden, dense>>, "IQ2_S")}

MoeSpecs(c, l) ==
    LET hidden == c["embedding_length"]
        experts == c["expert_count"]
        ffn == c["expert_ffn_length"]
        shared == c["shared_expert_ffn_length"]
    IN  {SpecOf("exp_probs_b", l, "RouterSelectionBias", <<experts>>, "F32"),
         SpecOf("ffn_gate_inp", l, "RouterInput", <<hidden, experts>>, "F32"),
         SpecOf("ffn_gate_exps", l, "RoutedGate", <<hidden, ffn, experts>>, "IQ2_S"),
         SpecOf("ffn_up_exps", l, "RoutedUp", <<hidden, ffn, experts>>, "IQ2_S"),
         SpecOf("ffn_down_exps", l, "RoutedDown", <<ffn, hidden, experts>>,
                IF l <= 5 THEN "IQ3_S" ELSE "IQ2_S"),
         SpecOf("ffn_gate_shexp", l, "SharedGate", <<hidden, shared>>, "IQ2_S"),
         SpecOf("ffn_up_shexp", l, "SharedUp", <<hidden, shared>>, "IQ2_S"),
         SpecOf("ffn_down_shexp", l, "SharedDown", <<shared, hidden>>,
                IF l <= 4 THEN "IQ3_S" ELSE "IQ2_S")}

LayerSpecs(c, l) ==
    AttentionSpecs(c, l) \cup IF l = 0 THEN DenseSpecs(c, l) ELSE MoeSpecs(c, l)

\* generate_schema_for_validated_selected_iq2_m, and the capacity it reserves.
Schema(c) == GlobalSpecs(c) \cup UNION {LayerSpecs(c, l) : l \in 0..(c["block_count"] - 1)}
SchemaCapacity(c) == (c["block_count"] - 1) * 16 + 14

RoleKinds ==
    [token_embd |-> "TokenEmbedding", output_norm |-> "OutputNorm", output |-> "Output",
     attn_norm |-> "AttentionNorm", attn_q |-> "AttentionQ", attn_q_norm |-> "AttentionQNorm",
     attn_k |-> "AttentionK", attn_k_norm |-> "AttentionKNorm", attn_v |-> "AttentionV",
     attn_output |-> "AttentionOutput", ffn_norm |-> "FfnNorm",
     ffn_gate |-> "DenseGate", ffn_up |-> "DenseUp", ffn_down |-> "DenseDown",
     ffn_gate_inp |-> "RouterInput", exp_probs_b |-> "RouterSelectionBias",
     ffn_gate_exps |-> "RoutedGate", ffn_up_exps |-> "RoutedUp", ffn_down_exps |-> "RoutedDown",
     ffn_gate_shexp |-> "SharedGate", ffn_up_shexp |-> "SharedUp",
     ffn_down_shexp |-> "SharedDown"]
GlobalParts == {"token_embd", "output_norm", "output"}
DenseParts == {"ffn_gate", "ffn_up", "ffn_down"}
MoeParts == {"ffn_gate_inp", "exp_probs_b", "ffn_gate_exps", "ffn_up_exps", "ffn_down_exps",
             "ffn_gate_shexp", "ffn_up_shexp", "ffn_down_shexp"}

NoRole == <<"none", NoLayer>>

\* The part is one of the layer's regime.
InRegime(part, layer) ==
    /\ part \in DOMAIN RoleKinds
    /\ IF layer = NoLayer THEN part \in GlobalParts ELSE part \notin GlobalParts
    /\ part \in DenseParts => layer = 0
    /\ part \in MoeParts => layer > 0

\* Hy3TensorRole::classify.
Classify(name, blocks) ==
    IF InRegime(name.part, name.layer) /\ ~name.padded /\ name.layer < blocks
    THEN <<RoleKinds[name.part], name.layer>> ELSE NoRole

IsRoutedExpert(role) == role[1] \in {"RoutedGate", "RoutedUp", "RoutedDown"}

\* validate_explicit_schema of a schema without duplicate names.
ExplicitSchemaValid(c, schema) ==
    /\ SchemaConfigValid(c)
    /\ Cardinality(schema) \in 1..MaxSchemaTensors
    /\ Cardinality({s.name : s \in schema}) = Cardinality(schema)
    /\ \A s \in schema :
          /\ Classify(s.name, c["block_count"]) = s.role
          /\ Len(s.shape) \in 1..3 /\ \A d \in DOMAIN s.shape : s.shape[d] # 0
          /\ IsRoutedExpert(s.role) => Len(s.shape) = 3 /\ s.shape[3] = c["expert_count"]

-----------------------------------------------------------------------------
(* Validation of a model. *)

\* Hy3Profile::selected_iq2_m.
SelectedConfig ==
    [block_count |-> 80, context_length |-> 1048576, embedding_length |-> 4096,
     dense_ffn_length |-> 13312, expert_ffn_length |-> 1536, shared_expert_ffn_length |-> 1536,
     attention_head_count |-> 64, attention_kv_head_count |-> 8, key_length |-> 128,
     value_length |-> 128, rms_epsilon |-> 0, expert_count |-> 192, expert_used_count |-> 8,
     expert_weights_norm |-> TRUE, expert_gating_func |-> 2, expert_weights_scale |-> 0,
     rope_base |-> 0, rope_scaling_type |-> "yarn", yarn_factor |-> 0,
     yarn_original_context |-> 262144, vocabulary_size |-> 120832]
SelectedProfile == [selected |-> TRUE, expected |-> SelectedConfig]

\* Hy3Profile::explicit only makes valid profiles.
ProfileMade(p) == IF p.selected THEN TRUE ELSE ExplicitSchemaValid(p.expected, p.schema)

\* tensor_schema; the generated one fails on an invalid configuration.
TensorSchema(p) == IF p.selected THEN Schema(p.expected) ELSE p.schema
SchemaAvailable(p) == p.selected => SchemaConfigValid(p.expected)

\* validate_descriptor_iter_against, with the count compared before it: the
\* routed shape is contained in the shape of the schema.
MatchesSchema(schema, tensors) ==
    /\ Cardinality(tensors) = Cardinality(schema) /\ Cardinality(tensors) <= MaxSchemaTensors
    /\ Cardinality({t.name : t \in tensors}) = Cardinality(tensors)
    /\ \A s \in schema : [name |-> s.name, shape |-> s.shape, ty |-> s.ty] \in tensors

\* The semantic tensors of the result, each looked up by the name of its role.
Semantic(schema, tensors) ==
    {[role |-> s.role, tensor |-> [name |-> s.name, shape |-> s.shape, ty |-> s.ty]] : s \in schema}

\* Mutant: slabs of an expert more.
WideSlab(payload, experts, expert) ==
    LET bytes == payload \div (experts - 1) IN <<expert * bytes, (expert + 1) * bytes>>
\* checked_expert_slab, where it succeeds.
ExpertSlab(payload, experts, expert) ==
    LET bytes == payload \div experts IN <<expert * bytes, (expert + 1) * bytes>>

SlabDefined(shape, payload, experts, expert) ==
    /\ Len(shape) = 3 /\ shape[3] = experts
    /\ expert < experts /\ payload % experts = 0

Hy3Idle == [phase |-> "idle", accepted |-> {}]

Hy3Init ==
    \/ \E c \in Hy3Cases :
          /\ ProfileMade(c.profile)
          /\ hy3 = [phase |-> "config", profile |-> c.profile, files |-> c.files,
                    tensors |-> c.tensors, accepted |-> {}]
    \/ \E c \in Hy3Configs : hy3 = [phase |-> "schema", config |-> c, accepted |-> {}]

ValidateConfig ==
    /\ hy3.phase = "config"
    /\ hy3' = IF Resolves(hy3.files[1])
                 /\ ProfileAccepts(hy3.profile.expected, ConfigOf(hy3.files[1]))
              THEN [hy3 EXCEPT !.phase = "shards"] ELSE [hy3 EXCEPT !.phase = "refused"]

ValidateShards ==
    /\ hy3.phase = "shards"
    /\ hy3' = IF \A i \in 2..Len(hy3.files) : ShardAgrees(hy3.files[i], ConfigOf(hy3.files[1]))
              THEN [hy3 EXCEPT !.phase = "directory"] ELSE [hy3 EXCEPT !.phase = "refused"]

ValidateDirectory ==
    /\ hy3.phase = "directory"
    /\ LET schema == TensorSchema(hy3.profile) IN
       hy3' = IF SchemaAvailable(hy3.profile) /\ MatchesSchema(schema, hy3.tensors)
              THEN [hy3 EXCEPT !.phase = "accepted", !.accepted = Semantic(schema, hy3.tensors)]
              ELSE [hy3 EXCEPT !.phase = "refused"]

Hy3Next == ValidateConfig \/ ValidateShards \/ ValidateDirectory

Hy3Spec == Hy3Init /\ [][Hy3Next]_hy3

-----------------------------------------------------------------------------
(* What is validated. *)

\* Only arrays have a type of elements.
IsMetadata(metadata) ==
    \A key \in DOMAIN metadata :
        LET v == metadata[key] IN
        /\ v = [ty |-> v.ty, elem |-> v.elem, val |-> v.val]
        /\ v.ty # "Array" => v.elem = "String"

\* The reader lets no other tensors pass.
IsTensor(t) ==
    /\ t = [name |-> t.name, shape |-> t.shape, ty |-> t.ty]
    /\ t.shape \in Seq(Nat \ {0}) /\ t.shape # <<>>
    /\ t.ty \in GgmlTypes /\ t.shape[1] % BlockSize(t.ty) = 0

\* A spec has a role.
IsSpec(s) ==
    /\ s = [name |-> s.name, role |-> s.role, shape |-> s.shape, ty |-> s.ty]
    /\ s.name = [part |-> s.name.part, layer |-> s.name.layer, padded |-> s.name.padded]
    /\ s.name.padded \in BOOLEAN /\ s.role # NoRole

\* A set has a first shard, and nothing in it is infinite; selected_iq2_m makes
\* one profile.
ASSUME Hy3Assumption ==
    \A c \in Hy3Cases :
        /\ Len(c.files) \in Nat \ {0} /\ DOMAIN c.files = 1..Len(c.files)
        /\ \A i \in DOMAIN c.files : IsMetadata(c.files[i])
        /\ IsFiniteSet(c.tensors) /\ \A t \in c.tensors : IsTensor(t)
        /\ IF c.profile.selected THEN c.profile = SelectedProfile
           ELSE /\ IsFiniteSet(c.profile.schema) /\ \A s \in c.profile.schema : IsSpec(s)
                /\ c.profile = [selected |-> FALSE, expected |-> c.profile.expected,
                                schema |-> c.profile.schema]

-----------------------------------------------------------------------------
(* Properties. *)

\* A validated model has each semantic role once and every tensor of its files
\* has one, whatever names an explicit profile lists: tensor_for_role finds the
\* only tensor of that role.
RolesUnique ==
    hy3.phase = "accepted" =>
        /\ \A x, y \in hy3.accepted : x.role = y.role => x = y
        /\ {x.tensor : x \in hy3.accepted} = hy3.tensors
        /\ Cardinality(hy3.accepted) = Cardinality(hy3.tensors)

\* What a set must be, said without an order of checks: each shard carries all
\* of the configuration or none of it, those that do carry the same one, it is
\* the profile's up to a tolerance, and the tensors are the schema's.
Conforms(c) ==
    LET carriers == {i \in DOMAIN c.files : i = 1 \/ DOMAIN c.files[i] \cap SelectedKeys # {}}
        schema == IF c.profile.selected THEN Schema(c.profile.expected) ELSE c.profile.schema
    IN  /\ \A i \in carriers :
              /\ Resolves(c.files[i])
              /\ \A key \in SelectedKeys :
                    /\ c.files[i][key] = c.files[1][key]
                    /\ key \in FloatKeys => c.files[i][key].val \in {-1, 0, 1}
                    /\ key \in ConfigKeys \ FloatKeys =>
                          c.files[i][key].val = c.profile.expected[key]
        /\ c.tensors = {[name |-> s.name, shape |-> s.shape, ty |-> s.ty] : s \in schema}

\* Validation accepts exactly the sets that conform to the profile, with each
\* role found once.
ValidatesExactly ==
    /\ hy3.phase = "accepted" => Conforms(hy3)
    /\ RolesUnique
    /\ hy3.phase = "refused" => ~Conforms(hy3)

\* For every configuration in range, the generated schema is as long as its
\* reservation, within the limit on directories, and passes the checks that
\* explicit schemas pass: its names read back as its roles.
SchemaConsistent ==
    hy3.phase = "schema" /\ SchemaConfigValid(hy3.config) =>
        LET schema == Schema(hy3.config) IN
        /\ Cardinality(schema) = SchemaCapacity(hy3.config)
        /\ ExplicitSchemaValid(hy3.config, schema)

\* The slabs of a routed tensor of a validated model exist for every expert and
\* divide its payload, in whole rows, among the experts.
SlabsPartition ==
    \A x \in {y \in hy3.accepted : IsRoutedExpert(y.role)} :
        LET t == x.tensor
            experts == hy3.profile.expected["expert_count"]
            payload == TensorBytes([dims |-> t.shape, ty |-> t.ty])
            row == (t.shape[1] \div BlockSize(t.ty)) * TypeSizes[t.ty]
            slab(e) == ExpertSlab(payload, experts, e)
        IN  /\ slab(0)[1] = 0 /\ slab(experts - 1)[2] = payload
            /\ \A e \in 0..(experts - 1) :
                  /\ SlabDefined(t.shape, payload, experts, e)
                  /\ slab(e)[2] - slab(e)[1] = t.shape[2] * row
                  /\ e > 0 => slab(e)[1] = slab(e - 1)[2]

\* An expert of a validated model has one place: the schema names each tensor
\* once and slabs divide it exactly.
SchemaSound == SchemaConsistent /\ SlabsPartition
=============================================================================
