---------------------------- MODULE ModelOpening ----------------------------
(***************************************************************************)
(* How a model is opened: the plan command, the validation of a payload,   *)
(* and Hy3ScalarModel::open_selected, which parses, measures, hashes and   *)
(* validates the file, checks the options and the memory, and loads what   *)
(* stays resident, opening the path anew each time.                        *)
(*                                                                         *)
(* The profile is a parameter, so that sizes stay small; arithmetic is     *)
(* exact.  Experts come from the model file, not from a sidecar.           *)
(***************************************************************************)
EXTENDS Hy3Model, FiniteSetsExt

CONSTANTS OpeningCases,  \* configurations with the options they are run with
          ModelFiles,    \* versions of the file
          FullLength,    \* SELECTED_HY3_IQ2_M_BYTES
          MaxReplaced    \* bound: replacements of the file

VARIABLES path,     \* the version the path names
          opening,  \* the opening: its inputs, what it has seen, how far it is
          replaced  \* replacements so far

openingVars == <<path, opening, replaced>>

-----------------------------------------------------------------------------
(* Sizes. *)

SpecBytes(s) == TensorBytes([dims |-> s.shape, ty |-> s.ty])
SpecsOfRole(c, role) == {s \in Schema(c) : s.role = role}

\* Hy3MemoryBudget: everything but the routed experts.
ResidentBudget(c) == MapThenSumSet(SpecBytes, {s \in Schema(c) : ~IsRoutedExpert(s.role)})

KvTokenBytes(c) ==
    c["block_count"] * c["attention_kv_head_count"] * (c["key_length"] + c["value_length"]) * 4

\* Mutant: the first page is not counted.
RequiredNoPage(i) == ResidentBudget(i.config) + i.cache + i.headroom
Required(i) ==
    ResidentBudget(i.config) + i.cache + i.headroom
        + KvTokenBytes(i.config) * (IF i.page < i.context THEN i.page ELSE i.context)

MemorySuffices(i, required) == i.memory = 0 \/ i.memory >= required

\* ExpertPayloadLayout: slab 0 of the three routed tensors.
ExpertBytes(c, l) ==
    MapThenSumSet(LAMBDA s : SpecBytes(s) \div c["expert_count"],
                  {s \in Schema(c) : s.role[2] = l /\ IsRoutedExpert(s.role)})
LargestExpert(c) == Max({ExpertBytes(c, l) : l \in 1..(c["block_count"] - 1)})

\* validate_options.
OptionsValid(i) ==
    /\ i.context \in 1..i.config["context_length"] /\ i.page > 0 /\ i.cache > 0
    /\ i.config["block_count"] > 1 => i.cache >= LargestExpert(i.config)

\* plan counts the page as it is allocated.
PlanTokens(i) == i.page

\* What plan reports: memory_preflight_passes, where it reports at all.
PlanPasses(i) ==
    /\ i.context \in 1..i.config["context_length"] /\ i.page > 0
    /\ i.cache >= LargestExpert(i.config)
    /\ MemorySuffices(i, ResidentBudget(i.config) + i.cache
                         + KvTokenBytes(i.config) * PlanTokens(i) + i.headroom)

\* What load_validated reads, in its two forms, for layer l.
LayerLoads(l) ==
    {<<"vector", kind, l>> : kind \in {"AttentionNorm", "AttentionQNorm", "AttentionKNorm", "FfnNorm"}}
    \cup {<<"matrix", kind, l>> : kind \in {"AttentionQ", "AttentionK", "AttentionV", "AttentionOutput"}}
    \cup IF l = 0 THEN {<<"matrix", kind, l>> : kind \in {"DenseGate", "DenseUp", "DenseDown"}}
         ELSE {<<"vector", "RouterSelectionBias", l>>}
              \cup {<<"matrix", kind, l>> : kind \in {"RouterInput", "SharedGate", "SharedUp", "SharedDown"}}

GlobalLoads == {<<"matrix", "TokenEmbedding", NoLayer>>, <<"vector", "OutputNorm", NoLayer>>,
                <<"matrix", "Output", NoLayer>>}

Loads(c) == GlobalLoads \cup UNION {LayerLoads(l) : l \in 0..(c["block_count"] - 1)}

\* TensorLoader::matrix and f32_vector take this tensor.
Loadable(c, load) ==
    \E s \in SpecsOfRole(c, <<load[2], load[3]>>) :
        IF load[1] = "matrix" THEN Len(s.shape) = 2 ELSE Len(s.shape) = 1 /\ s.ty = "F32"

\* resident_weight_bytes: the bytes of matrices, four for each float of a vector.
ResidentBytes(c) ==
    MapThenSumSet(LAMBDA load :
        LET s == CHOOSE x \in SpecsOfRole(c, <<load[2], load[3]>>) : TRUE
        IN  IF load[1] = "matrix" THEN SpecBytes(s) ELSE 4 * s.shape[1], Loads(c))

\* The configuration is a profile's, in range and of several layers like the one
\* that plan and open take, in whole blocks: the reader lets no other rows pass.
ASSUME OpeningAssumption ==
    \A i \in OpeningCases :
        /\ {i.context, i.page, i.cache, i.headroom, i.memory} \subseteq Nat
        /\ SchemaConfigValid(i.config) /\ i.config["block_count"] > 1
        /\ \A s \in Schema(i.config) : s.shape[1] % BlockSize(s.ty) = 0

-----------------------------------------------------------------------------
(* Opening. *)

ChecksUnhashed(kind) ==  \* mutant: a payload of the right length is not hashed
    IF kind = "open"
    THEN <<"length", "storage", "schema", "options", "memory", "endian", "readers", "tensors", "experts">>
    ELSE <<"schema", "length", "storage">>
\* The checks of open_selected, and those of validate_selected_payload.
Checks(kind) ==
    IF kind = "open"
    THEN <<"length", "storage", "hash", "schema", "options", "memory", "endian", "readers",
           "tensors", "experts">>
    ELSE <<"schema", "length", "storage", "hash">>

OpeningInit ==
    /\ path \in ModelFiles
    /\ replaced = 0
    /\ \E i \in OpeningCases :
          opening = [inputs |-> i, kind |-> "none", next |-> 0, end |-> "none", plan |-> "none",
                     parsed |-> path, seen |-> {}, resident |-> 0, used |-> 0, stale |-> FALSE]

Idle_(o) == o.kind = "none"
Checking(check) ==
    /\ opening.kind # "none" /\ opening.end = "none"
    /\ opening.next <= Len(Checks(opening.kind)) /\ Checks(opening.kind)[opening.next] = check
Refuse(check) == opening' = [opening EXCEPT !.end = check]
Advance(o) ==
    [o EXCEPT !.next = @ + 1,
              !.end = IF o.next = Len(Checks(o.kind)) THEN "done" ELSE "none"]
\* A file opened here and kept or hashed.
Sees(o) == [o EXCEPT !.seen = @ \cup {path}]

Plan ==
    /\ Idle_(opening) /\ opening.plan = "none"
    /\ opening' = [opening EXCEPT !.plan = IF path.conforms /\ PlanPasses(opening.inputs)
                                           THEN "passes" ELSE "fails"]
    /\ UNCHANGED <<path, replaced>>

\* open_set: the directory and the length are kept, the file is not.
Parse(kind) ==
    /\ Idle_(opening)
    /\ opening' = [opening EXCEPT !.kind = kind, !.next = 1, !.parsed = path]
    /\ UNCHANGED <<path, replaced>>

CheckPasses(check) ==
    CASE check = "length" -> opening.parsed.length = FullLength
      [] check = "storage" -> ~path.sparse
      [] check = "hash" -> path.authentic
      [] check = "schema" -> opening.parsed.conforms
      [] check = "options" -> OptionsValid(opening.inputs)
      [] check = "memory" -> MemorySuffices(opening.inputs, Required(opening.inputs))
      [] check = "endian" -> opening.parsed.little
      [] OTHER -> TRUE

CheckModel ==
    /\ \E check \in {"length", "storage", "hash", "schema", "options", "memory", "endian"} :
          /\ Checking(check)
          /\ IF CheckPasses(check)
             THEN opening' = Advance(IF check = "hash" THEN Sees(opening) ELSE opening)
             ELSE Refuse(check)
    /\ UNCHANGED <<path, replaced>>

\* TensorLoader::open, and DirectExpertStore::open.
OpenFiles ==
    /\ Checking("readers") \/ Checking("experts")
    /\ opening' = Advance(Sees(opening))
    /\ UNCHANGED <<path, replaced>>

\* A read may fail, of a file that is too short or holds a float that is none.
LoadTensors ==
    /\ Checking("tensors")
    /\ \/ IF \A load \in Loads(opening.inputs.config) : Loadable(opening.inputs.config, load)
          THEN opening' = [Advance(opening) EXCEPT !.resident = ResidentBytes(opening.inputs.config)]
          ELSE Refuse("roles")
       \/ Refuse("tensors")
    /\ UNCHANGED <<path, replaced>>

\* The first token: every layer of a lazy cache gets its first page.
EvaluateFirst ==
    /\ opening.kind = "open" /\ opening.end = "done" /\ opening.used = 0
    /\ opening' = [opening EXCEPT !.used = opening.resident + opening.inputs.cache
                                       + KvTokenBytes(opening.inputs.config) * opening.inputs.page]
    /\ UNCHANGED <<path, replaced>>

\* Another program renames a file over the model.
ReplaceModel(f) ==
    /\ f # path /\ replaced < MaxReplaced
    /\ path' = f /\ replaced' = replaced + 1
    /\ opening' = [opening EXCEPT !.stale = ~Idle_(opening)]

OpeningNext ==
    \/ Plan \/ \E kind \in {"open", "payload"} : Parse(kind)
    \/ CheckModel \/ OpenFiles \/ LoadTensors \/ EvaluateFirst
    \/ \E f \in ModelFiles : ReplaceModel(f)

OpeningSpec == OpeningInit /\ [][OpeningNext]_openingVars

-----------------------------------------------------------------------------
(* Properties. *)

Done(kind) == opening.kind = kind /\ opening.end = "done"

\* Where nothing replaced the file during the opening, everything that was read
\* is the one authentic payload, at the offsets of its own directory; hashing
\* and loading open the path anew, and only then see the same file.
LoadsAuthentic ==
    (Done("open") \/ Done("payload")) /\ ~opening.stale =>
        /\ opening.parsed.authentic
        /\ opening.seen = {opening.parsed}

\* load_validated finds every role it asks for in a validated model, in the form
\* it asks for, and loads just as much as the preflight has budgeted for.
LoadsWhatIsBudgeted ==
    /\ opening.end # "roles"
    /\ Done("open") => opening.resident = ResidentBudget(opening.inputs.config)

\* A plan that passes is not refused by the runtime, for its options or for its
\* memory, although the two compute their needs apart.
PlanConservative ==
    opening.plan = "passes" => opening.end \notin {"options", "memory"}

\* What an opened model holds after its first token, and the headroom, fit in
\* the memory the preflight saw.
FitsMemory ==
    opening.used > 0 /\ opening.inputs.memory > 0 =>
        opening.used + opening.inputs.headroom <= opening.inputs.memory

\* With pages within the context it does.
PreflightCovers == opening.inputs.page <= opening.inputs.context => FitsMemory
\* "Conservative startup memory preflight": it always does.
PreflightConservative == FitsMemory

\* Plan, preflight, loader and first token agree about the memory a model takes.
BudgetsAgree == LoadsWhatIsBudgeted /\ PlanConservative /\ PreflightCovers
=============================================================================
