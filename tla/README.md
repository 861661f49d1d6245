# Formal models of hailo-10h-llm-compiler

The repository compiles a Hugging Face checkpoint into a Hailo-10H HEF in six
scripts (`pipeline/s1 .. s6`), runs, diagnoses and patches it (`runtime/`),
registers it with the hailo-ollama server, and publishes itself with two
workflows. This directory holds TLA+ models of that code, the TLC
configurations that check them on small instances, and TLAPS proofs about eleven
of the models.

    tlc -workers 2 -config MCCacheLayout.cfg MCCacheLayout     # one run
    tlapm KvCacheProofs.tla                                    # the proofs of one module

`PROJECT.json` lists every run with its properties, the lines every definition
stands for, the hazards, the findings and the theorems.

## 1. Inventory

| Part | State it keeps | Operations | Interacts with |
|---|---|---|---|
| Cached generation (`kv_greedy.py`, `runtime_inputs.py`) | tokens, loop position; on the device the ring and its read offset | check arguments, prefill, token-by-token turn, advance offset, infer | HailoRT's cache, shared by two network groups |
| Base-scope generation (`generate_base_scope.py`) | tokens, number of steps | one full run per token | the `base` network group |
| GenAI call (`genai_generate.py`, `genai_worker.py`) | attempt, last result; the worker's LLM; on the device the conversation | spawn, wait with timeout, judge, back off; open, load, clear, generate, report, tear down | a subprocess, its stdout pipe, the device |
| Configuration (`config.py`) | `run_config.json`, module globals | `load(model)`, `load()`, `paths` | every step |
| Export (s1), parse (s2) | `wte.npy`, tokenizer, ONNX, `hf_reference.npz`; `parsed.har` | export with two gates; parse, save, gate | PyTorch, SDK |
| Surgery and resources (s3) | the HN: layers naming each other; the `.npz`; the server's tokenizer and `hailo-config.json` | RoPE, mask and lm_head surgery; save, gate; attach resources | parsed HAR, references, the genai server |
| Quantization and recipes (s4, `recipes/*.alls`) | the model script, the calibration set, `quantized.har` | find the layers of each role, fill placeholders, predict the SDK's renames, build the calibration, optimize, split into groups | the graph step 3 wrote, the SDK's `llm_modifications` |
| Repair (s5), compile (s6) | `convfixed.har`, `compiled.har`, `model.hef` | reorder conv inputs; compile with layout conversions | the files before them |
| Resources of a HEF (`hotpatch_hailo_config.py`, `hef_audit.py`) | descriptors and the bytes they point at | load, append and repoint, save, verify; parse header, protobuf and padding, read | HefWrapper, the genai server |
| Registration (`register_hailo_ollama.py`) | blobs by digest, manifests by tag | hash, copy, write manifest | other registrars, step 6, the server |
| Release workflows (`.github/workflows/`) | main, tags and releases; check of each pull request | check on an event, merge, look for the release, create it | git, GitHub |
| Docker images, notebooks, manual test | none | | the scripts above |

What is hard here, and a test would hardly reach:

* *Three computations of one fact.* Where the context lies in the cache is
  computed three times: in the mask (usage), in the device's read offset
  (advanced *before* the run) and in the RoPE positions. An error of one row
  gives text that is merely worse.
* *Wrap-around.* The ring, and its memory layout as two network groups see it.
* *Timeouts and crashes* of a worker that shares a device whose state outlives
  the process.
* *Stale artifacts.* Six scripts meet only in files, each can be re-run alone,
  raise, or be killed between two writes.
* *Names of layers that do not exist yet.* A recipe is resolved on step 3's
  graph and applied by the SDK to a graph it has renamed and split first; roles
  are told apart by neighbours alone.
* *A binary file patched in place*, whose offsets are relative to a point that
  moves when a patch makes the protobuf longer.
* *Concurrent publication*: into a store that a server reads, and of releases
  by unordered runs that trust a check made on an older main.
* *A graph rewritten in place*, edges stored at both of their ends.

What makes each part correct is stated with its properties in section 3.

## 2. Modules

| Module | Models | Composes |
|---|---|---|
| `RuntimeInputs` | `build_mask`, the self mask, an embedding row with its position | |
| `Decoder` | the abstract promise: every token is drawn from all tokens before it, at their positions | |
| `KvCache` | `kv_greedy.py` over the cache ring | `RuntimeInputs`; implements `Decoder` |
| `CacheLayout` | the memory under the ring and the conversions of s6 | `KvCache` |
| `BaseScope` | `generate_base_scope.py` | `RuntimeInputs`; implements `Decoder` |
| `GenaiRetry` | parent, worker and device of one `robust_generate` | |
| `Pipeline` | the six steps over one working directory | |
| `HnSurgery` | `rope_surgery`, `mask_surgery`, `lm_head_split` | |
| `Recipe` | step 4: roles, placeholders, script, calibration mask; the SDK's rewrite | `HnSurgery`, whose result it reads |
| `ConvInputs` | `fix_duplicated_conv_inputs` | |
| `ServerResources` | what step 3 attaches for the server, and how the server uses it | |
| `HefFile` | the resources of a HEF under patches, the audit's and the server's reads | `ServerResources` |
| `Registry` | registrars, step 6's rebuild and the server over one store | |
| `ReleaseFlow` | pull requests, their checks, merges, the runs of `release.yml` | |
| `BaseScopeProofs`, `GenaiRetryProofs`, `PipelineProofs`, `RegistryProofs`, `ReleaseFlowProofs` | theorems | the module of that name |
| `KvCacheProofs` | theorems | `CacheLayout`, and through it `KvCache` |
| `ArtifactProofs` | theorems | `ConvInputs`, `HefFile` |
| `HnSurgeryProofs` | theorems | `Recipe`, and through it `HnSurgery` |
| `MC*` | the constants of the runs | the module of that name |

How state and actions correspond to the code:

* **KvCache.** `args`, `prompt` are the command line; `pc` the place in `main()`
  and `run()`; `req` the arguments of the `run()` in progress; `generated` the
  list of that name. `CheckArgs` are the two assertions, `Prefill` and `Tbt`
  build a run's inputs, `AdvanceOffset` and `Infer` are its two device calls,
  `RunRaises` their failure (and the check of the logits' size). `offset` and
  `ring` are HailoRT's: `Slot`, `Window`, `Stored` and `Attended` model the
  device from what the code and `docs/findings/tbt-cache-read.md` say of it (a
  ring of one-token entries; a run of n rows reads the `seq - n` entries from
  the offset on and stores its own behind them). An entry is a token with its
  position; what the network computes from them is a free choice of a token, so
  the properties hold for every model. `attended` records, per position, which
  entries its row saw under which column. The loop counter `step` is
  `len(generated) - 1`.
* **CacheLayout** adds the cells of the ring. A cell holds an entry and a
  feature; an edge with a `format_conversion` line lays a tensor out token by
  token, one without feature by feature. `Conversions` is the list main() hands
  to the compiler.
* **BaseScope**: one action `Generate` per turn; the device call and the
  host's work between two calls touch nothing else.
* **GenaiRetry.** One action per statement of the worker that can fail; a
  failure leads through `except` to the teardown, as in the code. `buffer` and
  `pipe` separate what was printed from what was flushed: stdout is a pipe.
  `context` is the set of attempts whose tokens the device's conversation
  holds, 0 an earlier call's. `PrintResult`: a line waits in stdout's buffer
  until the worker exits, or, when it is longer than the buffer, is written at
  once, before the teardown. The back-off's length is left out. The comment at
  genai_worker.py:43 ("every failure must reach the parent as JSON") is about the
  body after the imports: an import of the SDK that fails leaves no line, and the
  parent counts the attempt as a crash.
* **Pipeline.** `file` maps an artifact to missing, torn or whole content; the
  content says which export each part comes from. `Open` truncates, `Close`
  completes, and `Dies` may come in between. The gates compare provenance: the
  cosine of logits of two checkpoints, or over embeddings and a mask of another
  length, does not pass 0.999. (Two checkpoints a fine-tuning apart by less
  than the threshold would pass; that is numeric.) The `tokenizer_server.json`
  and `hailo-config.json` step 3 writes on its way are rewritten before each use
  and not read by another step. Of the directory `save_pretrained` writes, step 3
  reads `tokenizer.json` only, and that file is the artifact `tokenizer`.
* **HnSurgery.** `layers` maps a name to type, ordered inputs, set of consumers
  and kernel columns; one action per turn of each loop, that which collects
  `orig_chain` included (`CollectStep` until `CollectEnd`, in `chain`). The mask's
  loop collects the consumers of `input_layer2` in `newOutput` (the code's
  `new_il2_output`), and `MaskEnd` assigns them after it. `Parsed`
  is what the SDK makes of the export: the six inputs, the four RoPE convs every
  attention reads, the mask slices, the two residual adds, attention with its
  projections and rotary products, gated MLP and norms of a layer, each with the
  product by its weights, and a chain of cheap layers over the lm_head (the final
  norm's product is one of them). The factor 1/sqrt(head size) is left out.
  `Bound` is `np.linspace(..., dtype=int)`: the exact quotient, truncated, and one
  less where the float product falls just below a whole number (`net.low`; for
  instance 122 columns in 14 shards). That happens at inner bounds only and never
  when the shards divide the vocabulary, which `NetsAssumption` states. With no such chain
  at all, lm_head's shards would not be entered among the consumers of the
  shared layer (lines 262-294 enter only a chain's end); the export always
  leaves a slice there, which `NetsAssumption` states. The norms of QK-norm
  checkpoints are left out: what the parser makes of the square in front of
  their matmul is not said in the repository.
* **Recipe** continues where `HnSurgery` has saved. `stage` is the place in
  step 4's main(); `FindRoles` is `discover_compressible_convs` and
  `find_roles`; `Refused` the `sys.exit`s of `resolve_recipe`; `Resolve` starts
  its loop over the lines, `ResolveLine` is a turn of it (line `lineno` is
  dropped when a role of it is empty, else filled, with the renames
  `llm_modifications` will make) and `ResolveEnd` sets the run's cache sizes.
  `RecipesAssumption` says what a recipe is: placeholders are roles, layers named
  outright are inputs of the graph, commands for the whole network name no
  layer, and the cache sizes are given at most once. `ArchsAssumption`: the
  residual stream is wider than a head. `Rewritten` is the SDK's
  rewrite as the comments of `resolve_recipe` describe it. It is known
  only for one lm_head, so `NamesExist` says nothing of a head in shards.
  `NamesExist` has one exception, `Unsplit`: in a recipe that enables
  `llm_modifications`, `{compressible_convs}` names the lm_head as it was before it
  is split. The code goes wrong there: the role is the one that is not renamed
  (s4_optimize_kvcache.py:128 against :159, "precision lines have to name what
  exists after that rewrite"). The shipped recipes avoid the pair, one recipe of
  the run has it.
  Another thing a reader of the code should know: a sharded head with
  `conv_splits` = 1 is let through although `recipes/README.md` says that
  sharded heads are refused.
* **ConvInputs.** One action per turn of the inner loop. `parsed` keeps the
  layers as they were read. `input` and `input_shapes` are taken to be equally
  long, as the SDK writes them.
* **ServerResources, HefFile.** `file` maps a path to a HEF: its version, its
  descriptors and the bytes of its resources; a byte is a document with an
  index, so bytes of two documents never agree. `Load` is the script up to
  `hef.save`, `SaveOpen` and `SaveDone` the save (which may be over the file that
  was read), `Verify` the round trip with its assertions, `Kill` ends the
  script anywhere. `ZeroPoint` is the audit's computation, `ByteAt` where the
  bytes really are. A HEF with two configurations is refused by
  `find_config_resource` only after the patched file was saved.
* **Registry.** Bytes are a build and whether it is completely written; they
  stand for their own digest. Each run of a registrar chooses its file and tag
  anew. `copy2` and the manifest are opened (truncated) and filled in two steps;
  `intact` is false when another copy truncated the blob meanwhile. A rebuild of
  the file under a reader is step 6's write; `steady` is false once that has
  happened, and what the reader then copies is the new file or some of both.
  `disturbed` records the digests whose copy was killed or whose file was rebuilt
  under their registrar, until one copy is made alone and undisturbed. A manifest
  that two runs had open at once may be left `Garbled`, the shorter JSON with the
  longer one's tail; the server has nothing for such a tag.
* **ReleaseFlow.** A tree is VERSION, DFC_VERSION and the changelog's entries: a
  heading `## [X.Y.Z]`, or a mention of it elsewhere in a line, which the `grep` of
  release-check takes for a section and the `awk` of `release.yml` does not. A
  push leaves a branch where it was or rebases it onto any later commit.
  `head` is the merge that a pull request's event checked out, `Check` the
  workflow run on it against the main of that moment, `Merged` and `Conflicts`
  git's three-way merge (external). `job` is the run of `release.yml` of each
  commit of main; `View` and `Create` are separate because another run may come
  in between.

## 3. Runs

| Run | Instance | Shows |
|---|---|---|
| `kvcache` | seq <= 6, prefill <= 3, up to 4 new tokens, 2 tokens, both mask modes; entries of 3 features, k and v edges, one base layer | `AttentionExact`: no unwritten, stale, missing or doubled entry in any row; `CacheFollowsOutput`: no token skipped or fed twice; `NoOverwrite`; `EntriesReadWhole`: every entry is read whole, through prefill and tbt and every rotation; in cache mode the loop implements `Decoder` |
| `base_scope` | seq <= 5, prompts up to 6 | padding is never attended, stops at end-of-sequence or when full, implements `Decoder` |
| `genai_retry` | up to 3 attempts | text from the attempt's own prompt only; the verdict is the last attempt's, success only from a worker that reported it and was gone in time, failure only after all retries; the call returns |
| `pipeline` | 4 setups: a base and one each with another checkpoint (and epsilon), prefill size, cache size; 9 script starts | graph and embedding table always of one checkpoint, group sizes and graph length agree; an in-order run is clean; the HEF changes only from a successful step 6 |
| `registry` | 2 registrars, 2 tags, 2 builds, one kill, one rebuild | a manifest never names a blob that is missing; published and served blobs are whole or just being copied again whatever the interleaving, and a fault damages no other blob than the one whose copy it hits, until that is copied again alone |
| `conv_inputs` | any layer of up to 3 inputs, then one to repair and one beyond repair | greedy repairs whatever can be repaired, keeps the order within a width |
| `hn_surgery` | up to 3 blocks, 4 chains, 4 shards, vocabularies 6 and 7; two widths; the shipped recipes and variants of them, the default with `llm_modifications` among them | step 3: the graph is closed (in the RoPE loop, between the loops and in the archive), operands kept at every step, logits in order, parameters with their layers, fan-out of the head's norms bounded, archive written iff the config fits; step 4: every layer a script names exists when it is applied, a split lm_head under `{compressible_convs}` excepted, the roles are held by the layers they are named for, the calibration's mask and cache sizes are the script's, `default.alls` is the built-in script |
| `hef` | HEFs of version 1 to 3, of today's and an earlier draft's step 3, LLaMA-like and GPT-like tokenizers; 2 paths, 3 patches to two pairs of sizes, kills | a patch that reports OK is what the server runs with; no other resource changes; the audit reads what the descriptors sign; the server's prompt and text are those of the checkpoint's tokenizer |
| `release` | 2 pull requests on any base, 3 versions, 2 DFC versions, with a heading, a mention or no entry, one push or labeling, one failing run | VERSION never goes back and a release is at a commit with its version and section; every version on main that has a section is published in the end unless its run breaks down |

Three runs show a disagreement between the code and what it says of itself:

* `pipeline_rerun`: after an export with another model or size, re-running a
  later step alone mixes both in one HEF without an error (config.py:18).
* `pipeline_eps`: the exported RMS norm uses the default epsilon, bound at
  import (s1_export_onnx.py:107 against config.py:125-127).
* `registry_blob`: the HEF is read twice, and may change in between
  (register_hailo_ollama.py:6-7).

More that the models show without a run of their own:

* A worker that printed its result and then hangs in its teardown is retried: a
  timeout drops what it wrote. One that crashes there is retried too, unless the
  line was longer than stdout's buffer and so already in the pipe.
* Registering a HEF again empties the blob that its manifest already names, and
  that the server may be serving, until the copy is complete
  (register_hailo_ollama.py:76); a registrar killed meanwhile leaves it torn until
  it is registered once more. This is what `RegisteredIsIntact` and
  `ServedIsIntact` except as being copied, and as `disturbed`.
* Two runs of one tag at once can leave a manifest that is no JSON
  (register_hailo_ollama.py:94).
* release-check accepts a version that CHANGELOG.md only mentions, `release.yml`
  wants a heading at the start of a line (release-check.yml:56, release.yml:32):
  such a merge publishes nothing, which is an exception of `EveryVersionPublished`.
* The run of a merge that was checked as leaving the versions alone publishes
  main's version when an earlier run broke down before publishing it; and a pull
  request stacked on another, merged on a check from before the other's merge,
  may add a second section for a version that is already out, and then publishes
  nothing. Whether an old check lets a merge in is a setting of the branch
  protection, which is not in the repository; the model allows it.

*Bounds and why they suffice.* KvCache: `MaxSeq`, `MaxPrefill`, `MaxNewTokens`
bound the command line only; with a ring of 6, prompts of 1 to 3 and full or
rejected arguments, every mask block is empty and non-empty, the offset wraps,
and the proofs cover all sizes. Three cells per entry tell an entry's first,
inner and last cell apart. Pipeline: `MaxStarts` bounds the scripts started; six starts make a full
run, so nine leave three more for a partial export of another setup, a script
that died or one re-run out of order, and a mixed HEF (see `pipeline_rerun`)
needs seven. GenaiRetry: `MaxRetries`; three attempts have a first, a middle and
a last one. Registry: `MaxCrashes` and `MaxRebuilds`; two registrars that repeat
can race on a tag, on a blob, or on neither. Symmetry permutes registrars,
tags and builds, which no definition tells apart. ConvInputs: three inputs over
two widths have a pair of one width in every position. HnSurgery: 7 columns in 2 to 4
shards do not divide evenly, 6 in 4 neither, and their half is a whole number
that floats may miss, 6 in 2 or 3 do; 3 blocks have a first, middle and last.
Recipe: the recipes have each command active, commented out, absent, and (the
cache sizes) both; one of the two widths is a multiple of 128. HefFile:
`MaxPatches` = 3 has a patch of a patch of a patch, in place or not; `CcwsSize` =
118 puts the built resources just below 128, so that a patch's offset needs a
second varint byte and moves the padding of version 3. Version 0 of the format
is not among the inputs. ReleaseFlow: `MaxEvents` and `MaxFaults`; two
pull requests can race for one version, for two, or be stacked, and three
versions let one overtake the other.

*Deadlock* is not checked where a behaviour ends: each script stops, and the
bounds stop the pipeline, the registry, the patches and the releases.

*Fairness.* `GenaiRetry`: `WF(ParentNext)`, the parent process is scheduled and
the operating system's timer of `subprocess.run(timeout=...)` fires; nothing is
assumed of the worker or the device. `HnSurgery` and, through it, `Recipe`:
`WF(Next)`, a sequential computation without any wait. `ReleaseFlow`: weak
fairness of each commit's run of `release.yml`, since GitHub runs what it has
queued; nothing is assumed of authors, checks or merges.

## 4. Proofs

Each theorem holds for every value of the constants that satisfies the named
assumptions of the module it is about.

| Module | Theorems | Assumed |
|---|---|---|
| `KvCacheProofs` | `MaskIsCausal`, `Invariance`, `TypeCorrectness`, `AttentionIsExact`, `LoopFollowsOutput`, `ContextIsNotOverwritten`, `CacheImplementsDecoder` | prompts are non-empty sequences of tokens, sizes are naturals, the mark of an unwritten slot is no entry |
| | `BothGroupsReadWhole` (of `CacheLayout`) | those, an entry has a cell, and `EveryEdge`: each cache has an input and an output layer in both groups |
| `BaseScopeProofs` | `TypeCorrectness`, `StopsInTime`, `RealRowsAreExact`, `BaseScopeImplementsDecoder` | prompts are non-empty, sizes are naturals, padding is no token |
| `GenaiRetryProofs` | `TypeCorrectness`, `TextIsOwn`, `VerdictIsTheLastAttempts` | the number of retries is a natural |
| `PipelineProofs` | `PipelineInvariance`, `TypeCorrectness`, `EmbeddingStaysWithGraph`, `InOrderIsClean`, `HefComesFromStep6` | `SetupsAssumption`; the bound is a natural |
| `RegistryProofs` | `StoreInvariance`, `TypeCorrectness`, `BlobComesFirst`, `PublishedIsIntact`, `ServingIsIntact` | the bounds are naturals |
| `ReleaseFlowProofs` | `ReleaseInvariance`, `ReleasesAreMains` | versions and bounds are naturals |
| `ArtifactProofs` | `ConvInvariant`, `GreedyIsComplete`, `OrderIsStable` (of `ConvInputs`) | each layer has as many input shapes as inputs, of known widths |
| | `HefInvariant`, `VerifiedIsServed`, `PatchesAppend`, `AuditAgrees`, `PatchesKeepTokenizers` (of `HefFile`) | `HefAssumption`: known versions, sizes and tokens |
| `HnSurgeryProofs` | `SurgeryInvariant`, `SurgeryClosesGraph`, `SurgeryKeepsOperands`, `SurgeryMovesWeights`, `NormalizationsFeedOne`, `SurgeryOrdersLogits` (of `HnSurgery`) | `NetsAssumption`: a chain over the lm_head, no more shards than columns |
| | `RecipeInvariant`, `RolesAreRight`, `NamedLayersExist`, `CalibrationIsTheScripts`, `BuiltInIsDefault`, `RecipeRunsSurgery` (of `Recipe`) | that, `ArchsAssumption`, `RecipesAssumption` |

The arguments, each an inductive invariant `IInv`:

* **KvCache.** `AttentionExact` is not inductive: a run is right only if ring
  and offset are. `IInv` adds what the host and the device hold between them:
  the ring has the context in order from slot 0 on and nothing else (`RingInv`);
  the offset is the end of the context, the run's own rows included once
  advanced (`OffsetInv`); the request in progress is the prefill or the next turn
  (`RequestInv`); there is room (`RoomInv`). `MaskIsCausal` is the closed form of
  `build_mask`. From these, `RunInputs` says what a run is made with,
  `WindowHoldsContext` and `RunWritesBehindContext` where it reads and writes,
  `RunAttendsContext` what its rows see; `InferInv` puts them together. The
  refinement has one step per case: a run that yields a token is `Emit`, an end is
  `Halt`, everything else stutters.
* **CacheLayout.** `MemInv`: cell `j * Features + f` holds feature f of ring
  entry j. The rest is that a whole number of entries modulo the ring is again
  one (`OneEntry` and its neighbours). Without `EveryEdge` the property is false,
  which is what an unconverted edge does.
* **BaseScope.** `CountInv`: tokens and remaining steps add up to the rows.
  `AttendedInv`: every position saw the columns `SeenUpTo` it, the padding
  above being no token.
* **GenaiRetry.** What waits in buffer, pipe and result is this attempt's
  (`OutputInv`, `ResultInv`): the conversation is empty when a worker generates,
  and a spawn starts with both empty.
* **Pipeline.** The two halves of a write are the difficulty. The invariant is
  stated over `Dir` and `Place`, the directory and the place in main() once the
  write in progress is over, which `Open` changes and `Close` does not.
  `ControlInv` and `ConfigInv` tie the running script to its step, output and
  configuration, `ProgressInv` says what it has written so far, `GateInv` that what a gate let through still
  agrees, `HefInv` that the HEF being written is `compiled.har`'s, `Kept` that every archive fits, and `Clean` what the steps
  completed in order have left.
* **Registry.** `CopiedHasBlob`, `FileIsAsHashed`, and `TornIsBeingFilled`: an
  incomplete blob of an undisturbed digest has a registrar that is filling it, the
  one that truncated it last. What the theorems do not say the code does not do: a
  published blob is not whole while it is copied again.
* **ReleaseFlow.** `VersionsGrow` holds between any two commits because a pull
  request that changes VERSION was compared with a tip between its base and now,
  and one that does not takes VERSION from main; `RequestInv` carries the verdict
  from check to merge, `JobInv` the section from `View` to `Create`.

* **ConvInputs.** `RepairIsComplete` is about a greedy choice: no layer that
  some assignment of its inputs would repair is given up. `MatchInv` keeps, at
  every turn, an injection that serves the widths still to come from the inputs
  still in the pool (`Serves`), as long as the layer can be repaired at all, and
  the places in the original layer that placed and pooled inputs come from
  (`ComesFrom`), with the pool in order. A turn takes the first input of the
  width: if the injection meant another one for it, the two are exchanged.
  `SeenInv` is what the layers behind the loop have become.
* **HefFile.** `GoodHef`: a whole HEF has three descriptors, each of which points
  at the bytes of one document (`Holds`), the tokenizer and the other resources
  at those that step 3 attached, the configuration at one that it may have
  become. It holds of what `Hef` builds (where the bytes of three documents are
  concatenated) and survives an appended document, because an append moves no
  byte before it. `FileInv` says so of every path, `PatchInv` of the HEF in
  the script's hands, `VerifiedInv` that a verified path still reads as the
  verification read it. `AuditAgrees` is arithmetic: header, length of the
  protobuf and padding add up to the same zero point in every version.
  `ServerTokenizesAlike` is proved up to one fact about data: from `Suits(t)`,
  that what step 3 makes of each tokenizer is what the server needs.
* **HnSurgery.** `LayersInv` gives every layer's inputs in closed form, as a
  function of which layers there are: an operand that is gone is replaced by its
  stand-in (the input for a RoPE conv or a mask slice, the shard's copy for a
  layer of the head). `Linked` says that outputs are exactly the readers (of
  `input_layer2` within the mask's loop it is `newOutput` that is, and `MaskEnd`
  makes the two one, which is why `GraphClosed` is not claimed there), and
  `PlaceInv` which layers there are at each place of each loop. A turn either
  lets one layer take another's place (`TakesOver`, `StepsAside`) or adds a copy of the
  head; the graph between two turns of the inner statements is never claimed
  to be whole. The logits' order is arithmetic on
  `Bound`, the truncated `linspace`: bounds grow, the first is 0 and the last
  the vocabulary, and a bound that floats make one less still leaves widths of
  the quotient rounded down or up (`WidthsAreEven`).
* **Recipe.** In the closed form each kind of layer has known kinds of
  neighbours, and so what `find_roles` looks for can be decided kind by kind
  (`RolesAreRight`). `StageInv` follows the loop over the lines: of the lines
  read so far each one that applies is in the script, filled, and nothing else
  (`HalfScript`, later `WholeScript`); the names in it are inputs or layers of
  the roles that the recipe asks for, which are there after the SDK's rewrite, but
  for the lm_head of `Unsplit`.
  `RecipeRunsSurgery` makes every theorem about `HnSurgery` one about `Recipe`.

Every invariant was checked on the runs' instances before it was proved. The proofs
are of safety and refinement only. The bounds on starts, kills, rebuilds, pushes
and faults are constants, so the theorems hold for any number of them.

Only model-checked: the hypothesis `Suits` of `PatchesKeepTokenizers`, which
the run `hef` computes for its tokenizers (`SelectSeq` and `FlattenSeq` over a
prompt are recursion over data, on which TLAPS cannot do induction); and the
liveness properties `Returns`, `SavedIffItFits` and `EveryVersionPublished`
(fairness).

## 5. Not modelled

* Numerics: export algebra, RoPE tables of `attach_resources`, quantization,
  cosine values. The width of logits is only a failure of `RunRaises`.
* The SDK's parser, optimizer and compiler, HailoRT and HefWrapper, except for
  what the code uses of them. What `llm_modifications` does to a head in shards,
  and to the norms of QK-norm checkpoints, the repository does not say.
* Tokenizers with a Metaspace decoder, which step 3 leaves as it is, and
  templates that open with several special tokens, of which it takes the first:
  what the server makes of them the code does not say, and they are not among
  the inputs of `hef`.
* `hef_audit.py`'s report and hailortcli's output: formatting. The default sizes
  of the hot patch (32, 128) are an argument like any other; they need not be
  those the HEF was compiled for.
* `manual_prefill_tbt_test.py`: the first two runs of `kv_greedy.py` with a
  comparison of numbers.
* A result line longer than stdout's buffer that a crash or a kill cuts in the
  middle of its write (genai_generate.py:37): the model's pipe holds the line
  whole or not at all.
* Stale files beside `tokenizer.json` in the directory of `save_pretrained`.
* Docker images and notebooks: packaging and prose around the same scripts. The
  notebooks carry stale copies of pipeline code.

## 6. Plan

Done: every part of the inventory with control of its own is modelled and
checked, and every safety property of every run is proved, one of them
(`ServerTokenizesAlike`) up to a fact about data.

What could follow: the tables of RoPE over exact arithmetic, if the export's
algebra is to be compared with the runtime's; a head in shards under
`llm_modifications`, once what the SDK does with it is known; `Suits` for the
shapes of post-processor the code handles, if its sequences are recast as functions
with closed forms; and what a gate's threshold lets through.
