------------------------------ MODULE Pipeline ------------------------------
(***************************************************************************)
(* The compilation pipeline (pipeline/s1 .. s6): six scripts over one      *)
(* working directory, one at a time, each free to be run again at any      *)
(* moment, to raise, or to be killed between two of its writes.            *)
(*                                                                         *)
(* An artifact is modelled by where its parts come from: the checkpoint    *)
(* whose weights, embedding table or tokenizer it holds and the geometry   *)
(* it was made for.  What the SDK computes is left out; what it refuses    *)
(* (a wrong shape, a missing layer name) is a guard.                       *)
(***************************************************************************)
EXTENDS Integers

CONSTANTS Setups,      \* what step 1 may be asked for
          DefaultEps,  \* config.RMS_EPS before any load()
          MaxStarts    \* bound: scripts started in a behaviour

(* --model with the RMS epsilon of its checkpoint, the network scope, SEQ, *)
(* and PREFILL_SIZE.  CACHE_SIZE is SEQ.                                   *)
ASSUME SetupsAssumption ==
  \A s \in Setups : DOMAIN s = {"model", "eps", "scope", "seq", "prefill"}

ASSUME BoundAssumption == MaxStarts \in Nat

Artifacts == {"run_config", "wte", "tokenizer", "onnx", "refs", "parsed", "surgery",
              "resources", "quantized", "convfixed", "compiled", "hef", "basescope_hef"}

VARIABLES file,      \* the working directory: artifact -> content
          step,      \* the script that is running, 0 when none is
          at,        \* where its main() is
          cfg,       \* the configuration its config.load() resolved
          pending,   \* the write in progress
          current,   \* steps 1..current have been completed, in order, since
                     \* step 1 last started (history)
          starts     \* scripts started so far (bounded by MaxStarts)

vars == <<file, step, at, cfg, pending, current, starts>>

Missing == [kind |-> "missing"]
Torn    == [kind |-> "torn"]     \* opened for writing, not written out
Whole(content) == [kind |-> "whole", is |-> content]

NoSetup == [seq |-> 0]
NoWrite == [to |-> "none"]
Content(a) == file[a].is
Readable(as) == \A a \in as : file[a].kind = "whole"

Lesser(a, b) == IF a < b THEN a ELSE b

-----------------------------------------------------------------------------
(* A write truncates the file first and completes later. *)

Open(artifact, content, next) ==
  /\ file' = [file EXCEPT ![artifact] = Torn]
  /\ pending' = [to |-> artifact, content |-> content, next |-> next]
  /\ at' = "writing"

Close ==
  /\ at = "writing"
  /\ file' = [file EXCEPT ![pending.to] = Whole(pending.content)]
  /\ at' = pending.next
  /\ pending' = NoWrite
  /\ UNCHANGED <<step, cfg, current, starts>>

(* Variant for checking: a script that forgets config.load().              *)
StartsWithoutLoad(n, inputs) ==
  /\ step = 0
  /\ starts < MaxStarts
  /\ starts' = starts + 1
  /\ Readable({"run_config"} \cup inputs)
  /\ step' = n
  /\ cfg' = cfg
  /\ current' = Lesser(current, n - 1)

(* config.load() with no argument: what step 1 left in run_config.json. A  *)
(* script whose inputs cannot be read raises before it writes anything.    *)
(* (Without a run_config.json load() keeps the module's defaults, but step *)
(* 1 writes that file first, so the inputs are then missing as well.)      *)
Starts(n, inputs) ==
  /\ step = 0
  /\ starts < MaxStarts
  /\ starts' = starts + 1
  /\ Readable({"run_config"} \cup inputs)
  /\ step' = n
  /\ cfg' = Content("run_config")
  /\ current' = Lesser(current, n - 1)

-----------------------------------------------------------------------------
(* Step 1: export.  run_config.json is written first, before the           *)
(* checkpoint is loaded; the references of the later gates last.           *)

Step1 ==
  /\ step = 0
  /\ starts < MaxStarts
  /\ starts' = starts + 1
  /\ step' = 1
  /\ current' = 0
  /\ \E setup \in Setups :
       /\ cfg' = setup
       /\ Open("run_config", setup, "save_wte")

SaveWte ==
  /\ at = "save_wte"
  /\ Open("wte", cfg.model, "save_tokenizer")
  /\ UNCHANGED <<step, cfg, current, starts>>

(* Variant for checking: a tokenizer already there is kept.                *)
SaveTokenizerOnce ==
  /\ at = "save_tokenizer"
  /\ IF Readable({"tokenizer"})
     THEN /\ at' = "export"
          /\ UNCHANGED <<file, pending>>
     ELSE Open("tokenizer", cfg.model, "export")
  /\ UNCHANGED <<step, cfg, current, starts>>

(* save_pretrained.  Of its directory, this is tokenizer.json, which is    *)
(* written over; what else another tokenizer left there is not looked at.  *)
SaveTokenizer ==
  /\ at = "save_tokenizer"
  /\ Open("tokenizer", cfg.model, "export")
  /\ UNCHANGED <<step, cfg, current, starts>>

(* rms_norm's eps is a default argument, bound when the module is loaded. *)
ExportedEps == DefaultEps

Export ==
  /\ at = "export"
  /\ Open("onnx", [model |-> cfg.model, seq |-> cfg.seq, eps |-> ExportedEps], "save_refs")
  /\ UNCHANGED <<step, cfg, current, starts>>

SaveRefs ==
  /\ at = "save_refs"
  /\ Open("refs", [model |-> cfg.model, seq |-> cfg.seq], "finish")
  /\ UNCHANGED <<step, cfg, current, starts>>

-----------------------------------------------------------------------------
(* The fidelity gate: logits of the graph against those of hf_reference,   *)
(* over the embeddings of hf_reference and a mask of config.SEQ.  Logits   *)
(* of another checkpoint or length do not come close.                      *)
GatePasses(graph) ==
  /\ Content("refs").model = graph.model
  /\ Content("refs").seq = graph.seq
  /\ cfg.seq = graph.seq

(* Step 2: parse, save, then gate. *)
Step2 ==
  /\ Starts(2, {"refs", "onnx"})
  /\ Content("run_config").seq = Content("onnx").seq
  /\ Open("parsed", [model |-> Content("onnx").model, seq |-> Content("onnx").seq,
                     scope |-> Content("run_config").scope], "gate2")

Gate2 ==
  /\ at = "gate2"
  /\ GatePasses(Content("parsed"))
  /\ at' = "finish"
  /\ UNCHANGED <<file, step, cfg, pending, current, starts>>

(* Step 3: graph surgery, save, gate; then the resources the runtime needs *)
(* go with the graph into one archive.                                     *)
Step3 ==
  /\ Starts(3, {"refs", "parsed"})
  /\ Content("run_config").scope = Content("parsed").scope
  /\ Open("surgery", Content("parsed"), "gate3")

(* Variant for checking: no gate after surgery.                            *)
Gate3Skipped ==
  /\ at = "gate3"
  /\ at' = "attach"
  /\ UNCHANGED <<file, step, cfg, pending, current, starts>>

Gate3 ==
  /\ at = "gate3"
  /\ GatePasses(Content("surgery"))
  /\ at' = "attach"
  /\ UNCHANGED <<file, step, cfg, pending, current, starts>>

AttachResources ==
  /\ at = "attach"
  /\ Readable({"tokenizer"})
  /\ Open("resources",
          [graph |-> Content("surgery"),
           embed |-> Content("refs").model,
           tokenizer |-> Content("tokenizer"),
           hailoConfig |-> [cache |-> cfg.seq, prefill |-> cfg.prefill]],
          "finish")
  /\ UNCHANGED <<step, cfg, current, starts>>

(* Step 4: calibrate and quantize, and split the graph into the groups of  *)
(* the configured sizes.                                                   *)
Step4 ==
  /\ Starts(4, {"tokenizer", "wte", "resources"})
  /\ Content("run_config").scope = Content("resources").graph.scope
  /\ Content("run_config").seq = Content("resources").graph.seq
  /\ Open("quantized",
          [resources |-> Content("resources"),
           calibration |-> {Content("wte"), Content("tokenizer")},
           groups |-> [cache |-> Content("run_config").seq,
                       prefill |-> Content("run_config").prefill]],
          "finish")

(* Step 5: conv inputs repaired inside the archive. *)
Step5 ==
  /\ Starts(5, {"quantized"})
  /\ Open("convfixed", Content("quantized"), "finish")

(* Variant for checking: the HEF opened before the compiled archive.       *)
Step6HefFirst ==
  /\ Starts(6, {"convfixed"})
  /\ Content("run_config").scope = Content("convfixed").resources.graph.scope
  /\ Open("hef", Content("convfixed"), "finish")

(* Step 6: compile.  With --include-base-scope the HEF goes elsewhere.     *)
Step6 ==
  /\ Starts(6, {"convfixed"})
  /\ Content("run_config").scope = Content("convfixed").resources.graph.scope
  /\ Open("compiled", Content("convfixed"), "write_hef")

WriteHef ==
  /\ at = "write_hef"
  /\ \/ Open("hef", Content("compiled"), "finish")
     \/ Open("basescope_hef", Content("compiled"), "finish_basescope")
  /\ UNCHANGED <<step, cfg, current, starts>>

-----------------------------------------------------------------------------

Ends ==
  /\ step' = 0
  /\ at' = "idle"
  /\ pending' = NoWrite
  /\ cfg' = NoSetup
  /\ UNCHANGED <<file, starts>>

Finish ==
  /\ at = "finish"
  /\ Ends
  /\ current' = IF current = step - 1 THEN step ELSE current

FinishBaseScope ==
  /\ at = "finish_basescope"
  /\ Ends
  /\ UNCHANGED current

(* An assertion or the SDK raises, or the script is killed. *)
Dies ==
  /\ step # 0
  /\ Ends
  /\ UNCHANGED current

-----------------------------------------------------------------------------

Init ==
  /\ file = [ a \in Artifacts |-> Missing ]
  /\ step = 0
  /\ at = "idle"
  /\ cfg = NoSetup
  /\ pending = NoWrite
  /\ current = 0
  /\ starts = 0

Next ==
  \/ Step1 \/ SaveWte \/ SaveTokenizer \/ Export \/ SaveRefs
  \/ Step2 \/ Gate2
  \/ Step3 \/ Gate3 \/ AttachResources
  \/ Step4 \/ Step5
  \/ Step6 \/ WriteHef
  \/ Close \/ Finish \/ FinishBaseScope \/ Dies

Spec == Init /\ [][Next]_vars

-----------------------------------------------------------------------------

(* The directory and the running script keep their types: a script that    *)
(* runs has the configuration its config.load() resolved, one that does    *)
(* not has none, and a write is in progress just while it is writing.      *)
TypeOK ==
  /\ DOMAIN file = Artifacts
  /\ \A a \in Artifacts : file[a].kind \in {"missing", "torn", "whole"}
  /\ step \in 0 .. 6
  /\ (step = 0) = (at = "idle")
  /\ cfg \in Setups \cup {NoSetup}
  /\ (step = 0) = (cfg = NoSetup)
  /\ (at = "writing") = (pending # NoWrite)
  /\ current \in 0 .. 6
  /\ starts \in 0 .. MaxStarts

(* The parts of a HEF, or of the archive it is compiled from, agree with   *)
(* each other.                                                             *)
OneModel(hef) ==
  {hef.resources.graph.model, hef.resources.embed, hef.resources.tokenizer}
    \cup hef.calibration = {hef.resources.graph.model}
OneGeometry(hef) == hef.groups = hef.resources.hailoConfig

(* Whatever was re-run, failed or was killed, and in whatever order: the   *)
(* embedding table in an archive belongs to the checkpoint of its graph,   *)
(* and the cache size the server is told, the one the groups were built    *)
(* for and the length the graph was parsed at are the same.  The gate of   *)
(* step 3 is what keeps stale artifacts from being combined.               *)
GraphKeepsItsEmbedding ==
  /\ file["resources"].kind = "whole" =>
       LET r == Content("resources")
       IN  r.embed = r.graph.model /\ r.hailoConfig.cache = r.graph.seq
  /\ \A a \in {"quantized", "convfixed", "compiled", "hef", "basescope_hef"} :
       file[a].kind = "whole" =>
         LET q == Content(a)
         IN  /\ q.resources.embed = q.resources.graph.model
             /\ q.groups.cache = q.resources.hailoConfig.cache
             /\ q.groups.cache = q.resources.graph.seq

(* A pipeline run through in order ends in a HEF made of the checkpoint    *)
(* and the geometry step 1 was last asked for, even over a directory full  *)
(* of an earlier model's artifacts.                                        *)
InOrderRunIsClean ==
  current = 6 =>
    LET hef == Content("hef")
    IN  /\ Readable({"hef", "run_config"})
        /\ OneModel(hef) /\ OneGeometry(hef)
        /\ hef.resources.graph.model = Content("run_config").model
        /\ hef.groups = [cache |-> Content("run_config").seq,
                         prefill |-> Content("run_config").prefill]

(* model.hef is only ever replaced by a step 6 that got as far as writing  *)
(* it: a step that fails before that, or a base-scope build, leaves the    *)
(* deployable HEF alone.                                                   *)
HefOnlyFromStep6 ==
  [][file'["hef"] # file["hef"] =>
       /\ step = 6
       /\ file["hef"].kind = "whole" => file'["hef"] = Torn
       /\ file'["hef"].kind = "whole" => file'["hef"] = file["compiled"]]_vars

(* config.py: "Each pipeline step can be run and re-run independently" --  *)
(* whatever is re-run, a HEF is made of one checkpoint and one geometry.   *)
RerunsKeepHefWhole ==
  file["hef"].kind = "whole" => OneModel(Content("hef")) /\ OneGeometry(Content("hef"))

(* config.py load(): it "derives every architecture constant (..., RMS_EPS *)
(* ...)" from the checkpoint -- the graph step 1 completes with uses it.   *)
ExportUsesCheckpointEps ==
  at = "finish" /\ step = 1 => Content("onnx").eps = cfg.eps
=============================================================================
