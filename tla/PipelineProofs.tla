--------------------------- MODULE PipelineProofs ---------------------------
(***************************************************************************)
(* The pipeline, for any setups and any number of runs, failures and kills *)
(* in any order: what an archive or a HEF is made of fits together as far  *)
(* as the gate of step 3 can tell, and a run in order ends in a clean HEF. *)
(***************************************************************************)
EXTENDS Pipeline, TLAPS

(* The directory, and where the script is, once the write in progress is   *)
(* over: most of what holds of them survives its two halves.               *)
Dir   == IF at = "writing" THEN [file EXCEPT ![pending.to] = Whole(pending.content)] ELSE file
Place == IF at = "writing" THEN pending.next ELSE at

(* What each step writes. *)
Outputs(n) ==
  CASE n = 1 -> {"run_config", "wte", "tokenizer", "onnx", "refs"}
    [] n = 2 -> {"parsed"}
    [] n = 3 -> {"surgery", "resources"}
    [] n = 4 -> {"quantized"}
    [] n = 5 -> {"convfixed"}
    [] n = 6 -> {"compiled", "hef", "basescope_hef"}
    [] OTHER -> {}

(* What they hold when a pipeline is run through for one setup. *)
GraphOf(s) == [model |-> s.model, seq |-> s.seq, scope |-> s.scope]
SizesOf(s) == [cache |-> s.seq, prefill |-> s.prefill]
ResourcesOf(s) ==
  [graph |-> GraphOf(s), embed |-> s.model, tokenizer |-> s.model, hailoConfig |-> SizesOf(s)]
ArchiveOf(s) == [resources |-> ResourcesOf(s), calibration |-> {s.model}, groups |-> SizesOf(s)]

Exported(dir, s) ==
  /\ dir["run_config"] = Whole(s)
  /\ dir["wte"] = Whole(s.model)
  /\ dir["tokenizer"] = Whole(s.model)
  /\ dir["onnx"] = Whole([model |-> s.model, seq |-> s.seq, eps |-> ExportedEps])
  /\ dir["refs"] = Whole([model |-> s.model, seq |-> s.seq])

(* The artifacts of the steps completed in order are those of one setup.   *)
Clean(s) ==
  /\ current >= 1 => Exported(file, s)
  /\ current >= 2 => file["parsed"] = Whole(GraphOf(s))
  /\ current >= 3 => file["resources"] = Whole(ResourcesOf(s))
  /\ current >= 4 => file["quantized"] = Whole(ArchiveOf(s))
  /\ current >= 5 => file["convfixed"] = Whole(ArchiveOf(s))
  /\ current >= 6 => file["hef"] = Whole(ArchiveOf(s))

-----------------------------------------------------------------------------

(* The places of main() each script passes, between its writes. *)
Placed(place, n) ==
  /\ place \in {"idle", "save_wte", "save_tokenizer", "export", "save_refs", "gate2", "gate3",
                "attach", "write_hef", "finish", "finish_basescope"}
  /\ place \in {"save_wte", "save_tokenizer", "export", "save_refs"} => n = 1
  /\ place = "gate2" => n = 2
  /\ place \in {"gate3", "attach"} => n = 3
  /\ place \in {"write_hef", "finish_basescope"} => n = 6

(* The control state of a script. *)
ControlInv ==
  /\ TypeOK
  /\ step # 0 => current < step
  /\ at = "writing" => /\ pending.to \in Outputs(step)
                       /\ pending.next # "idle"
                       /\ file[pending.to] = Torn
  /\ Placed(Place, step)

(* run_config.json holds what some step 1 was asked for, and a later step  *)
(* has it as its configuration.                                            *)
ConfigInv ==
  /\ Dir["run_config"].kind = "whole" => \E s \in Setups : Dir["run_config"] = Whole(s)
  /\ step # 0 => Dir["run_config"] = Whole(cfg)

(* What a running script has written so far, if the steps before it were   *)
(* completed in order.                                                     *)
ProgressInv ==
  /\ step = 1 =>
       /\ Place \notin {"save_wte"} => Dir["wte"] = Whole(cfg.model)
       /\ Place \notin {"save_wte", "save_tokenizer"} => Dir["tokenizer"] = Whole(cfg.model)
       /\ Place \in {"save_refs", "finish"} =>
            Dir["onnx"] = Whole([model |-> cfg.model, seq |-> cfg.seq, eps |-> ExportedEps])
       /\ Place = "finish" => Dir["refs"] = Whole([model |-> cfg.model, seq |-> cfg.seq])
  /\ step = 2 /\ current = 1 => Dir["parsed"] = Whole(GraphOf(cfg))
  /\ step = 3 /\ current = 2 => /\ Dir["surgery"] = Whole(GraphOf(cfg))
                                /\ Place = "finish" => Dir["resources"] = Whole(ResourcesOf(cfg))
  /\ step = 4 /\ current = 3 => Dir["quantized"] = Whole(ArchiveOf(cfg))
  /\ step = 5 /\ current = 4 => Dir["convfixed"] = Whole(ArchiveOf(cfg))
  /\ step = 6 /\ current = 5 => /\ Dir["compiled"] = Whole(ArchiveOf(cfg))
                                /\ Place = "finish" => Dir["hef"] = Whole(ArchiveOf(cfg))

(* The gate of step 3 has compared the graph with the references and the   *)
(* configuration the resources will be made from.                          *)
GateInv ==
  Place = "attach" => /\ Dir["refs"].is.model = Dir["surgery"].is.model
                      /\ cfg.seq = Dir["surgery"].is.seq

(* model.hef is written from the compiled archive. *)
HefInv ==
  /\ Place = "write_hef" => Dir["compiled"] = Whole(Dir["compiled"].is)
  /\ at = "writing" /\ pending.to = "hef" => file["compiled"] = Whole(pending.content)

(* What the archives hold fits together. *)
Archives == {"quantized", "convfixed", "compiled", "hef", "basescope_hef"}

ResourcesFit(r) == r.embed = r.graph.model /\ r.hailoConfig.cache = r.graph.seq
ArchiveFits(q) == /\ q.resources.embed = q.resources.graph.model
                  /\ q.groups.cache = q.resources.hailoConfig.cache
                  /\ q.groups.cache = q.resources.graph.seq

Kept(dir) ==
  /\ dir["resources"].kind = "whole" => ResourcesFit(dir["resources"].is)
  /\ \A a \in Archives : dir[a].kind = "whole" => ArchiveFits(dir[a].is)

IInv ==
  /\ ControlInv
  /\ ConfigInv
  /\ ProgressInv
  /\ GateInv
  /\ HefInv
  /\ Kept(Dir)
  /\ current >= 1 => Clean(Content("run_config"))

-----------------------------------------------------------------------------

(* What a file can be. *)
LEMMA WholeFacts ==
  /\ \A c : Whole(c).kind = "whole" /\ Whole(c).is = c /\ Whole(c) # Torn
  /\ Torn.kind = "torn" /\ Missing.kind = "missing"
BY DEF Whole, Torn, Missing

(* What a step writes. *)
LEMMA OutputsAreArtifacts ==
  /\ \A n : Outputs(n) \subseteq Artifacts
  /\ \A n \in 1 .. 6 : \A a \in Outputs(n) :
       /\ a = "run_config" => n = 1
       /\ a \in {"wte", "tokenizer", "onnx", "refs"} => n = 1
       /\ a = "parsed" => n = 2
       /\ a \in {"surgery", "resources"} => n = 3
       /\ a = "quantized" => n = 4
       /\ a = "convfixed" => n = 5
       /\ a \in {"compiled", "hef", "basescope_hef"} => n = 6
BY DEF Outputs, Artifacts

(* No setup is the absence of one. *)
LEMMA SetupIsNoNone == NoSetup \notin Setups
<1>1. DOMAIN NoSetup # {"model", "eps", "scope", "seq", "prefill"}
  BY DEF NoSetup
<1>. QED BY <1>1, SetupsAssumption

(* The first half of a write: the directory is as if it were over.         *)
LEMMA OpenFacts ==
  ASSUME TypeOK, at # "writing", NEW a \in Artifacts, NEW c, NEW n, Open(a, c, n)
  PROVE  /\ Dir = file /\ Place = at
         /\ Dir'[a] = Whole(c) /\ file'[a] = Torn
         /\ \A b \in Artifacts \ {a} : Dir'[b] = file[b] /\ file'[b] = file[b]
         /\ at' = "writing" /\ Place' = n
         /\ pending'.to = a /\ pending'.content = c /\ pending'.next = n /\ pending' # NoWrite
         /\ DOMAIN file' = Artifacts
         /\ \A b \in Artifacts : file'[b].kind \in {"missing", "torn", "whole"}
<1>1. DOMAIN file = Artifacts /\ Dir = file /\ Place = at
  BY DEF TypeOK, Dir, Place
<1>2. file' = [file EXCEPT ![a] = Torn] /\ at' = "writing"
      /\ pending' = [to |-> a, content |-> c, next |-> n]
  BY DEF Open
<1>3. pending'.to = a /\ pending'.content = c /\ pending'.next = n /\ pending' # NoWrite
  BY <1>2 DEF NoWrite, Artifacts
<1>4. DOMAIN file' = Artifacts /\ file'[a] = Torn /\ \A b \in Artifacts \ {a} : file'[b] = file[b]
  BY <1>1, <1>2
<1>5. Dir' = [file' EXCEPT ![a] = Whole(c)] /\ Place' = n
  BY <1>2, <1>3 DEF Dir, Place
<1>6. Dir'[a] = Whole(c) /\ \A b \in Artifacts \ {a} : Dir'[b] = file[b]
  BY <1>4, <1>5
<1>7. \A b \in Artifacts : file'[b].kind \in {"missing", "torn", "whole"}
  BY <1>4, WholeFacts DEF TypeOK
<1>. QED BY <1>1, <1>2, <1>3, <1>4, <1>5, <1>6, <1>7

(* What a step that has not been completed writes is claimed by nobody.    *)
LEMMA CleanStays ==
  ASSUME TypeOK, current >= 1 => Clean(Content("run_config")),
         current' \in 0 .. 6, current' <= current,
         NEW n \in 1 .. 6, current' < n, NEW a \in Outputs(n),
         \A b \in Artifacts \ {a} : file'[b] = file[b]
  PROVE  (current >= 1 => Clean(Content("run_config")))'
<1>. SUFFICES ASSUME current' >= 1 PROVE Clean(Content("run_config"))'
  OBVIOUS
<1>1. n >= 2 /\ Clean(Content("run_config")) /\ current \in 0 .. 6
  BY DEF TypeOK
<1>2. \A b \in {"run_config", "wte", "tokenizer", "onnx", "refs"} : file'[b] = file[b]
  BY <1>1, OutputsAreArtifacts DEF Artifacts
<1>3. /\ current' >= 2 => file'["parsed"] = file["parsed"]
      /\ current' >= 3 => file'["resources"] = file["resources"]
      /\ current' >= 4 => file'["quantized"] = file["quantized"]
      /\ current' >= 5 => file'["convfixed"] = file["convfixed"]
      /\ current' >= 6 => file'["hef"] = file["hef"]
  BY OutputsAreArtifacts DEF Artifacts
<1>4. Content("run_config")' = Content("run_config")
  BY <1>2 DEF Content
<1>5. Exported(file', Content("run_config"))
  BY <1>1, <1>2 DEF Clean, Exported
<1>. QED BY <1>1, <1>3, <1>4, <1>5 DEF Clean, Exported, ExportedEps

(* What every opening of an artifact keeps, whichever script it is in. *)
LEMMA OpenKeeps ==
  ASSUME IInv, at # "writing", NEW a, NEW c, NEW n, Open(a, c, n),
         step' \in 1 .. 6, a \in Outputs(step'), n # "idle", Placed(n, step'),
         cfg' \in Setups, starts' \in 0 .. MaxStarts,
         current' \in 0 .. 6, current' <= current, current' < step',
         a = "resources" => ResourcesFit(c), a \in Archives => ArchiveFits(c)
  PROVE  /\ ControlInv' /\ Kept(Dir)' /\ (current >= 1 => Clean(Content("run_config")))'
         /\ Dir = file /\ Place = at /\ Dir'[a] = Whole(c) /\ Place' = n /\ at' = "writing"
         /\ \A b \in Artifacts \ {a} : Dir'[b] = file[b] /\ file'[b] = file[b]
         /\ pending'.to = a /\ pending'.content = c
<1>1. TypeOK /\ a \in Artifacts
  BY OutputsAreArtifacts DEF IInv, ControlInv
<1>2. /\ Dir = file /\ Place = at
      /\ Dir'[a] = Whole(c) /\ file'[a] = Torn
      /\ \A b \in Artifacts \ {a} : Dir'[b] = file[b] /\ file'[b] = file[b]
      /\ at' = "writing" /\ Place' = n
      /\ pending'.to = a /\ pending'.content = c /\ pending'.next = n /\ pending' # NoWrite
      /\ DOMAIN file' = Artifacts
      /\ \A b \in Artifacts : file'[b].kind \in {"missing", "torn", "whole"}
  BY <1>1, OpenFacts
<1>3. TypeOK'
  <2>1. cfg' # NoSetup /\ step' # 0 /\ at' # "idle"
    BY <1>2, SetupIsNoNone
  <2>. QED BY <1>2, <2>1 DEF TypeOK
<1>4. ControlInv'
  BY <1>2, <1>3 DEF ControlInv
<1>5. Kept(Dir)'
  <2>1. Dir'["resources"].kind = "whole" => ResourcesFit(Dir'["resources"].is)
    BY <1>2, WholeFacts DEF IInv, Kept, Artifacts
  <2>2. ASSUME NEW b \in Archives, Dir'[b].kind = "whole"
        PROVE  ArchiveFits(Dir'[b].is)
    <3>1. b \in Artifacts
      BY DEF Archives, Artifacts
    <3>. QED BY <1>2, <2>2, <3>1, WholeFacts DEF IInv, Kept
  <2>. QED BY <2>1, <2>2 DEF Kept
<1>6. (current >= 1 => Clean(Content("run_config")))'
  BY <1>1, <1>2, CleanStays DEF IInv
<1>. QED BY <1>2, <1>4, <1>5, <1>6

-----------------------------------------------------------------------------
(* Step 1. *)

(* The action Step1. *)
LEMMA Step1KeepsInv == IInv /\ Step1 => IInv'
<1>. SUFFICES ASSUME IInv, Step1 PROVE IInv'
  OBVIOUS
<1>1. PICK setup \in Setups : cfg' = setup /\ Open("run_config", setup, "save_wte")
  BY DEF Step1
<1>2. /\ step = 0 /\ step' = 1 /\ current' = 0
      /\ starts \in 0 .. MaxStarts /\ starts < MaxStarts /\ starts' = starts + 1
      /\ current \in 0 .. 6 /\ at # "writing"
  BY DEF Step1, IInv, ControlInv, TypeOK
<1>2b. starts' \in 0 .. MaxStarts
  BY <1>2, BoundAssumption
<1>3. "run_config" \in Outputs(1) /\ "run_config" \notin Archives /\ Placed("save_wte", 1)
  BY DEF Outputs, Archives, Placed
<1>4. /\ ControlInv' /\ Kept(Dir)' /\ (current >= 1 => Clean(Content("run_config")))'
      /\ Dir'["run_config"] = Whole(setup) /\ Place' = "save_wte"
      /\ pending'.to = "run_config"
  BY <1>1, <1>2, <1>2b, <1>3, OpenKeeps
<1>5. ConfigInv' /\ ProgressInv' /\ GateInv' /\ HefInv'
  BY <1>1, <1>2, <1>4 DEF ConfigInv, ProgressInv, GateInv, HefInv
<1>. QED BY <1>4, <1>5 DEF IInv

(* The other writes of step 1. *)
LEMMA ExportingKeepsInv ==
  ASSUME IInv, SaveWte \/ SaveTokenizer \/ Export \/ SaveRefs
  PROVE  IInv'
<1>1. /\ UNCHANGED <<step, cfg, current, starts>> /\ at \notin {"writing", "idle"} /\ Place = at
      /\ at \in {"save_wte", "save_tokenizer", "export", "save_refs"}
  BY DEF SaveWte, SaveTokenizer, Export, SaveRefs, Place
<1>2. /\ step = 1 /\ cfg \in Setups /\ starts \in 0 .. MaxStarts
      /\ current \in 0 .. 6 /\ current < step
  BY <1>1 DEF IInv, ControlInv, TypeOK, Placed
<1>3. /\ {"wte", "tokenizer", "onnx", "refs"} \subseteq Outputs(1)
      /\ {"wte", "tokenizer", "onnx", "refs"} \cap Archives = {}
      /\ \A n \in {"save_tokenizer", "export", "save_refs", "finish"} : Placed(n, 1)
      /\ {"run_config", "wte", "tokenizer", "onnx", "refs"} \subseteq Artifacts
  BY DEF Outputs, Archives, Placed, Artifacts
<1>4. Dir = file /\ Dir["run_config"] = Whole(cfg) /\ \E s \in Setups : Dir["run_config"] = Whole(s)
  BY <1>1, <1>2, WholeFacts DEF IInv, ConfigInv, Dir
<1>5. ASSUME NEW a \in {"wte", "tokenizer", "onnx", "refs"}, NEW c,
             NEW n \in {"save_tokenizer", "export", "save_refs", "finish"}, Open(a, c, n)
      PROVE  /\ ControlInv' /\ Kept(Dir)' /\ (current >= 1 => Clean(Content("run_config")))'
             /\ Dir'[a] = Whole(c) /\ Place' = n /\ pending'.to = a
             /\ \A b \in Artifacts \ {a} : Dir'[b] = file[b]
             /\ ConfigInv' /\ GateInv' /\ HefInv'
  <2>1. a \in Outputs(step') /\ a \notin Archives /\ a # "resources" /\ n # "idle" /\ Placed(n, step')
    BY <1>1, <1>2, <1>3
  <2>2. /\ ControlInv' /\ Kept(Dir)' /\ (current >= 1 => Clean(Content("run_config")))'
        /\ Dir'[a] = Whole(c) /\ Place' = n /\ pending'.to = a
        /\ \A b \in Artifacts \ {a} : Dir'[b] = file[b]
    BY <1>1, <1>2, <1>5, <2>1, OpenKeeps
  <2>3. Dir'["run_config"] = Dir["run_config"]
    BY <1>3, <1>4, <2>2
  <2>4. ConfigInv' /\ GateInv' /\ HefInv'
    BY <1>1, <1>2, <1>4, <2>2, <2>3 DEF ConfigInv, GateInv, HefInv
  <2>. QED BY <2>2, <2>4
<1>6. CASE SaveWte
  <2>1. Open("wte", cfg.model, "save_tokenizer")
    BY <1>6 DEF SaveWte
  <2>2. ProgressInv'
    BY <1>1, <1>2, <1>5, <2>1 DEF ProgressInv
  <2>. QED BY <1>5, <2>1, <2>2 DEF IInv
<1>7. CASE SaveTokenizer
  <2>1. Open("tokenizer", cfg.model, "export") /\ at = "save_tokenizer"
    BY <1>7 DEF SaveTokenizer
  <2>2. Dir'["wte"] = Whole(cfg.model)
    BY <1>1, <1>2, <1>3, <1>4, <1>5, <2>1 DEF IInv, ProgressInv
  <2>3. ProgressInv'
    BY <1>1, <1>2, <1>5, <2>1, <2>2 DEF ProgressInv
  <2>. QED BY <1>5, <2>1, <2>3 DEF IInv
<1>8. CASE Export
  <2>1. /\ Open("onnx", [model |-> cfg.model, seq |-> cfg.seq, eps |-> ExportedEps], "save_refs")
        /\ at = "export"
    BY <1>8 DEF Export
  <2>2. Dir'["wte"] = Whole(cfg.model) /\ Dir'["tokenizer"] = Whole(cfg.model)
    BY <1>1, <1>2, <1>3, <1>4, <1>5, <2>1 DEF IInv, ProgressInv
  <2>3. Dir'["onnx"] = Whole([model |-> cfg'.model, seq |-> cfg'.seq, eps |-> ExportedEps'])
    BY <1>1, <1>5, <2>1 DEF ExportedEps
  <2>4. ProgressInv'
    BY <1>1, <1>2, <1>5, <2>1, <2>2, <2>3 DEF ProgressInv
  <2>. QED BY <1>5, <2>1, <2>4 DEF IInv
<1>9. CASE SaveRefs
  <2>1. Open("refs", [model |-> cfg.model, seq |-> cfg.seq], "finish") /\ at = "save_refs"
    BY <1>9 DEF SaveRefs
  <2>2. /\ Dir'["wte"] = Whole(cfg.model) /\ Dir'["tokenizer"] = Whole(cfg.model)
        /\ Dir'["onnx"] = Whole([model |-> cfg.model, seq |-> cfg.seq, eps |-> ExportedEps])
    BY <1>1, <1>2, <1>3, <1>4, <1>5, <2>1 DEF IInv, ProgressInv
  <2>3. ProgressInv'
    BY <1>1, <1>2, <1>5, <2>1, <2>2 DEF ProgressInv, ExportedEps
  <2>. QED BY <1>5, <2>1, <2>3 DEF IInv
<1>. QED BY <1>6, <1>7, <1>8, <1>9

-----------------------------------------------------------------------------
(* Steps 2 to 6. *)

(* A script that starts opens its first artifact at once, over a directory *)
(* nobody writes to; its configuration is run_config.json's.               *)
LEMMA StartsFacts ==
  ASSUME IInv, NEW k \in 2 .. 6, NEW inputs, Starts(k, inputs)
  PROVE  /\ step = 0 /\ step' = k /\ at # "writing" /\ Dir = file
         /\ cfg' = Content("run_config") /\ cfg' \in Setups /\ file["run_config"] = Whole(cfg')
         /\ starts' \in 0 .. MaxStarts
         /\ current \in 0 .. 6 /\ current' \in 0 .. 6 /\ current' <= current /\ current' < k
         /\ current' >= 1 => Clean(cfg')
         /\ \A a \in inputs : file[a].kind = "whole"
<1>1. /\ step = 0 /\ step' = k /\ at # "writing" /\ Dir = file /\ cfg' = Content("run_config")
      /\ file["run_config"].kind = "whole" /\ \A a \in inputs : file[a].kind = "whole"
  BY DEF Starts, Readable, IInv, ControlInv, TypeOK, Dir
<1>2. cfg' \in Setups /\ file["run_config"] = Whole(cfg')
  BY <1>1, WholeFacts DEF IInv, ConfigInv, Content
<1>3. starts' \in 0 .. MaxStarts /\ current \in 0 .. 6
      /\ current' \in 0 .. 6 /\ current' <= current /\ current' < k
  BY BoundAssumption DEF Starts, Lesser, IInv, ControlInv, TypeOK
<1>4. current' >= 1 => Clean(cfg')
  BY <1>1, <1>3 DEF IInv
<1>. QED BY <1>1, <1>2, <1>3, <1>4

(* The action Step2. *)
LEMMA Step2KeepsInv == IInv /\ Step2 => IInv'
<1>. SUFFICES ASSUME IInv, Step2 PROVE IInv'
  OBVIOUS
<1>. DEFINE graph == [model |-> Content("onnx").model, seq |-> Content("onnx").seq,
                      scope |-> Content("run_config").scope]
<1>1. Starts(2, {"refs", "onnx"}) /\ Open("parsed", graph, "gate2")
  BY DEF Step2
<1>2. /\ step' = 2 /\ at # "writing" /\ Dir = file
      /\ cfg' = Content("run_config") /\ cfg' \in Setups /\ file["run_config"] = Whole(cfg')
      /\ starts' \in 0 .. MaxStarts
      /\ current' \in 0 .. 6 /\ current' <= current /\ current' < 2
      /\ current' >= 1 => Clean(cfg')
  BY <1>1, StartsFacts
<1>3. /\ "parsed" \in Outputs(2) /\ "parsed" \notin Archives /\ Placed("gate2", 2)
      /\ {"run_config", "parsed"} \subseteq Artifacts
  BY DEF Outputs, Archives, Placed, Artifacts
<1>. HIDE DEF graph
<1>4. /\ ControlInv' /\ Kept(Dir)' /\ (current >= 1 => Clean(Content("run_config")))'
      /\ Dir'["parsed"] = Whole(graph) /\ Place' = "gate2"
      /\ Dir'["run_config"] = file["run_config"] /\ pending'.to = "parsed"
  BY <1>1, <1>2, <1>3, OpenKeeps
<1>5. current' >= 1 => graph = GraphOf(cfg')
  <2>1. current' >= 1 =>
          Content("onnx") = [model |-> cfg'.model, seq |-> cfg'.seq, eps |-> ExportedEps]
    BY <1>2, WholeFacts DEF Clean, Exported, Content, IInv, ControlInv, TypeOK
  <2>. QED BY <1>2, <2>1 DEF graph, GraphOf
<1>6. ConfigInv' /\ ProgressInv' /\ GateInv' /\ HefInv'
  BY <1>2, <1>4, <1>5 DEF ConfigInv, ProgressInv, GateInv, HefInv
<1>. QED BY <1>4, <1>6 DEF IInv

(* The action Step3. *)
LEMMA Step3KeepsInv == IInv /\ Step3 => IInv'
<1>. SUFFICES ASSUME IInv, Step3 PROVE IInv'
  OBVIOUS
<1>1. Starts(3, {"refs", "parsed"}) /\ Open("surgery", Content("parsed"), "gate3")
  BY DEF Step3
<1>2. /\ step' = 3 /\ at # "writing" /\ Dir = file
      /\ cfg' = Content("run_config") /\ cfg' \in Setups /\ file["run_config"] = Whole(cfg')
      /\ starts' \in 0 .. MaxStarts
      /\ current \in 0 .. 6 /\ current' \in 0 .. 6 /\ current' <= current /\ current' < 3
      /\ current' >= 1 => Clean(cfg')
  BY <1>1, StartsFacts
<1>3. /\ "surgery" \in Outputs(3) /\ "surgery" \notin Archives /\ Placed("gate3", 3)
      /\ {"run_config", "surgery"} \subseteq Artifacts
  BY DEF Outputs, Archives, Placed, Artifacts
<1>4. /\ ControlInv' /\ Kept(Dir)' /\ (current >= 1 => Clean(Content("run_config")))'
      /\ Dir'["surgery"] = Whole(Content("parsed")) /\ Place' = "gate3"
      /\ Dir'["run_config"] = file["run_config"] /\ pending'.to = "surgery"
  BY <1>1, <1>2, <1>3, OpenKeeps
<1>5. current' >= 2 => Content("parsed") = GraphOf(cfg')
  BY <1>2, WholeFacts DEF Clean, Content
<1>6. ConfigInv' /\ ProgressInv' /\ GateInv' /\ HefInv'
  BY <1>2, <1>4, <1>5 DEF ConfigInv, ProgressInv, GateInv, HefInv
<1>. QED BY <1>4, <1>6 DEF IInv

(* The resources are made from the references and for the configuration    *)
(* the gate has compared the graph with.                                   *)
LEMMA AttachKeepsInv == IInv /\ AttachResources => IInv'
<1>. SUFFICES ASSUME IInv, AttachResources PROVE IInv'
  OBVIOUS
<1>. DEFINE r == [graph |-> Content("surgery"), embed |-> Content("refs").model,
                  tokenizer |-> Content("tokenizer"),
                  hailoConfig |-> [cache |-> cfg.seq, prefill |-> cfg.prefill]]
<1>1. /\ at = "attach" /\ Open("resources", r, "finish") /\ UNCHANGED <<step, cfg, current, starts>>
  BY DEF AttachResources
<1>2. Dir = file /\ Place = "attach" /\ step = 3
  BY <1>1 DEF Dir, Place, IInv, ControlInv, Placed
<1>3. /\ cfg \in Setups /\ starts \in 0 .. MaxStarts /\ current \in 0 .. 6 /\ current < 3
      /\ file["run_config"] = Whole(cfg) /\ \E s \in Setups : file["run_config"] = Whole(s)
  BY <1>2, WholeFacts DEF IInv, ControlInv, TypeOK, ConfigInv
<1>4. ResourcesFit(r)
  BY <1>2 DEF IInv, GateInv, ResourcesFit, Content
<1>5. /\ "resources" \in Outputs(3) /\ "resources" \notin Archives /\ Placed("finish", 3)
      /\ {"run_config", "surgery", "resources"} \subseteq Artifacts
  BY DEF Outputs, Archives, Placed, Artifacts
<1>. HIDE DEF r
<1>6. /\ ControlInv' /\ Kept(Dir)' /\ (current >= 1 => Clean(Content("run_config")))'
      /\ Dir'["resources"] = Whole(r) /\ Place' = "finish"
      /\ Dir'["run_config"] = file["run_config"] /\ Dir'["surgery"] = file["surgery"]
      /\ pending'.to = "resources"
  BY <1>1, <1>2, <1>3, <1>4, <1>5, OpenKeeps
<1>7. current = 2 => r = ResourcesOf(cfg) /\ file["surgery"] = Whole(GraphOf(cfg))
  <2>. SUFFICES ASSUME current = 2 PROVE r = ResourcesOf(cfg) /\ file["surgery"] = Whole(GraphOf(cfg))
    OBVIOUS
  <2>1. file["surgery"] = Whole(GraphOf(cfg))
    BY <1>2 DEF IInv, ProgressInv
  <2>2. Exported(file, cfg)
    BY <1>3, WholeFacts DEF IInv, Clean, Content
  <2>3. Content("surgery") = GraphOf(cfg) /\ Content("refs").model = cfg.model
        /\ Content("tokenizer") = cfg.model
    BY <2>1, <2>2, WholeFacts DEF Exported, Content
  <2>. QED BY <2>1, <2>3 DEF r, ResourcesOf, SizesOf
<1>8. ConfigInv' /\ ProgressInv' /\ GateInv' /\ HefInv'
  BY <1>1, <1>2, <1>3, <1>6, <1>7 DEF ConfigInv, ProgressInv, GateInv, HefInv
<1>. QED BY <1>6, <1>8 DEF IInv

(* The action Step4. *)
LEMMA Step4KeepsInv == IInv /\ Step4 => IInv'
<1>. SUFFICES ASSUME IInv, Step4 PROVE IInv'
  OBVIOUS
<1>. DEFINE q == [resources |-> Content("resources"),
                  calibration |-> {Content("wte"), Content("tokenizer")},
                  groups |-> [cache |-> Content("run_config").seq,
                              prefill |-> Content("run_config").prefill]]
<1>1. /\ Starts(4, {"tokenizer", "wte", "resources"}) /\ Open("quantized", q, "finish")
      /\ Content("run_config").seq = Content("resources").graph.seq
  BY DEF Step4
<1>2. /\ step' = 4 /\ at # "writing" /\ Dir = file
      /\ cfg' = Content("run_config") /\ cfg' \in Setups /\ file["run_config"] = Whole(cfg')
      /\ starts' \in 0 .. MaxStarts
      /\ current \in 0 .. 6 /\ current' \in 0 .. 6 /\ current' <= current /\ current' < 4
      /\ current' >= 1 => Clean(cfg')
      /\ file["resources"].kind = "whole"
  BY <1>1, StartsFacts
<1>3. /\ "quantized" \in Outputs(4) /\ "quantized" # "resources" /\ Placed("finish", 4)
      /\ {"run_config", "quantized"} \subseteq Artifacts
  BY DEF Outputs, Placed, Artifacts
<1>4. ArchiveFits(q)
  <2>1. ResourcesFit(Content("resources"))
    BY <1>2 DEF IInv, Kept, Content
  <2>. QED BY <1>1, <2>1 DEF ResourcesFit, ArchiveFits
<1>. HIDE DEF q
<1>5. /\ ControlInv' /\ Kept(Dir)' /\ (current >= 1 => Clean(Content("run_config")))'
      /\ Dir'["quantized"] = Whole(q) /\ Place' = "finish"
      /\ Dir'["run_config"] = file["run_config"] /\ pending'.to = "quantized"
  BY <1>1, <1>2, <1>3, <1>4, OpenKeeps
<1>6. current' >= 3 => q = ArchiveOf(cfg')
  <2>. SUFFICES ASSUME current' >= 3 PROVE q = ArchiveOf(cfg')
    OBVIOUS
  <2>1. file["resources"] = Whole(ResourcesOf(cfg')) /\ Exported(file, cfg')
    BY <1>2 DEF Clean
  <2>2. Content("resources") = ResourcesOf(cfg') /\ Content("wte") = cfg'.model
        /\ Content("tokenizer") = cfg'.model
    BY <2>1, WholeFacts DEF Exported, Content
  <2>. QED BY <1>2, <2>2 DEF q, ArchiveOf, SizesOf
<1>7. ConfigInv' /\ ProgressInv' /\ GateInv' /\ HefInv'
  BY <1>2, <1>5, <1>6 DEF ConfigInv, ProgressInv, GateInv, HefInv
<1>. QED BY <1>5, <1>7 DEF IInv

(* Steps 5 and 6 pass the archive on. *)
LEMMA RepairAndCompileKeepInv == IInv /\ (Step5 \/ Step6) => IInv'
<1>1. ASSUME IInv, NEW k \in 5 .. 6, NEW from \in {"quantized", "convfixed"},
             NEW to \in {"convfixed", "compiled"}, NEW n \in {"finish", "write_hef"},
             Starts(k, {from}), Open(to, Content(from), n),
             k = 5 => from = "quantized" /\ to = "convfixed" /\ n = "finish",
             k = 6 => from = "convfixed" /\ to = "compiled" /\ n = "write_hef"
      PROVE  IInv'
  <2>1. /\ step' = k /\ at # "writing" /\ Dir = file
        /\ cfg' = Content("run_config") /\ cfg' \in Setups /\ file["run_config"] = Whole(cfg')
        /\ starts' \in 0 .. MaxStarts
        /\ current \in 0 .. 6 /\ current' \in 0 .. 6 /\ current' <= current /\ current' < k
        /\ current' >= 1 => Clean(cfg')
        /\ file[from].kind = "whole"
    BY <1>1, StartsFacts
  <2>2. /\ to \in Outputs(k) /\ to # "resources" /\ n # "idle" /\ Placed(n, k)
        /\ {"run_config", from, to} \subseteq Artifacts
    BY <1>1 DEF Outputs, Placed, Artifacts
  <2>3. ArchiveFits(Content(from))
    BY <1>1, <2>1 DEF IInv, Kept, Archives, Content
  <2>4. /\ ControlInv' /\ Kept(Dir)' /\ (current >= 1 => Clean(Content("run_config")))'
        /\ Dir'[to] = Whole(Content(from)) /\ Place' = n
        /\ Dir'["run_config"] = file["run_config"] /\ pending'.to = to
    BY <1>1, <2>1, <2>2, <2>3, OpenKeeps
  <2>5. current' = k - 1 => Content(from) = ArchiveOf(cfg')
    BY <1>1, <2>1, WholeFacts DEF Clean, Content
  <2>6. ConfigInv' /\ GateInv'
    BY <1>1, <2>1, <2>4 DEF ConfigInv, GateInv
  <2>7. HefInv'
    BY <1>1, <2>1, <2>4, WholeFacts DEF HefInv
  <2>8. ProgressInv'
    BY <1>1, <2>1, <2>4, <2>5 DEF ProgressInv
  <2>. QED BY <2>4, <2>6, <2>7, <2>8 DEF IInv
<1>. QED BY <1>1 DEF Step5, Step6

(* The action WriteHef. *)
LEMMA WriteHefKeepsInv == IInv /\ WriteHef => IInv'
<1>. SUFFICES ASSUME IInv, WriteHef PROVE IInv'
  OBVIOUS
<1>1. PICK to \in {"hef", "basescope_hef"}, n \in {"finish", "finish_basescope"} :
        Open(to, Content("compiled"), n) /\ (n = "finish" => to = "hef")
  BY DEF WriteHef
<1>2. at = "write_hef" /\ UNCHANGED <<step, cfg, current, starts>>
  BY DEF WriteHef
<1>3. Dir = file /\ Place = "write_hef" /\ step = 6
  BY <1>2 DEF Dir, Place, IInv, ControlInv, Placed
<1>4. /\ cfg \in Setups /\ starts \in 0 .. MaxStarts /\ current \in 0 .. 6 /\ current < 6
      /\ file["run_config"] = Whole(cfg) /\ \E s \in Setups : file["run_config"] = Whole(s)
  BY <1>3, WholeFacts DEF IInv, ControlInv, TypeOK, ConfigInv
<1>5. file["compiled"] = Whole(Content("compiled"))
  BY <1>3 DEF IInv, HefInv, Content
<1>6. ArchiveFits(Content("compiled"))
  BY <1>3, <1>5, WholeFacts DEF IInv, Kept, Archives, Content
<1>7. /\ to \in Outputs(6) /\ to # "resources" /\ n # "idle" /\ Placed(n, 6)
      /\ {"run_config", "compiled", to} \subseteq Artifacts
  BY DEF Outputs, Placed, Artifacts
<1>8. /\ ControlInv' /\ Kept(Dir)' /\ (current >= 1 => Clean(Content("run_config")))'
      /\ Dir'[to] = Whole(Content("compiled")) /\ Place' = n
      /\ Dir'["run_config"] = file["run_config"]
      /\ Dir'["compiled"] = file["compiled"] /\ file'["compiled"] = file["compiled"]
      /\ pending'.to = to /\ pending'.content = Content("compiled")
  BY <1>1, <1>2, <1>3, <1>4, <1>6, <1>7, OpenKeeps
<1>9. current = 5 => file["compiled"] = Whole(ArchiveOf(cfg))
  BY <1>3 DEF IInv, ProgressInv
<1>10. ConfigInv' /\ ProgressInv' /\ GateInv' /\ HefInv'
  BY <1>1, <1>2, <1>3, <1>4, <1>5, <1>8, <1>9 DEF ConfigInv, ProgressInv, GateInv, HefInv
<1>. QED BY <1>8, <1>10 DEF IInv

-----------------------------------------------------------------------------
(* Steps that open nothing. *)

(* A gate lets through what it compared. *)
LEMMA GatesKeepInv == IInv /\ (Gate2 \/ Gate3) => IInv'
<1>. SUFFICES ASSUME IInv, Gate2 \/ Gate3 PROVE IInv'
  OBVIOUS
<1>1. /\ UNCHANGED <<file, step, cfg, pending, current, starts>>
      /\ <<at, at'>> \in {<<"gate2", "finish">>, <<"gate3", "attach">>}
  BY DEF Gate2, Gate3
<1>2. Dir = file /\ Dir' = file /\ Place = at /\ Place' = at'
  BY <1>1 DEF Dir, Place
<1>3. step = IF at = "gate2" THEN 2 ELSE 3
  BY <1>1, <1>2 DEF IInv, ControlInv, Placed
<1>4. ControlInv'
  <2>1. TypeOK'
    BY <1>1, <1>3 DEF IInv, ControlInv, TypeOK
  <2>2. Placed(Place', step')
    BY <1>1, <1>2, <1>3 DEF Placed
  <2>. QED BY <1>1, <2>1, <2>2 DEF IInv, ControlInv
<1>5. ConfigInv' /\ HefInv'
  BY <1>1, <1>2 DEF IInv, ConfigInv, HefInv
<1>6. ProgressInv'
  BY <1>1, <1>2, <1>3 DEF IInv, ProgressInv
<1>7. GateInv'
  BY <1>1, <1>2 DEF Gate3, GatePasses, Gate2, GateInv, Content
<1>8. Kept(Dir)' /\ (current >= 1 => Clean(Content("run_config")))'
  BY <1>1, <1>2 DEF IInv, Clean, Content, Exported
<1>. QED BY <1>4, <1>5, <1>6, <1>7, <1>8 DEF IInv

(* The second half of a write. *)
LEMMA CloseKeepsInv == IInv /\ Close => IInv'
<1>. SUFFICES ASSUME IInv, Close PROVE IInv'
  OBVIOUS
<1>1. /\ at = "writing" /\ file' = [file EXCEPT ![pending.to] = Whole(pending.content)]
      /\ at' = pending.next /\ pending' = NoWrite /\ UNCHANGED <<step, cfg, current, starts>>
  BY DEF Close
<1>2. Place = pending.next /\ pending.next \notin {"idle", "writing"} /\ Dir = file'
  BY <1>1 DEF Place, Dir, IInv, ControlInv, Placed
<1>3. Place' = Place /\ Dir' = Dir
  BY <1>1, <1>2 DEF Place, Dir
<1>4. /\ step \in 1 .. 6 /\ current \in 0 .. 6 /\ current < step
      /\ pending.to \in Outputs(step) /\ pending.to \in Artifacts
  <2>1. step \in 0 .. 6 /\ step # 0 /\ current \in 0 .. 6 /\ pending.to \in Outputs(step)
    BY <1>1 DEF IInv, ControlInv, TypeOK
  <2>. QED BY <2>1, OutputsAreArtifacts DEF IInv, ControlInv
<1>5. \A b \in Artifacts \ {pending.to} : file'[b] = file[b]
  BY <1>1 DEF IInv, ControlInv, TypeOK
<1>6. ControlInv'
  <2>1. \A b \in Artifacts : file'[b].kind \in {"missing", "torn", "whole"}
    BY <1>1, <1>4, <1>5, WholeFacts DEF IInv, ControlInv, TypeOK
  <2>2. TypeOK'
    BY <1>1, <1>2, <1>4, <2>1 DEF IInv, ControlInv, TypeOK
  <2>. QED BY <1>1, <1>2, <1>3, <2>2 DEF IInv, ControlInv
<1>7. ConfigInv' /\ ProgressInv' /\ GateInv' /\ HefInv' /\ Kept(Dir)'
  BY <1>1, <1>2, <1>3 DEF IInv, ConfigInv, ProgressInv, GateInv, HefInv
<1>8. (current >= 1 => Clean(Content("run_config")))'
  BY <1>1, <1>4, <1>5, CleanStays DEF IInv, ControlInv
<1>. QED BY <1>6, <1>7, <1>8 DEF IInv

(* Without its write in progress, an artifact is torn or as it would be.   *)
LEMMA FileOrTorn ==
  ASSUME IInv, NEW b \in Artifacts
  PROVE  file[b] \in {Dir[b], Torn}
BY DEF IInv, ControlInv, TypeOK, Dir

(* A script that ends, however it ends. *)
LEMMA EndsKeepsInv ==
  ASSUME IInv, Ends, current' \in 0 .. 6, (current >= 1 => Clean(Content("run_config")))'
  PROVE  IInv'
<1>1. /\ step' = 0 /\ at' = "idle" /\ pending' = NoWrite /\ cfg' = NoSetup
      /\ UNCHANGED <<file, starts>>
  BY DEF Ends
<1>2. Dir' = file /\ Place' = "idle"
  BY <1>1 DEF Dir, Place
<1>3. ControlInv'
  <2>1. TypeOK'
    BY <1>1 DEF IInv, ControlInv, TypeOK
  <2>2. Placed("idle", 0)
    BY DEF Placed
  <2>. QED BY <1>1, <1>2, <2>1, <2>2 DEF ControlInv
<1>4. ConfigInv'
  <2>1. file["run_config"] \in {Dir["run_config"], Torn}
    BY FileOrTorn DEF Artifacts
  <2>. QED BY <1>1, <1>2, <2>1, WholeFacts DEF IInv, ConfigInv
<1>5. ProgressInv' /\ GateInv' /\ HefInv'
  BY <1>1, <1>2 DEF ProgressInv, GateInv, HefInv
<1>6. Kept(file)
  <2>1. "resources" \in Artifacts /\ Archives \subseteq Artifacts
    BY DEF Artifacts, Archives
  <2>. QED BY <2>1, FileOrTorn, WholeFacts DEF IInv, Kept
<1>. QED BY <1>2, <1>3, <1>4, <1>5, <1>6 DEF IInv

(* A step that finishes in order adds its artifact to the clean ones.      *)
LEMMA FinishKeepsInv == IInv /\ Finish => IInv'
<1>. SUFFICES ASSUME IInv, Finish PROVE IInv'
  OBVIOUS
<1>1. /\ at = "finish" /\ Ends /\ file' = file
      /\ current' = IF current = step - 1 THEN step ELSE current
  BY DEF Finish, Ends
<1>2. Dir = file /\ Place = "finish" /\ step \in 1 .. 6 /\ current \in 0 .. 6
  BY <1>1 DEF Dir, Place, IInv, ControlInv, TypeOK
<1>3. file["run_config"] = Whole(cfg) /\ Content("run_config") = cfg
  BY <1>2, WholeFacts DEF IInv, ConfigInv, Content
<1>4. CASE current # step - 1
  <2>1. (current >= 1 => Clean(Content("run_config")))'
    BY <1>1, <1>4 DEF IInv, Clean, Content, Exported
  <2>. QED BY <1>1, <1>2, <1>4, <2>1, EndsKeepsInv
<1>5. CASE current = step - 1
  <2>1. Exported(file, cfg)
    <3>1. CASE step = 1
      BY <1>2, <1>3, <3>1 DEF IInv, ProgressInv, Exported
    <3>2. CASE step # 1
      BY <1>2, <1>3, <1>5, <3>2 DEF IInv, Clean
    <3>. QED BY <3>1, <3>2
  <2>2. /\ step >= 2 => file["parsed"] = Whole(GraphOf(cfg))
        /\ step >= 3 => file["resources"] = Whole(ResourcesOf(cfg))
        /\ step >= 4 => file["quantized"] = Whole(ArchiveOf(cfg))
        /\ step >= 5 => file["convfixed"] = Whole(ArchiveOf(cfg))
        /\ step >= 6 => file["hef"] = Whole(ArchiveOf(cfg))
    BY <1>2, <1>3, <1>5 DEF IInv, Clean, ProgressInv
  <2>3. Content("run_config")' = cfg
    BY <1>1, <1>3 DEF Content
  <2>4. Exported(file', cfg)
    BY <1>1, <2>1
  <2>5. (current >= 1 => Clean(Content("run_config")))'
    BY <1>1, <1>5, <2>2, <2>3, <2>4 DEF Clean
  <2>. QED BY <1>1, <1>2, <1>5, <2>5, EndsKeepsInv
<1>. QED BY <1>4, <1>5

(* A run that ends, and one that dies. *)
LEMMA StoppingKeepsInv == IInv /\ (FinishBaseScope \/ Dies) => IInv'
<1>. SUFFICES ASSUME IInv, FinishBaseScope \/ Dies PROVE IInv'
  OBVIOUS
<1>1. Ends /\ current' = current /\ current \in 0 .. 6 /\ file' = file
  BY DEF FinishBaseScope, Dies, Ends, IInv, ControlInv, TypeOK
<1>2. (current >= 1 => Clean(Content("run_config")))'
  BY <1>1 DEF IInv, Clean, Content, Exported
<1>. QED BY <1>1, <1>2, EndsKeepsInv

(* The invariant holds initially. *)
LEMMA InitInv == Init => IInv
<1>. SUFFICES ASSUME Init PROVE IInv
  OBVIOUS
<1>1. Dir = file /\ Place = "idle" /\ \A a \in Artifacts : file[a] = Missing
  BY DEF Init, Dir, Place
<1>2. \A a \in Artifacts : file[a].kind = "missing"
  BY <1>1, WholeFacts
<1>3. ControlInv
  <2>1. TypeOK
    BY <1>2, BoundAssumption DEF Init, TypeOK
  <2>2. Placed("idle", 0)
    BY DEF Placed
  <2>. QED BY <1>1, <2>1, <2>2 DEF Init, ControlInv
<1>4. "run_config" \in Artifacts /\ "resources" \in Artifacts /\ Archives \subseteq Artifacts
  BY DEF Artifacts, Archives
<1>5. ConfigInv /\ ProgressInv /\ GateInv /\ HefInv /\ Kept(Dir)
  BY <1>1, <1>2, <1>4 DEF Init, ConfigInv, ProgressInv, GateInv, HefInv, Kept
<1>. QED BY <1>3, <1>5 DEF Init, IInv

(* Every step, and none. *)
LEMMA NextKeepsInv == IInv /\ [Next]_vars => IInv'
<1>1. IInv /\ UNCHANGED vars => IInv'
  <2>. SUFFICES ASSUME IInv, UNCHANGED vars PROVE IInv'
    OBVIOUS
  <2>1. Dir' = Dir /\ Place' = Place /\ Content("run_config")' = Content("run_config")
    BY DEF vars, Dir, Place, Content
  <2>2. TypeOK' /\ UNCHANGED <<file, step, at, cfg, pending, current>>
    BY DEF vars, IInv, ControlInv, TypeOK
  <2>3. ControlInv'
    BY <2>1, <2>2 DEF IInv, ControlInv
  <2>4. ConfigInv' /\ ProgressInv' /\ GateInv' /\ HefInv' /\ Kept(Dir)'
    BY <2>1, <2>2 DEF IInv, ConfigInv, ProgressInv, GateInv, HefInv, ExportedEps
  <2>5. (current >= 1 => Clean(Content("run_config")))'
    BY <2>1, <2>2 DEF IInv, Clean, Exported
  <2>. QED BY <2>3, <2>4, <2>5 DEF IInv
<1>. QED BY <1>1, Step1KeepsInv, ExportingKeepsInv, Step2KeepsInv, Step3KeepsInv, AttachKeepsInv,
            Step4KeepsInv, RepairAndCompileKeepInv, WriteHefKeepsInv, GatesKeepInv, CloseKeepsInv,
            FinishKeepsInv, StoppingKeepsInv DEF Next

(* The inductive invariant of the directory and the running script. *)
THEOREM PipelineInvariance == Spec => []IInv
BY InitInv, NextKeepsInv, PTL DEF Spec

-----------------------------------------------------------------------------

(* The directory and the running script keep their types. *)
THEOREM TypeCorrectness == Spec => []TypeOK
<1>1. IInv => TypeOK
  BY DEF IInv, ControlInv
<1>. QED BY <1>1, PipelineInvariance, PTL

(* However steps are re-run, fail or are killed, an archive and a HEF have *)
(* the embedding table of their graph and one cache size.                  *)
THEOREM EmbeddingStaysWithGraph == Spec => []GraphKeepsItsEmbedding
<1>1. ASSUME IInv PROVE GraphKeepsItsEmbedding
  <2>1. \A b \in Artifacts : file[b].kind = "whole" => file[b] = Dir[b]
    BY <1>1, FileOrTorn, WholeFacts
  <2>2. "resources" \in Artifacts /\ Archives \subseteq Artifacts
    BY DEF Artifacts, Archives
  <2>3. file["resources"].kind = "whole" => ResourcesFit(file["resources"].is)
    BY <1>1, <2>1, <2>2 DEF IInv, Kept
  <2>4. \A a \in Archives : file[a].kind = "whole" => ArchiveFits(file[a].is)
    BY <1>1, <2>1, <2>2 DEF IInv, Kept
  <2>. QED BY <2>3, <2>4 DEF GraphKeepsItsEmbedding, ResourcesFit, ArchiveFits, Archives, Content
<1>. QED BY <1>1, PipelineInvariance, PTL

(* Steps 1 to 6 completed in order, over whatever the directory held, end  *)
(* in a HEF of the checkpoint and the geometry step 1 was asked for.       *)
THEOREM InOrderIsClean == Spec => []InOrderRunIsClean
<1>1. ASSUME IInv, current = 6 PROVE InOrderRunIsClean
  <2>. DEFINE s == Content("run_config")
  <2>1. file["hef"] = Whole(ArchiveOf(s)) /\ file["run_config"] = Whole(s)
    BY <1>1 DEF IInv, Clean, Exported
  <2>2. Content("hef") = ArchiveOf(s) /\ Readable({"hef", "run_config"})
    BY <2>1, WholeFacts DEF Content, Readable
  <2>. HIDE DEF s
  <2>3. OneModel(ArchiveOf(s)) /\ OneGeometry(ArchiveOf(s))
    BY DEF OneModel, OneGeometry, ArchiveOf, ResourcesOf, GraphOf, SizesOf
  <2>4. ArchiveOf(s).resources.graph.model = s.model
        /\ ArchiveOf(s).groups = [cache |-> s.seq, prefill |-> s.prefill]
    BY DEF ArchiveOf, ResourcesOf, GraphOf, SizesOf
  <2>. QED BY <2>2, <2>3, <2>4 DEF InOrderRunIsClean, s
<1>2. IInv => InOrderRunIsClean
  BY <1>1 DEF InOrderRunIsClean
<1>. QED BY <1>2, PipelineInvariance, PTL

(* model.hef is replaced by a step 6 that has compiled, and by nothing     *)
(* else: a write that opens it, and one that completes what was opened.    *)
THEOREM HefComesFromStep6 == Spec => HefOnlyFromStep6
<1>. DEFINE OnlyFromStep6 ==
       file'["hef"] # file["hef"] =>
         /\ step = 6
         /\ file["hef"].kind = "whole" => file'["hef"] = Torn
         /\ file'["hef"].kind = "whole" => file'["hef"] = file["compiled"]
<1>1. ASSUME IInv, [Next]_vars PROVE [OnlyFromStep6]_vars
  <2>1. DOMAIN file = Artifacts /\ "hef" \in Artifacts
    BY <1>1 DEF IInv, ControlInv, TypeOK, Artifacts
  <2>2. CASE Close
    <3>1. at = "writing" /\ file' = [file EXCEPT ![pending.to] = Whole(pending.content)]
      BY <2>2 DEF Close
    <3>2. CASE pending.to = "hef"
      <4>1. step \in 1 .. 6 /\ "hef" \in Outputs(step) /\ file["hef"] = Torn
        BY <1>1, <3>1, <3>2 DEF IInv, ControlInv, TypeOK
      <4>2. step = 6
        BY <4>1, OutputsAreArtifacts
      <4>3. file'["hef"] = file["compiled"]
        BY <1>1, <2>1, <3>1, <3>2 DEF IInv, HefInv
      <4>. QED BY <4>1, <4>2, <4>3, WholeFacts
    <3>3. CASE pending.to # "hef"
      BY <2>1, <3>1, <3>3
    <3>. QED BY <3>2, <3>3
  <2>3. CASE WriteHef
    <3>1. step = 6
      BY <1>1, <2>3 DEF WriteHef, IInv, ControlInv, Placed, Place
    <3>2. file'["hef"] \in {file["hef"], Torn}
      BY <2>1, <2>3 DEF WriteHef, Open
    <3>. QED BY <3>1, <3>2, WholeFacts
  <2>4. ASSUME NEW a \in Artifacts \ {"hef"}, NEW c, NEW n, Open(a, c, n)
        PROVE  file'["hef"] = file["hef"]
    BY <2>1, <2>4 DEF Open
  <2>5. CASE \/ Step1 \/ SaveWte \/ SaveTokenizer \/ Export \/ SaveRefs \/ Step2 \/ Step3
             \/ AttachResources \/ Step4 \/ Step5 \/ Step6
    <3>1. {"run_config", "wte", "tokenizer", "onnx", "refs", "parsed", "surgery", "resources",
           "quantized", "convfixed", "compiled"} \subseteq Artifacts \ {"hef"}
      BY DEF Artifacts
    <3>2. \E a \in Artifacts \ {"hef"} : \E c, n : Open(a, c, n)
      BY <2>5, <3>1 DEF Step1, SaveWte, SaveTokenizer, Export, SaveRefs, Step2, Step3,
                        AttachResources, Step4, Step5, Step6
    <3>. QED BY <2>4, <3>2
  <2>6. CASE Gate2 \/ Gate3 \/ Finish \/ FinishBaseScope \/ Dies \/ UNCHANGED vars
    BY <2>6 DEF Gate2, Gate3, Finish, FinishBaseScope, Dies, Ends, vars
  <2>. QED BY <1>1, <2>2, <2>3, <2>5, <2>6 DEF Next
<1>. QED BY <1>1, PipelineInvariance, PTL DEF Spec, HefOnlyFromStep6
=============================================================================
