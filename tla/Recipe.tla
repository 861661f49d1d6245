------------------------------- MODULE Recipe -------------------------------
(***************************************************************************)
(* Step 4 (pipeline/s4_optimize_kvcache.py) over the graph step 3 wrote:   *)
(* which layers a quantization recipe's placeholders stand for, the model  *)
(* script that is loaded, and the calibration set that has to go with it.  *)
(*                                                                         *)
(* A recipe is a sequence of lines.  A line is a command with a setting    *)
(* and with layers, given by name or by the placeholder of a role.  What   *)
(* the SDK does with the script is modelled from what the comments of      *)
(* resolve_recipe say of it.                                               *)
(***************************************************************************)
EXTENDS HnSurgery

CONSTANTS Recipes,   \* the files --recipe may name
          Archs      \* the checkpoints' widths

(* Widths of the residual stream, of all query heads, of all key heads, of *)
(* the MLP and of a head; numbers of channels.  The stream is wider than a *)
(* head (only "RoPE-scale helpers" are not, discover_compressible_convs).  *)
ASSUME ArchsAssumption ==
  /\ Archs \subseteq [hidden : Nat, queries : Nat, keys : Nat, mlp : Nat, hd : Nat]
  /\ \A a \in Archs : a.hidden > a.hd

VARIABLES stage,    \* where step 4 is
          arch,     \* the checkpoint
          recipe,   \* the recipe's lines, or NoRecipe
          lineno,   \* the line of it that is read next
          script,   \* the model script, as far as it is written
          calib,    \* the mask the calibration set is built with
          scope     \* the layers of the graph the SDK quantizes

step4 == <<stage, arch, recipe, lineno, script, calib, scope>>

KvCommand == "set_kv_cache_global_params"

(* What a line says.  A role is resolved by step 4, a name is kept.        *)
Line(cmd, setting, roles, names) ==
  [cmd |-> cmd, setting |-> setting, roles |-> roles, names |-> names, comment |-> FALSE]
Command(cmd, setting) == Line(cmd, setting, {}, {})
Precision(setting, roles) == Line("quantization_param", setting, roles, {})
Commented(line) == [line EXCEPT !.comment = TRUE]

(* recipes/default.alls *)
DefaultRecipe ==
  << Command("ew_add_fusing", "disabled"),
     Command(KvCommand, "run"),
     Command("multiproc_policy", "disabled"),
     Command("calibration", "calibset_size"),
     Command("model_optimization_flavor", "level 4"),
     Command("bias_correction", "enabled"),
     Command("adaround", "disabled"),
     Command("finetune", "disabled"),
     Line("quantization_param", "a16_w16", {}, {Input(1)}),
     Precision("a8_w4", {"compressible_convs"}) >>

(* recipes/hailo-llm.alls, its stages that name no layer left out. *)
HailoLlm ==
  << Command("llm_modifications", 4),
     Command("ew_add_fusing", "disabled"),
     Command("set_input_mask_to_softmax", "enabled"),
     Command(KvCommand, "run"),
     Line("quantization_param", "a16_w16", {}, {Input(1)}),
     Precision("a8_w4", {"block_convs", "lm_head"}),
     Precision("a16_w16", {"residual_adds"}),
     Precision("a16_w16", {"swiglu_mults"}),
     Precision("a16_w4_a16", {"down_proj"}),
     Precision("a16_w16", {"final_slice"}),
     Precision("weight_group_size", {"block_convs_g128"}),
     Line("equalization", "disabled", {"o_proj", "up_proj", "down_proj"}, {}),
     Line("matmul_correction", "zp_comp_block_3", {"qk_matmuls"}, {}) >>

-----------------------------------------------------------------------------
(* Roles *)

Succ(name) == { layers[b].type : b \in layers[name].out }
Pred(name) == { layers[layers[name].in[k]].type : k \in DOMAIN layers[name].in }
OfType(type) == { name \in DOMAIN layers : layers[name].type = type }

(* Width of a conv's input. *)
InWidth(name) ==
  IF name[1] \in {"q_rotate", "o_proj"} THEN arch.queries
  ELSE IF name[1] \in {"k_rotate", "repeat_k", "repeat_v"} THEN arch.keys
  ELSE IF name[1] = "down" THEN arch.mlp
  ELSE arch.hidden

(* The export's rotation and repetition matrices are nearly empty. *)
Sparse(name) == name[1] \in {"q_rotate", "k_rotate", "repeat_k", "repeat_v"}

(* discover_compressible_convs: the convs worth INT4. *)
CompressibleConvs ==
  { name \in OfType("conv") : ~ Sparse(name) /\ InWidth(name) > arch.hd }

LmHeads == { name \in CompressibleConvs : "output_layer" \in Succ(name) }
BlockConvs == CompressibleConvs \ LmHeads

(* Variant for checking: products that feed anything but a sum.            *)
AnyMults == OfType("ew_mult")

SwigluMults == { name \in OfType("ew_mult") : "conv" \in Succ(name) }

(* The activation of the gate conv is silu, that of every other linear.    *)
Linear(name) == name[1] # "gate"

FindRoles ==
  [compressible_convs |-> CompressibleConvs,
   block_convs        |-> BlockConvs,
   block_convs_g128   |-> { c \in BlockConvs : InWidth(c) % 128 = 0 },
   lm_head            |-> LmHeads,
   final_slice        |-> OfType("slice"),
   residual_adds      |-> { a \in OfType("ew_add") : "layer_normalization" \in Succ(a) },
   swiglu_mults       |-> SwigluMults,
   down_proj          |-> { c \in UNION { layers[m].out : m \in SwigluMults } :
                              layers[c].type = "conv" },
   up_proj            |-> { c \in OfType("conv") :
                              layers[c].out \cap SwigluMults # {} /\ Linear(c) },
   o_proj             |-> { c \in OfType("conv") : "matmul" \in Pred(c) },
   qk_matmuls         |-> { m \in OfType("matmul") : "softmax" \notin Pred(m) }]

-----------------------------------------------------------------------------
(* The model script *)

(* Variant for checking: commands are looked for in comments, too.         *)
ActiveWithComments(lines, cmd) ==
  { lines[k] : k \in { j \in DOMAIN lines : lines[j].cmd = cmd } }

(* The lines of a command, comments left out. *)
Active(lines, cmd) ==
  { lines[k] : k \in { j \in DOMAIN lines : lines[j].cmd = cmd /\ ~ lines[j].comment } }

Moved(name) == <<"moved", name>>
Piece(name, i) == <<"piece", name, i>>

(* conv_splits of the enabled llm_modifications command, 0 without one.    *)
Splits(lines) ==
  LET llm == Active(lines, "llm_modifications")
  IN  IF llm = {} THEN 0 ELSE (CHOOSE line \in llm : TRUE).setting

Pieces(convs, splits) == { Piece(c, i) : c \in convs, i \in 0 .. splits - 1 }

(* llm_modifications splits one lm_head; a sharded one cannot be named.    *)
Refused(lines) == Splits(lines) > 1 /\ Cardinality(LmHeads) # 1

(* Variant for checking: the lm_head keeps its name.                       *)
RolesUnsplit(lines) ==
  IF Splits(lines) = 0 THEN FindRoles
  ELSE [FindRoles EXCEPT !.final_slice = { Moved(n) : n \in @ }]

(* The roles under the names llm_modifications gives their layers.         *)
Roles(lines) ==
  LET splits == Splits(lines)
  IN  IF splits = 0 THEN FindRoles
      ELSE [FindRoles EXCEPT
              !.final_slice = { Moved(n) : n \in @ },
              !.lm_head = IF splits > 1 THEN Pieces(@, splits) ELSE @]

(* main()'s own script, with every recipe flag at its default. *)
BuiltIn ==
  << Command("ew_add_fusing", "disabled"),
     Command(KvCommand, "run"),
     Command("multiproc_policy", "disabled"),
     Command("calibration", "calibset_size"),
     Command("model_optimization_flavor", "level 4"),
     Command("bias_correction", "enabled"),
     Command("adaround", "disabled"),
     Command("finetune", "disabled"),
     Line("quantization_param", "a16_w16", {}, {Input(1)}),
     Line("quantization_param", "a8_w4", {}, CompressibleConvs) >>

(* A line that asks for the layers of an empty role has none to apply to.  *)
Applies(roles, l) == l.comment \/ \A r \in l.roles : roles[r] # {}

(* A line with the layers of its roles. *)
Fill(roles, l) ==
  IF l.comment THEN l
  ELSE Line(l.cmd, l.setting, {}, l.names \cup UNION { roles[r] : r \in l.roles })

Sized(l) == IF l.cmd = KvCommand THEN [l EXCEPT !.setting = "run"] ELSE l

(* Variant for checking: the run's sizes are put in front of the file's.   *)
WithSizesInFront(lines, body) == <<Command(KvCommand, "run")>> \o body

(* The cache sizes are the run's, whatever the file says.                  *)
WithSizes(lines, body) ==
  IF Active(lines, KvCommand) # {} THEN [ k \in DOMAIN body |-> Sized(body[k]) ]
  ELSE <<Command(KvCommand, "run")>> \o body

FusedMask(lines) == Active(lines, "set_input_mask_to_softmax") # {}

(* What a recipe may say: placeholders name roles, what a line names       *)
(* itself are inputs, and a command for the network as a whole names no    *)
(* layers.  The cache sizes are given once.                                *)
RoleNames ==
  { "compressible_convs", "block_convs", "block_convs_g128", "lm_head", "final_slice",
    "residual_adds", "swiglu_mults", "down_proj", "up_proj", "o_proj", "qk_matmuls" }

NetworkCommands == { "llm_modifications", "set_input_mask_to_softmax", KvCommand }

IsLine(l) ==
  /\ l = [cmd |-> l.cmd, setting |-> l.setting, roles |-> l.roles, names |-> l.names,
          comment |-> l.comment]
  /\ l.roles \subseteq RoleNames /\ l.names \subseteq { Input(i) : i \in 1 .. 6 }
  /\ l.cmd \in NetworkCommands => l.roles = {} /\ l.names = {}
  /\ l.cmd = "llm_modifications" => l.setting \in Nat \ {0}
  /\ l.comment \in BOOLEAN

ASSUME RecipesAssumption ==
  \A r \in Recipes :
    /\ r \in Seq({ r[k] : k \in DOMAIN r }) /\ \A k \in DOMAIN r : IsLine(r[k])
    /\ \A j, k \in { i \in DOMAIN r : ~ r[i].comment } :
         r[j].cmd = KvCommand /\ r[k].cmd = KvCommand => j = k

-----------------------------------------------------------------------------
(* What the SDK makes of a script (external). *)

(* llm_modifications moves the final slice and splits the conv that feeds  *)
(* the first output; with one lm_head these are all there are.             *)
Rewritten(lines) ==
  LET splits == Splits(lines)
      slices == OfType("slice")
      heads  == { n \in OfType("conv") : "output_layer" \in Succ(n) }
      gone == slices \cup (IF splits > 1 THEN heads ELSE {})
      new  == { Moved(n) : n \in slices }
                \cup (IF splits > 1 THEN Pieces(heads, splits) ELSE {})
  IN  IF splits = 0 THEN DOMAIN layers ELSE (DOMAIN layers \ gone) \cup new

-----------------------------------------------------------------------------
(* Step 4 *)

NoRecipe == << >>   \* no --recipe

RecipeInit ==
  /\ Init
  /\ stage = "idle"
  /\ arch \in Archs
  /\ recipe = NoRecipe /\ lineno = 1 /\ script = << >>
  /\ calib = "none" /\ scope = {}

(* Step 3's surgery; with it, nothing of step 4 changes. *)
Surgery == Next /\ UNCHANGED step4

(* load the archive, discover the convs, take the built-in script or begin *)
(* with the recipe.  --print-recipe ends where the script is complete.     *)
Resolve ==
  /\ pc = "saved" /\ stage = "idle"
  /\ recipe' \in Recipes \cup {NoRecipe}
  /\ \/ /\ recipe' # NoRecipe /\ Refused(recipe')
        /\ stage' = "refused" /\ UNCHANGED script
     \/ /\ recipe' # NoRecipe /\ ~ Refused(recipe')
        /\ stage' = "resolving" /\ UNCHANGED script
     \/ /\ recipe' = NoRecipe
        /\ stage' \in {"resolved", "printed"} /\ script' = BuiltIn
  /\ UNCHANGED <<vars, arch, lineno, calib, scope>>

(* A turn of resolve_recipe's loop: the next line is filled, or dropped.   *)
ResolveLine ==
  /\ stage = "resolving" /\ lineno <= Len(recipe)
  /\ LET roles == Roles(recipe)
         line  == recipe[lineno]
     IN  script' = IF Applies(roles, line) THEN Append(script, Fill(roles, line)) ELSE script
  /\ lineno' = lineno + 1
  /\ UNCHANGED <<vars, stage, arch, recipe, calib, scope>>

(* After the loop. *)
ResolveEnd ==
  /\ stage = "resolving" /\ lineno > Len(recipe)
  /\ script' = WithSizes(recipe, script)
  /\ stage' \in {"resolved", "printed"}
  /\ UNCHANGED <<vars, arch, recipe, lineno, calib, scope>>

(* build_calibration, and the mask as 1 and 0 if the softmax takes it so.  *)
BuildCalibration ==
  /\ stage = "resolved"
  /\ stage' = "calibrated"
  /\ calib' = IF FusedMask(recipe) THEN "multiplicative" ELSE "additive"
  /\ UNCHANGED <<vars, arch, recipe, lineno, script, scope>>

(* load_model_script and optimize: the SDK rewrites the graph first. *)
Optimize ==
  /\ stage = "calibrated"
  /\ stage' = "optimized"
  /\ scope' = Rewritten(script)
  /\ UNCHANGED <<vars, arch, recipe, lineno, script, calib>>

RecipeNext ==
  \/ Surgery
  \/ Resolve \/ ResolveLine \/ ResolveEnd
  \/ BuildCalibration \/ Optimize

RecipeSpec == RecipeInit /\ [][RecipeNext]_<<vars, step4>> /\ WF_vars(Next)

-----------------------------------------------------------------------------

(* The lm_head, if the recipe asks for {compressible_convs} and splits it: *)
(* that role alone is filled with the name the split takes away.           *)
Unsplit(lines) ==
  IF /\ Splits(lines) > 1
     /\ \E k \in DOMAIN lines : ~ lines[k].comment /\ "compressible_convs" \in lines[k].roles
  THEN LmHeads ELSE {}

(* Every layer a command of the loaded script names is in the graph the    *)
(* SDK applies it to, step 3's as llm_modifications rewrites it ("follows   *)
(* the renames llm_modifications applies", resolve_recipe), but for the     *)
(* lm_head that {compressible_convs} still calls by its old name.  What is  *)
(* done to a head in shards is not known here.                             *)
NamesExist ==
  stage = "optimized" /\ (Splits(script) # 0 => net.shards = 1) =>
    \A k \in DOMAIN script :
      script[k].comment \/ script[k].names \subseteq scope \cup Unsplit(recipe)

(* The mask is calibrated the way the loaded script makes the softmax use  *)
(* it, and the script gives the run's cache sizes once, whatever the       *)
(* recipe's comments or commands say (main, resolve_recipe).               *)
CalibrationFollowsScript ==
  stage \in {"calibrated", "optimized"} =>
    /\ calib = IF \E k \in DOMAIN script :
                    script[k].cmd = "set_input_mask_to_softmax" /\ ~ script[k].comment
               THEN "multiplicative" ELSE "additive"
    /\ \E k \in DOMAIN script :
         /\ script[k] = Command(KvCommand, "run")
         /\ \A j \in DOMAIN script \ {k} :
              script[j].cmd = KvCommand => script[j].comment

(* "Without --recipe, step 4 applies its built-in script, identical to     *)
(* default.alls" (recipes/README.md): two texts and two code paths give    *)
(* one script on every graph step 3 leaves.                                *)
DefaultRecipeIsBuiltIn ==
  stage \notin {"idle", "refused", "resolving"} /\ recipe = DefaultRecipe => script = BuiltIn

(* find_roles tells the layers of the exported model apart by their        *)
(* neighbours alone: after the surgery, each role is held by exactly the   *)
(* layers it is named for, and no slice of the mask is taken for the       *)
(* final one.                                                              *)
RolesNameTheirLayers ==
  pc = "saved" =>
    LET of(kinds) == kinds \X (1 .. net.blocks)
        kind(n) == n[1]
    IN  /\ FindRoles.swiglu_mults = of({"swiglu"})
        /\ FindRoles.down_proj = of({"down"}) /\ FindRoles.up_proj = of({"up"})
        /\ FindRoles.o_proj = of({"o_proj"}) /\ FindRoles.qk_matmuls = of({"qk"})
        /\ FindRoles.residual_adds = of({"attn_add", "mlp_add"})
        /\ FindRoles.lm_head = { n \in DOMAIN layers : kind(n) = "lm_head" }
        /\ \A n \in FindRoles.final_slice : kind(n) = "chain"
=============================================================================
