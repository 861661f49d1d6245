----------------------------- MODULE HnSurgery -----------------------------
(***************************************************************************)
(* The graph surgery of pipeline/s3_surgery_and_resources.py on the HN, a  *)
(* dictionary of layers that name each other as inputs and outputs:        *)
(*   - each RoPE input takes the place of the conv that duplicated it;     *)
(*   - input_layer2 takes the place of every mask slice;                   *)
(*   - the lm_head conv is split into shards of its columns, each with a   *)
(*     private copy of the cheap layers above it.                          *)
(* One action per turn of a loop.  Shapes are left out but for the two     *)
(* that are asserted or split.                                             *)
(***************************************************************************)
EXTENDS Integers, Sequences, FiniteSets, SequencesExt

CONSTANT Nets   \* the parsed graphs, and the config they are operated with

(* blocks: transformer layers; slices: mask slices they are fed from (with *)
(* none, the adds read the mask itself); nlayers: config.NLAYERS; width:   *)
(* RoPE convs have the expected width; chain: the types of the layers      *)
(* above the lm_head, nearest first, down to the shared                    *)
(* layer_normalization; vocab, shards: config's; low: the shards whose     *)
(* share of the vocabulary, computed with floats, comes out just below the *)
(* whole number it is.                                                     *)
Share(n, i) == (i * n.vocab) \div n.shards

ASSUME NetsAssumption ==
  \A net \in Nets :
    /\ net.blocks \in Nat \ {0} /\ net.slices \in 0 .. net.blocks
    /\ net.chain \in Seq({"slice", "normalization"}) \ {<< >>}
    /\ net.vocab \in Nat /\ net.shards \in 1 .. net.vocab
    /\ net.width \in BOOLEAN /\ net.nlayers \in Nat
    /\ \A i \in net.low : /\ i \in 1 .. net.shards - 1
                          /\ net.shards * Share(net, i) = i * net.vocab
                          /\ net.shards * Share(net, 1) # net.vocab

VARIABLES net,        \* the graph step 3 was given
          layers,     \* its layers: name -> [type, in, out, cols]
          weights,    \* the layers the .npz has parameters for
          order,      \* output_layers_order
          todo,       \* what the loop it is in still has to do
          newOutput,  \* new_il2_output, of the mask's loop
          chain,      \* orig_chain, as far as it is collected
          pc          \* where it is

vars == <<net, layers, weights, order, todo, newOutput, chain, pc>>

(* A name is <<kind, index>>; what a shard owns has the shard as a third.  *)
Input(i) == <<"input_layer", i>>
Conv(i)  == <<"conv", i>>
LmHead == <<"lm_head", 0>>
Logits  == <<"output_layer", 0>>
Chain(j) == <<"chain", j>>
Copy(name, shard) == <<name[1], name[2], shard>>

-----------------------------------------------------------------------------
(* What step 2 leaves: the exported model with its six inputs.  In a block *)
(* the normed input is projected; queries and keys are turned by the four  *)
(* RoPE inputs; the products of the queries with the keys, repeated for    *)
(* their heads, get the mask added, and weigh the values; o_proj; then the *)
(* gated MLP.  A norm is followed by the product with its weights.  The    *)
(* blocks are in line, and the chain and the lm_head follow the last.      *)

SliceOf(n, block) ==
  IF n.slices = 0 THEN Input(2)
  ELSE <<"slice", IF block <= n.slices THEN block ELSE n.slices>>

(* The types of a block's layers. *)
BlockTypes ==
  [attn_norm |-> "layer_normalization", attn_scale |-> "normalization",
   q_proj |-> "conv", k_proj |-> "conv", v_proj |-> "conv",
   q_rotate |-> "conv", k_rotate |-> "conv",
   q_cos |-> "ew_mult", q_sin |-> "ew_mult", k_cos |-> "ew_mult", k_sin |-> "ew_mult",
   q_rope |-> "ew_add", k_rope |-> "ew_add", repeat_k |-> "conv", repeat_v |-> "conv",
   qk |-> "matmul", ew_add |-> "ew_add", softmax |-> "softmax", av |-> "matmul",
   o_proj |-> "conv", attn_add |-> "ew_add",
   mlp_norm |-> "layer_normalization", mlp_scale |-> "normalization",
   gate |-> "conv", up |-> "conv", swiglu |-> "ew_mult", down |-> "conv",
   mlp_add |-> "ew_add"]

Before(block) == IF block = 1 THEN Input(1) ELSE <<"mlp_add", block - 1>>

(* The inputs of a block's layers. *)
BlockInputs(n, b) ==
  [attn_norm  |-> <<Before(b)>>,
   attn_scale |-> <<<<"attn_norm", b>>>>,
   q_proj     |-> <<<<"attn_scale", b>>>>,
   k_proj     |-> <<<<"attn_scale", b>>>>,
   v_proj     |-> <<<<"attn_scale", b>>>>,
   q_rotate   |-> <<<<"q_proj", b>>>>,
   k_rotate   |-> <<<<"k_proj", b>>>>,
   q_cos      |-> <<<<"q_proj", b>>, Conv(4)>>,
   q_sin      |-> <<<<"q_rotate", b>>, Conv(6)>>,
   k_cos      |-> <<<<"k_proj", b>>, Conv(3)>>,
   k_sin      |-> <<<<"k_rotate", b>>, Conv(5)>>,
   q_rope     |-> <<<<"q_cos", b>>, <<"q_sin", b>>>>,
   k_rope     |-> <<<<"k_cos", b>>, <<"k_sin", b>>>>,
   repeat_k   |-> <<<<"k_rope", b>>>>,
   repeat_v   |-> <<<<"v_proj", b>>>>,
   qk         |-> <<<<"q_rope", b>>, <<"repeat_k", b>>>>,
   ew_add     |-> <<<<"qk", b>>, SliceOf(n, b)>>,
   softmax    |-> <<<<"ew_add", b>>>>,
   av         |-> <<<<"softmax", b>>, <<"repeat_v", b>>>>,
   o_proj     |-> <<<<"av", b>>>>,
   attn_add   |-> <<Before(b), <<"o_proj", b>>>>,
   mlp_norm   |-> <<<<"attn_add", b>>>>,
   mlp_scale  |-> <<<<"mlp_norm", b>>>>,
   gate       |-> <<<<"mlp_scale", b>>>>,
   up         |-> <<<<"mlp_scale", b>>>>,
   swiglu     |-> <<<<"gate", b>>, <<"up", b>>>>,
   down       |-> <<<<"swiglu", b>>>>,
   mlp_add    |-> <<<<"attn_add", b>>, <<"down", b>>>>]

Norm == <<"layer_normalization", 0>>
Above(n, j) == IF j = Len(n.chain) THEN Norm ELSE Chain(j + 1)

Names(n) ==
  { Input(i) : i \in 1 .. 6 } \cup { Conv(i) : i \in 3 .. 6 }
    \cup ((DOMAIN BlockTypes) \X (1 .. n.blocks)) \cup ({"slice"} \X (1 .. n.slices))
    \cup { Chain(j) : j \in 1 .. Len(n.chain) } \cup {Norm, LmHead, Logits}

(* The inputs of the other layers. *)
EndInputs(n, i) ==
  [input_layer         |-> << >>,
   conv                |-> <<Input(i)>>,
   slice               |-> <<Input(2)>>,
   layer_normalization |-> <<<<"mlp_add", n.blocks>>>>,
   chain               |-> <<Above(n, i)>>,
   lm_head             |-> <<Chain(1)>>,
   output_layer        |-> <<LmHead>>]

Inputs(n, name) ==
  IF name[1] \in DOMAIN BlockTypes
    THEN BlockInputs(n, name[2])[name[1]]
    ELSE EndInputs(n, name[2])[name[1]]

Type(n, name) ==
  IF name[1] \in DOMAIN BlockTypes THEN BlockTypes[name[1]]
  ELSE IF name[1] = "chain" THEN n.chain[name[2]]
  ELSE IF name[1] = "lm_head" THEN "conv"
  ELSE name[1]

Parsed(n) ==
  LET in == [ name \in Names(n) |-> Inputs(n, name) ]
  IN  [ name \in Names(n) |->
          [type |-> Type(n, name),
           in   |-> in[name],
           out  |-> { b \in Names(n) : \E k \in DOMAIN in[b] : in[b][k] = name },
           cols |-> IF name = LmHead THEN 0 .. n.vocab - 1 ELSE {}] ]

(* Layers with parameters of their own (kernel, padding_const_value, ...). *)
Weighted(n) ==
  { Conv(i) : i \in 3 .. 6 } \cup { Chain(j) : j \in 1 .. Len(n.chain) } \cup {LmHead}

-----------------------------------------------------------------------------

Swap(name, old, new) == IF name = old THEN new ELSE name

Replace(seq, old, new) == [ k \in DOMAIN seq |-> Swap(seq[k], old, new) ]

Without(f, names) == [ name \in DOMAIN f \ names |-> f[name] ]

Extended(f, g) ==
  [ name \in DOMAIN f \cup DOMAIN g |-> IF name \in DOMAIN g THEN g[name] ELSE f[name] ]

Raise ==
  /\ pc' = "raised"
  /\ UNCHANGED <<net, layers, weights, order, todo, newOutput, chain>>

(* Variant for checking: q_cos and k_sin mixed up.                         *)
RopeLayersMixedUp == << <<Input(3), Conv(3)>>, <<Input(4), Conv(5)>>,
                        <<Input(5), Conv(4)>>, <<Input(6), Conv(6)>> >>

(* ROPE_LAYERS: which conv each RoPE input replaces. *)
RopeLayers == << <<Input(3), Conv(3)>>, <<Input(4), Conv(4)>>,
                 <<Input(5), Conv(5)>>, <<Input(6), Conv(6)>> >>

(* A turn of rope_surgery: the input layer takes over the width and the    *)
(* consumers of the conv, and the conv goes.                               *)
RopeStep ==
  /\ pc = "rope" /\ todo # << >>
  /\ LET input == todo[1][1]
         conv  == todo[1][2]
         consumers == layers[conv].out
     IN  IF ~ net.width
         THEN Raise
         ELSE /\ layers' =
                   Without([ name \in DOMAIN layers |->
                     IF name = input THEN [layers[name] EXCEPT !.out = consumers]
                     ELSE IF name \in consumers
                       THEN [layers[name] EXCEPT !.in = Replace(@, conv, input)]
                     ELSE layers[name] ], {conv})
              /\ todo' = Tail(todo)
              /\ UNCHANGED <<net, weights, order, newOutput, chain, pc>>

(* mask_surgery begins: the slices among the consumers of input_layer2,    *)
(* one for each transformer layer the config knows of.                     *)
MaskSlices == { name \in layers[Input(2)].out : layers[name].type = "slice" }

(* Variant for checking: the slices are not counted.                       *)
MaskStartUncounted ==
  /\ pc = "rope" /\ todo = << >>
  /\ pc' = "mask"
  /\ todo' = SetToSeq(MaskSlices)
  /\ newOutput' = layers[Input(2)].out
  /\ UNCHANGED <<net, layers, weights, order, chain>>

MaskStart ==
  /\ pc = "rope" /\ todo = << >>
  /\ IF MaskSlices = {} \/ Cardinality(MaskSlices) # net.nlayers
     THEN Raise
     ELSE /\ pc' = "mask"
          /\ todo' = SetToSeq(MaskSlices)
          /\ newOutput' = layers[Input(2)].out
          /\ UNCHANGED <<net, layers, weights, order, chain>>

(* A turn of mask_surgery: the one add behind a slice reads input_layer2,  *)
(* which is not told of it before the loop is over.                        *)
MaskStep ==
  /\ pc = "mask" /\ todo # << >>
  /\ LET slice == todo[1]
         add == CHOOSE name \in layers[slice].out : TRUE
     IN  IF Cardinality(layers[slice].out) # 1
         THEN Raise
         ELSE /\ layers' =
                   Without([layers EXCEPT ![add].in = Replace(@, slice, Input(2))], {slice})
              /\ newOutput' = (newOutput \ {slice}) \cup {add}
              /\ todo' = Tail(todo)
              /\ UNCHANGED <<net, weights, order, chain, pc>>

AfterMask == IF net.shards > 1 THEN "collect" ELSE "save"

(* Variant for checking: input_layer2 keeps its consumers.                 *)
MaskEndWithoutOutput ==
  /\ pc = "mask" /\ todo = << >>
  /\ pc' = AfterMask
  /\ UNCHANGED <<net, layers, weights, order, todo, newOutput, chain>>

(* After the loop; lm_head_split follows where there are shards.           *)
MaskEnd ==
  /\ pc = "mask" /\ todo = << >>
  /\ layers' = [layers EXCEPT ![Input(2)].out = newOutput]
  /\ pc' = AfterMask
  /\ UNCHANGED <<net, weights, order, todo, newOutput, chain>>

-----------------------------------------------------------------------------
(* lm_head_split *)

(* Variant for checking: every shard as wide as the quotient rounded down. *)
BoundRoundedDown(i) == i * (net.vocab \div net.shards)

(* np.linspace(0, vocab, n_shards + 1, dtype=int): i * (vocab / n_shards), *)
(* truncated.  With exact steps, and at either end, nothing is lost.       *)
Bound(i) == Share(net, i) - (IF i \in net.low THEN 1 ELSE 0)

(* Variant for checking: normalization layers stay shared.                 *)
SliceToDuplicate == {"slice"}

SafeToDuplicate == {"slice", "normalization"}

ChainHead == layers[LmHead].in[1]
SharedAncestor == IF chain = << >> THEN ChainHead ELSE layers[chain[Len(chain)]].in[1]

(* _collect_safe_chain's loop: up from the lm_head over what may be        *)
(* duplicated.                                                             *)
Collectable ==
  layers[SharedAncestor].type \in SafeToDuplicate /\ layers[SharedAncestor].in # << >>

CollectStep ==
  /\ pc = "collect" /\ Collectable
  /\ chain' = Append(chain, SharedAncestor)
  /\ UNCHANGED <<net, layers, weights, order, todo, newOutput, pc>>

CollectEnd ==
  /\ pc = "collect" /\ ~ Collectable
  /\ pc' = "split"
  /\ todo' = [ k \in 1 .. net.shards |-> k - 1 ]
  /\ UNCHANGED <<net, layers, weights, order, newOutput, chain>>

(* _duplicate_chain_for_shard: a shard's copies of the chain.              *)
Copies(shard) ==
  LET last == Len(chain)
  IN  [ name \in { Copy(chain[j], shard) : j \in 1 .. last } |->
          LET j == CHOOSE k \in 1 .. last : Copy(chain[k], shard) = name
          IN  [ layers[chain[j]] EXCEPT
                  !.in = <<IF j = last THEN SharedAncestor
                                       ELSE Copy(chain[j + 1], shard)>>,
                  !.out = {IF j = 1 THEN Copy(LmHead, shard) ELSE Copy(chain[j - 1], shard)} ] ]

(* The shard and its output, with their columns of the kernel.             *)
ShardLayers(shard) ==
  [ name \in {Copy(LmHead, shard), Copy(Logits, shard)} |->
      IF name = Copy(LmHead, shard)
      THEN [layers[LmHead] EXCEPT !.in = <<IF chain = << >> THEN ChainHead
                                           ELSE Copy(ChainHead, shard)>>,
                                !.out = {Copy(Logits, shard)},
                                !.cols = Bound(shard) .. Bound(shard + 1) - 1]
      ELSE [layers[Logits] EXCEPT !.in = <<Copy(LmHead, shard)>>] ]

(* Variant for checking: the copied chain gets no parameters.              *)
SplitStepBareCopies ==
  /\ pc = "split" /\ todo # << >>
  /\ LET shard == todo[1]
         added == Extended(Copies(shard), ShardLayers(shard))
         consumers == IF chain = << >> THEN {} ELSE {Copy(chain[Len(chain)], shard)}
     IN  /\ layers' =
              Extended([layers EXCEPT ![SharedAncestor].out = @ \cup consumers], added)
         /\ weights' = weights \cup {Copy(LmHead, shard)}
         /\ todo' = Tail(todo)
         /\ UNCHANGED <<net, order, newOutput, chain, pc>>

SplitStep ==
  /\ pc = "split" /\ todo # << >>
  /\ LET shard == todo[1]
         added == Extended(Copies(shard), ShardLayers(shard))
         consumers == IF chain = << >> THEN {} ELSE {Copy(chain[Len(chain)], shard)}
     IN  /\ layers' =
              Extended([layers EXCEPT ![SharedAncestor].out = @ \cup consumers], added)
         /\ weights' = weights \cup { name \in DOMAIN added : name[1] # "output_layer" }
         /\ todo' = Tail(todo)
         /\ UNCHANGED <<net, order, newOutput, chain, pc>>

(* order[:idx] + shard_names + order[idx + 1:] *)
ShardsInPlace ==
  LET idx == CHOOSE k \in DOMAIN order : order[k] = LmHead
  IN  SubSeq(order, 1, idx - 1)
        \o [ k \in 1 .. net.shards |-> Copy(LmHead, k - 1) ]
        \o SubSeq(order, idx + 1, Len(order))

(* Variant for checking: the shared layer keeps its old consumer.          *)
SplitEndKeepsConsumer ==
  /\ pc = "split" /\ todo = << >>
  /\ LET old == { chain[j] : j \in DOMAIN chain }
     IN  /\ layers' = Without(layers, old \cup {LmHead, Logits})
         /\ weights' = weights \ (old \cup {LmHead})
  /\ order' = ShardsInPlace
  /\ pc' = "save"
  /\ UNCHANGED <<net, todo, newOutput, chain>>

(* After the loop: the lm_head, its output and the chain go, from the      *)
(* consumers of the shared layer too; main() lists the shards as outputs.  *)
SplitEnd ==
  /\ pc = "split" /\ todo = << >>
  /\ LET old == { chain[j] : j \in DOMAIN chain }
     IN  /\ layers' = Without([layers EXCEPT ![SharedAncestor].out = @ \ old],
                              old \cup {LmHead, Logits})
         /\ weights' = weights \ (old \cup {LmHead})
  /\ order' = ShardsInPlace
  /\ pc' = "save"
  /\ UNCHANGED <<net, todo, newOutput, chain>>

(* json.dump and save_har_from_hn: the archive holds what surgery left.    *)
Save ==
  /\ pc = "save"
  /\ pc' = "saved"
  /\ UNCHANGED <<net, layers, weights, order, todo, newOutput, chain>>

-----------------------------------------------------------------------------

Init ==
  /\ net \in Nets
  /\ layers = Parsed(net)
  /\ weights = Weighted(net)
  /\ order = <<LmHead>>
  /\ todo = RopeLayers
  /\ newOutput = {}
  /\ chain = << >>
  /\ pc = "rope"

Next ==
  \/ RopeStep \/ MaskStart \/ MaskStep \/ MaskEnd
  \/ CollectStep \/ CollectEnd
  \/ SplitStep \/ SplitEnd \/ Save

Spec == Init /\ [][Next]_vars /\ WF_vars(Next)

-----------------------------------------------------------------------------

(* Inputs and outputs name each other and nothing else: no layer of the    *)
(* graph that step 3 writes refers to a layer surgery deleted, is missing  *)
(* from its producer's consumers or left in those of a former producer.    *)
(* It holds between any two turns of the RoPE loop, and between the loops, *)
(* but not within mask_surgery's, which tells input_layer2 of its new      *)
(* consumers when it is over, nor within the split's.                      *)
GraphClosed ==
  pc \in {"rope", "collect", "save", "saved"} =>
    \A a \in DOMAIN layers :
      /\ layers[a].out = { b \in DOMAIN layers : \E k \in DOMAIN layers[b].in : layers[b].in[k] = a }
      /\ { layers[a].in[k] : k \in DOMAIN layers[a].in } \subseteq DOMAIN layers

(* What flows under a name: a RoPE input stands for the conv it replaces,  *)
(* input_layer2 for each of its slices, a copy for the layer it copies.    *)
Flow(name) ==
  IF name[1] \in {"input_layer", "conv"} /\ name[2] \in 3 .. 6 THEN <<"rope", name[2]>>
  ELSE IF name[1] = "slice" \/ name = Input(2) THEN <<"mask", 0>>
  ELSE <<name[1], name[2]>>

(* Every layer that is left computes from the same operands, in the same   *)
(* order, as the layer of the parsed graph it is or copies: surgery        *)
(* changes where values come from, never which (rope_surgery, mask_surgery *)
(* and lm_head_split together).                                            *)
OperandsKept ==
  pc # "raised" =>
    \A name \in DOMAIN layers :
      LET now == layers[name].in
          was == Inputs(net, <<name[1], name[2]>>)
      IN  /\ DOMAIN now = DOMAIN was
          /\ \A k \in DOMAIN now : Flow(now[k]) = Flow(was[k])

(* Concatenating the outputs in output_layers_order gives the logits of    *)
(* the whole vocabulary, each column once and in its place, in blocks      *)
(* whose widths differ by one at most.                                     *)
LogitsInOrder ==
  pc = "saved" =>
    LET cols(k) == layers[order[k]].cols
        width(k) == Cardinality(cols(k))
    IN  /\ UNION { cols(k) : k \in DOMAIN order } = 0 .. net.vocab - 1
        /\ \A j, k \in DOMAIN order :
             /\ j < k => \A a \in cols(j), b \in cols(k) : a < b
             /\ width(j) - width(k) <= 1

(* Of the layers lm_head_split touches, the .npz has the parameters of     *)
(* those that are in the graph and of no other.                            *)
WeightsFollowLayers ==
  pc = "saved" =>
    { name \in weights : name[1] # "conv" } =
      { name \in DOMAIN layers : name[1] \in {"lm_head", "chain"} }

(* _duplicate_chain_for_shard: "the original normalization layer's own     *)
(* fan-out never needs to exceed 1" -- so above the lm_head, where no      *)
(* product with a norm's weights feeds two layers, its copies included.    *)
(* (Within a block they do: q, k and v, or gate and up.)                   *)
NormalizationFanOut ==
  pc = "saved" =>
    \A name \in DOMAIN layers :
      name[1] = "chain" /\ layers[name].type = "normalization" =>
        Cardinality(layers[name].out) <= 1

(* Surgery ends, with an archive or with an assertion that failed (no mask *)
(* slices, not one for each layer, one with two consumers, a RoPE conv of  *)
(* another width), and an archive is written exactly for the graphs the    *)
(* config fits.                                                            *)
Fits == net.width /\ net.slices = net.nlayers /\ net.blocks = net.slices

SavedIffItFits == <>[](pc = IF Fits THEN "saved" ELSE "raised")
=============================================================================
