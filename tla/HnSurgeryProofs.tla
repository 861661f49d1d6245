--------------------------- MODULE HnSurgeryProofs ---------------------------
(***************************************************************************)
(* Step 3's surgery for graphs of any depth, with any chain above the      *)
(* lm_head and any number of shards: what the graph it writes looks like;  *)
(* and step 4 on that graph: which layers have which role, and what the    *)
(* script of a recipe says.                                                *)
(*                                                                         *)
(* The invariant has a layer's inputs in closed form: what the export gave *)
(* it, with the stand-ins of the names that are gone.  Its consumers are   *)
(* then whoever names it as an input (Linked).                             *)
(***************************************************************************)
EXTENDS Recipe, SequenceTheorems, FiniteSetTheorems, TLAPS

Ropes     == { Conv(i) : i \in 3 .. 6 }
Slices(n) == {"slice"} \X (1 .. n.slices)
Chains(n) == { Chain(j) : j \in 1 .. Len(n.chain) }
Heads(n)  == Chains(n) \cup {LmHead, Logits}
Split(n, shards) == { Copy(x, s) : x \in Heads(n), s \in shards }

(* The layers no surgery but the split touches. *)
Kept(n) == Names(n) \ (Ropes \cup Slices(n))

AllNames(n) == Names(n) \cup Split(n, 0 .. n.shards - 1)

Types == { "input_layer", "conv", "layer_normalization", "ew_mult", "ew_add", "matmul",
           "softmax", "slice", "normalization", "output_layer" }

Layer(n) == [type : Types, in : Seq(AllNames(n)), out : SUBSET AllNames(n), cols : SUBSET Int]

(* What a shard's copy of a name copies. *)
Base(x) == <<x[1], x[2]>>

(* Who takes the place of a name that is not in the graph.                 *)
StandIn(present, x) ==
  IF x \in present THEN x
  ELSE IF x[1] = "conv" THEN Input(x[2])
  ELSE IF x[1] = "slice" THEN Input(2)
  ELSE x

CopyIn(x, shard) == IF x = Norm THEN Norm ELSE Copy(x, shard)

Operands(n, present, x) ==
  IF x \in Names(n)
    THEN [ k \in DOMAIN Inputs(n, x) |-> StandIn(present, Inputs(n, x)[k]) ]
    ELSE [ k \in DOMAIN Inputs(n, Base(x)) |-> CopyIn(Inputs(n, Base(x))[k], x[3]) ]

Columns(n, x) == IF x = LmHead THEN 0 .. n.vocab - 1 ELSE Bound(x[3]) .. Bound(x[3] + 1) - 1

Reads(l, b, a) == \E k \in DOMAIN l[b].in : l[b].in[k] = a

(* Inputs and outputs name each other and nothing else. *)
Linked(l) ==
  \A a \in DOMAIN l :
    /\ l[a].out = { b \in DOMAIN l : Reads(l, b, a) }
    /\ \A k \in DOMAIN l[a].in : l[a].in[k] \in DOMAIN l

LayersInv ==
  /\ net \in Nets
  /\ DOMAIN layers \subseteq AllNames(net)
  /\ layers \in [DOMAIN layers -> Layer(net)]
  /\ \A x \in DOMAIN layers :
       /\ layers[x].in = Operands(net, DOMAIN layers, x)
       /\ layers[x].type = Type(net, Base(x))
       /\ x[1] = "lm_head" => layers[x].cols = Columns(net, x)

(* Where the surgery is, and what it has done by then. *)
Untouched == chain = << >> /\ order = <<LmHead>> /\ weights = Weighted(net)

InRope ==
  /\ pc = "rope" /\ Untouched
  /\ \E m \in 0 .. 4 :
       /\ todo = [ k \in 1 .. 4 - m |-> RopeLayers[m + k] ]
       /\ DOMAIN layers = Names(net) \ { RopeLayers[k][2] : k \in 1 .. m }

InMask ==
  /\ pc = "mask" /\ Untouched
  /\ todo \in Seq(Slices(net)) /\ IsInjective(todo)
  /\ DOMAIN layers = Kept(net) \cup { todo[k] : k \in DOMAIN todo }

Collected(m) == chain = [ j \in 1 .. m |-> Chain(j) ]

InCollect ==
  /\ pc = "collect" /\ todo = << >> /\ order = <<LmHead>> /\ weights = Weighted(net)
  /\ DOMAIN layers = Kept(net)
  /\ \E m \in 0 .. Len(net.chain) : Collected(m)

SplitWeights(shards) == { Copy(x, s) : x \in Chains(net) \cup {LmHead}, s \in shards }

InSplit ==
  /\ pc = "split" /\ order = <<LmHead>> /\ Collected(Len(net.chain))
  /\ \E m \in 0 .. net.shards :
       /\ todo = [ k \in 1 .. net.shards - m |-> m + k - 1 ]
       /\ DOMAIN layers = Kept(net) \cup Split(net, 0 .. m - 1)
       /\ weights = Weighted(net) \cup SplitWeights(0 .. m - 1)

InSave ==
  /\ pc \in {"save", "saved"}
  /\ \/ /\ order = <<LmHead>> /\ weights = Weighted(net) /\ DOMAIN layers = Kept(net)
        /\ net.shards = 1
     \/ /\ order = [ k \in 1 .. net.shards |-> Copy(LmHead, k - 1) ]
        /\ weights = Ropes \cup SplitWeights(0 .. net.shards - 1)
        /\ DOMAIN layers = (Kept(net) \ Heads(net)) \cup Split(net, 0 .. net.shards - 1)

PlaceInv == InRope \/ InMask \/ InCollect \/ InSplit \/ InSave \/ pc = "raised"

(* The graph once input_layer2 is told of its consumers, as at the end of  *)
(* mask_surgery.                                                           *)
Settled == [layers EXCEPT ![Input(2)].out = newOutput]

GraphInv ==
  /\ pc \notin {"mask", "raised"} => Linked(layers)
  /\ pc = "mask" => Linked(Settled)

SurgeryInv == LayersInv /\ GraphInv /\ PlaceInv

-----------------------------------------------------------------------------
(* The exported graph. *)

(* The assumption on a graph, part by part. *)
LEMMA NetTypes ==
  ASSUME NEW n \in Nets
  PROVE  /\ n.blocks \in Nat \ {0} /\ n.slices \in 0 .. n.blocks
         /\ n.vocab \in Nat /\ n.shards \in 1 .. n.vocab
         /\ n.chain \in Seq({"slice", "normalization"}) /\ Len(n.chain) \in Nat \ {0}
         /\ \A j \in 1 .. Len(n.chain) : n.chain[j] \in {"slice", "normalization"}
<1>1. n.chain \in Seq({"slice", "normalization"}) /\ n.chain # << >>
  BY NetsAssumption
<1>2. Len(n.chain) \in Nat \ {0}
  BY <1>1, EmptySeq, LenProperties
<1>3. \A j \in 1 .. Len(n.chain) : n.chain[j] \in {"slice", "normalization"}
  BY <1>1, ElementOfSeq
<1>. QED BY <1>1, <1>2, <1>3, NetsAssumption

(* The kinds of a block's layers, and those that are none. *)
LEMMA BlockKinds ==
  DOMAIN BlockTypes =
    { "attn_norm", "attn_scale", "q_proj", "k_proj", "v_proj", "q_rotate",
      "k_rotate", "q_cos", "q_sin", "k_cos", "k_sin", "q_rope", "k_rope",
      "repeat_k", "repeat_v", "qk", "ew_add", "softmax", "av", "o_proj",
      "attn_add", "mlp_norm", "mlp_scale", "gate", "up", "swiglu", "down",
      "mlp_add" }
BY DEF BlockTypes

(* The definition, one field at a time. *)
LEMMA BlockInputsAre ==
  ASSUME NEW n, NEW b
  PROVE  /\ BlockInputs(n, b)["attn_norm"] = <<Before(b)>>
         /\ BlockInputs(n, b)["attn_scale"] = <<<<"attn_norm", b>>>>
         /\ BlockInputs(n, b)["q_proj"] = <<<<"attn_scale", b>>>>
         /\ BlockInputs(n, b)["k_proj"] = <<<<"attn_scale", b>>>>
         /\ BlockInputs(n, b)["v_proj"] = <<<<"attn_scale", b>>>>
         /\ BlockInputs(n, b)["q_rotate"] = <<<<"q_proj", b>>>>
         /\ BlockInputs(n, b)["k_rotate"] = <<<<"k_proj", b>>>>
         /\ BlockInputs(n, b)["q_cos"] = <<<<"q_proj", b>>, Conv(4)>>
         /\ BlockInputs(n, b)["q_sin"] = <<<<"q_rotate", b>>, Conv(6)>>
         /\ BlockInputs(n, b)["k_cos"] = <<<<"k_proj", b>>, Conv(3)>>
         /\ BlockInputs(n, b)["k_sin"] = <<<<"k_rotate", b>>, Conv(5)>>
         /\ BlockInputs(n, b)["q_rope"] = <<<<"q_cos", b>>, <<"q_sin", b>>>>
         /\ BlockInputs(n, b)["k_rope"] = <<<<"k_cos", b>>, <<"k_sin", b>>>>
         /\ BlockInputs(n, b)["repeat_k"] = <<<<"k_rope", b>>>>
         /\ BlockInputs(n, b)["repeat_v"] = <<<<"v_proj", b>>>>
         /\ BlockInputs(n, b)["qk"] = <<<<"q_rope", b>>, <<"repeat_k", b>>>>
         /\ BlockInputs(n, b)["ew_add"] = <<<<"qk", b>>, SliceOf(n, b)>>
         /\ BlockInputs(n, b)["softmax"] = <<<<"ew_add", b>>>>
         /\ BlockInputs(n, b)["av"] = <<<<"softmax", b>>, <<"repeat_v", b>>>>
         /\ BlockInputs(n, b)["o_proj"] = <<<<"av", b>>>>
         /\ BlockInputs(n, b)["attn_add"] = <<Before(b), <<"o_proj", b>>>>
         /\ BlockInputs(n, b)["mlp_norm"] = <<<<"attn_add", b>>>>
         /\ BlockInputs(n, b)["mlp_scale"] = <<<<"mlp_norm", b>>>>
         /\ BlockInputs(n, b)["gate"] = <<<<"mlp_scale", b>>>>
         /\ BlockInputs(n, b)["up"] = <<<<"mlp_scale", b>>>>
         /\ BlockInputs(n, b)["swiglu"] = <<<<"gate", b>>, <<"up", b>>>>
         /\ BlockInputs(n, b)["down"] = <<<<"swiglu", b>>>>
         /\ BlockInputs(n, b)["mlp_add"] = <<<<"attn_add", b>>, <<"down", b>>>>
BY DEF BlockInputs

RopeMults == {"q_cos", "q_sin", "k_cos", "k_sin"}

(* Either place of a pair. *)
LEMMA PairPlaces ==
  ASSUME NEW y, NEW z, NEW k \in DOMAIN <<y, z>>
  PROVE  <<y, z>>[k] \in {y, z}
OBVIOUS

(* A layer of a block reads its block, the one before, or what comes in.   *)
LEMMA BlockOperands ==
  ASSUME NEW n, NEW b, NEW kind \in DOMAIN BlockTypes,
         NEW k \in DOMAIN BlockInputs(n, b)[kind], NEW y, y = BlockInputs(n, b)[kind][k]
  PROVE  \/ \E other \in DOMAIN BlockTypes : y = <<other, b>>
         \/ y = Before(b) /\ kind \in {"attn_norm", "attn_add"}
         \/ kind \in RopeMults /\ y \in Ropes
         \/ kind = "ew_add" /\ y = SliceOf(n, b)
<1>1. CASE kind = "attn_norm"
  BY <1>1, BlockKinds, BlockInputsAre
<1>2. CASE kind = "attn_scale"
  BY <1>2, BlockKinds, BlockInputsAre
<1>3. CASE kind = "q_proj"
  BY <1>3, BlockKinds, BlockInputsAre
<1>4. CASE kind = "k_proj"
  BY <1>4, BlockKinds, BlockInputsAre
<1>5. CASE kind = "v_proj"
  BY <1>5, BlockKinds, BlockInputsAre
<1>6. CASE kind = "q_rotate"
  BY <1>6, BlockKinds, BlockInputsAre
<1>7. CASE kind = "k_rotate"
  BY <1>7, BlockKinds, BlockInputsAre
<1>8. CASE kind = "q_cos"
  <2>1. BlockInputs(n, b)[kind] = <<<<"q_proj", b>>, Conv(4)>>
    BY <1>8, BlockInputsAre
  <2>2. y \in {<<"q_proj", b>>, Conv(4)}
    BY <2>1, PairPlaces
  <2>. QED BY <1>8, <2>2, BlockKinds DEF Ropes, RopeMults
<1>9. CASE kind = "q_sin"
  <2>1. BlockInputs(n, b)[kind] = <<<<"q_rotate", b>>, Conv(6)>>
    BY <1>9, BlockInputsAre
  <2>2. y \in {<<"q_rotate", b>>, Conv(6)}
    BY <2>1, PairPlaces
  <2>. QED BY <1>9, <2>2, BlockKinds DEF Ropes, RopeMults
<1>10. CASE kind = "k_cos"
  <2>1. BlockInputs(n, b)[kind] = <<<<"k_proj", b>>, Conv(3)>>
    BY <1>10, BlockInputsAre
  <2>2. y \in {<<"k_proj", b>>, Conv(3)}
    BY <2>1, PairPlaces
  <2>. QED BY <1>10, <2>2, BlockKinds DEF Ropes, RopeMults
<1>11. CASE kind = "k_sin"
  <2>1. BlockInputs(n, b)[kind] = <<<<"k_rotate", b>>, Conv(5)>>
    BY <1>11, BlockInputsAre
  <2>2. y \in {<<"k_rotate", b>>, Conv(5)}
    BY <2>1, PairPlaces
  <2>. QED BY <1>11, <2>2, BlockKinds DEF Ropes, RopeMults
<1>12. CASE kind = "q_rope"
  <2>1. BlockInputs(n, b)[kind] = <<<<"q_cos", b>>, <<"q_sin", b>>>>
    BY <1>12, BlockInputsAre
  <2>2. y \in {<<"q_cos", b>>, <<"q_sin", b>>}
    BY <2>1, PairPlaces
  <2>. QED BY <1>12, <2>2, BlockKinds
<1>13. CASE kind = "k_rope"
  <2>1. BlockInputs(n, b)[kind] = <<<<"k_cos", b>>, <<"k_sin", b>>>>
    BY <1>13, BlockInputsAre
  <2>2. y \in {<<"k_cos", b>>, <<"k_sin", b>>}
    BY <2>1, PairPlaces
  <2>. QED BY <1>13, <2>2, BlockKinds
<1>14. CASE kind = "repeat_k"
  BY <1>14, BlockKinds, BlockInputsAre
<1>15. CASE kind = "repeat_v"
  BY <1>15, BlockKinds, BlockInputsAre
<1>16. CASE kind = "qk"
  <2>1. BlockInputs(n, b)[kind] = <<<<"q_rope", b>>, <<"repeat_k", b>>>>
    BY <1>16, BlockInputsAre
  <2>2. y \in {<<"q_rope", b>>, <<"repeat_k", b>>}
    BY <2>1, PairPlaces
  <2>. QED BY <1>16, <2>2, BlockKinds
<1>17. CASE kind = "ew_add"
  <2>1. BlockInputs(n, b)[kind] = <<<<"qk", b>>, SliceOf(n, b)>>
    BY <1>17, BlockInputsAre
  <2>2. y \in {<<"qk", b>>, SliceOf(n, b)}
    BY <2>1, PairPlaces
  <2>. QED BY <1>17, <2>2, BlockKinds
<1>18. CASE kind = "softmax"
  BY <1>18, BlockKinds, BlockInputsAre
<1>19. CASE kind = "av"
  <2>1. BlockInputs(n, b)[kind] = <<<<"softmax", b>>, <<"repeat_v", b>>>>
    BY <1>19, BlockInputsAre
  <2>2. y \in {<<"softmax", b>>, <<"repeat_v", b>>}
    BY <2>1, PairPlaces
  <2>. QED BY <1>19, <2>2, BlockKinds
<1>20. CASE kind = "o_proj"
  BY <1>20, BlockKinds, BlockInputsAre
<1>21. CASE kind = "attn_add"
  <2>1. BlockInputs(n, b)[kind] = <<Before(b), <<"o_proj", b>>>>
    BY <1>21, BlockInputsAre
  <2>2. y \in {Before(b), <<"o_proj", b>>}
    BY <2>1, PairPlaces
  <2>. QED BY <1>21, <2>2, BlockKinds
<1>22. CASE kind = "mlp_norm"
  BY <1>22, BlockKinds, BlockInputsAre
<1>23. CASE kind = "mlp_scale"
  BY <1>23, BlockKinds, BlockInputsAre
<1>24. CASE kind = "gate"
  BY <1>24, BlockKinds, BlockInputsAre
<1>25. CASE kind = "up"
  BY <1>25, BlockKinds, BlockInputsAre
<1>26. CASE kind = "swiglu"
  <2>1. BlockInputs(n, b)[kind] = <<<<"gate", b>>, <<"up", b>>>>
    BY <1>26, BlockInputsAre
  <2>2. y \in {<<"gate", b>>, <<"up", b>>}
    BY <2>1, PairPlaces
  <2>. QED BY <1>26, <2>2, BlockKinds
<1>27. CASE kind = "down"
  BY <1>27, BlockKinds, BlockInputsAre
<1>28. CASE kind = "mlp_add"
  <2>1. BlockInputs(n, b)[kind] = <<<<"attn_add", b>>, <<"down", b>>>>
    BY <1>28, BlockInputsAre
  <2>2. y \in {<<"attn_add", b>>, <<"down", b>>}
    BY <2>1, PairPlaces
  <2>. QED BY <1>28, <2>2, BlockKinds
<1>. QED BY <1>1, <1>2, <1>3, <1>4, <1>5, <1>6, <1>7, <1>8, <1>9, <1>10, <1>11, <1>12, <1>13, <1>14,
            <1>15, <1>16, <1>17, <1>18, <1>19, <1>20, <1>21, <1>22, <1>23, <1>24, <1>25, <1>26, <1>27, <1>28, BlockKinds

(* Names by their kind. *)
LEMMA NamesAre ==
  ASSUME NEW n, NEW x
  PROVE  x \in Names(n) <=>
           \/ \E i \in 1 .. 6 : x = Input(i)
           \/ x \in Ropes
           \/ x \in (DOMAIN BlockTypes) \X (1 .. n.blocks)
           \/ x \in Slices(n)
           \/ x \in Heads(n)
           \/ x = Norm
BY DEF Names, Ropes, Slices, Heads, Chains

(* What the export gives each layer to read. *)
LEMMA InputsAre ==
  ASSUME NEW n
  PROVE  /\ \A i : Inputs(n, Input(i)) = << >>
         /\ \A i : Inputs(n, Conv(i)) = <<Input(i)>>
         /\ \A i : Inputs(n, <<"slice", i>>) = <<Input(2)>>
         /\ \A j : Inputs(n, Chain(j)) = <<Above(n, j)>>
         /\ Inputs(n, Norm) = <<<<"mlp_add", n.blocks>>>>
         /\ Inputs(n, LmHead) = <<Chain(1)>>
         /\ Inputs(n, Logits) = <<LmHead>>
         /\ \A kind \in DOMAIN BlockTypes : \A b :
              Inputs(n, <<kind, b>>) = BlockInputs(n, b)[kind]
<1>1. \A i : Inputs(n, Input(i)) = << >>
  BY BlockKinds DEF Inputs, Input, EndInputs
<1>2. \A i : Inputs(n, Conv(i)) = <<Input(i)>>
  BY BlockKinds DEF Inputs, Conv, EndInputs
<1>3. \A i : Inputs(n, <<"slice", i>>) = <<Input(2)>>
  BY BlockKinds DEF Inputs, EndInputs
<1>4. \A j : Inputs(n, Chain(j)) = <<Above(n, j)>>
  BY BlockKinds DEF Inputs, Chain, EndInputs
<1>5. Inputs(n, Norm) = <<<<"mlp_add", n.blocks>>>>
  BY BlockKinds DEF Inputs, Norm, EndInputs
<1>6. Inputs(n, LmHead) = <<Chain(1)>>
  BY BlockKinds DEF Inputs, LmHead, EndInputs
<1>7. Inputs(n, Logits) = <<LmHead>>
  BY BlockKinds DEF Inputs, Logits, EndInputs
<1>8. ASSUME NEW kind \in DOMAIN BlockTypes, NEW b
      PROVE  Inputs(n, <<kind, b>>) = BlockInputs(n, b)[kind]
  BY DEF Inputs
<1>. QED BY <1>1, <1>2, <1>3, <1>4, <1>5, <1>6, <1>7, <1>8

(* What the export makes of each layer. *)
LEMMA TypesAre ==
  ASSUME NEW n
  PROVE  /\ \A i : Type(n, Input(i)) = "input_layer"
         /\ \A i : Type(n, Conv(i)) = "conv"
         /\ \A i : Type(n, <<"slice", i>>) = "slice"
         /\ \A j : Type(n, Chain(j)) = n.chain[j]
         /\ Type(n, Norm) = "layer_normalization"
         /\ Type(n, LmHead) = "conv" /\ Type(n, Logits) = "output_layer"
         /\ \A kind \in DOMAIN BlockTypes : \A b : Type(n, <<kind, b>>) = BlockTypes[kind]
<1>1. \A i : Type(n, Input(i)) = "input_layer"
  BY BlockKinds DEF Type, Input, LmHead
<1>2. \A i : Type(n, Conv(i)) = "conv"
  BY BlockKinds DEF Type, Conv, LmHead
<1>3. \A i : Type(n, <<"slice", i>>) = "slice"
  BY BlockKinds DEF Type, LmHead
<1>4. \A j : Type(n, Chain(j)) = n.chain[j]
  BY BlockKinds DEF Type, Chain
<1>5. Type(n, Norm) = "layer_normalization"
  BY BlockKinds DEF Type, Norm, LmHead
<1>6. Type(n, LmHead) = "conv" /\ Type(n, Logits) = "output_layer"
  BY BlockKinds DEF Type, LmHead, Logits
<1>7. \A kind \in DOMAIN BlockTypes : \A b : Type(n, <<kind, b>>) = BlockTypes[kind]
  BY DEF Type
<1>. QED BY <1>1, <1>2, <1>3, <1>4, <1>5, <1>6, <1>7

(* Who reads what in the exported graph. *)
LEMMA WhoReads ==
  ASSUME NEW n \in Nets, NEW x \in Names(n), NEW k \in DOMAIN Inputs(n, x), NEW y, y = Inputs(n, x)[k]
  PROVE  /\ y \in Names(n) /\ y # Logits
         /\ \A i \in 3 .. 6 : y = Input(i) => x = Conv(i)
         /\ y = Input(2) => x \in Slices(n) \cup ({"ew_add"} \X (1 .. n.blocks))
         /\ y \in Slices(n) => x \in {"ew_add"} \X (1 .. n.blocks)
         /\ y \in Ropes => x \in RopeMults \X (1 .. n.blocks)
         /\ \A j : y = Chain(j) => x = IF j = 1 THEN LmHead ELSE Chain(j - 1)
         /\ y = LmHead => x = Logits
         /\ y = Norm => x = Chain(Len(n.chain))
<1>. DEFINE Ok == /\ y \in Names(n) /\ y # Logits
                  /\ \A i \in 3 .. 6 : y = Input(i) => x = Conv(i)
                  /\ y = Input(2) => x \in Slices(n) \cup ({"ew_add"} \X (1 .. n.blocks))
                  /\ y \in Slices(n) => x \in {"ew_add"} \X (1 .. n.blocks)
                  /\ y \in Ropes => x \in RopeMults \X (1 .. n.blocks)
                  /\ \A j : y = Chain(j) => x = IF j = 1 THEN LmHead ELSE Chain(j - 1)
                  /\ y = LmHead => x = Logits
                  /\ y = Norm => x = Chain(Len(n.chain))
<1>0. n.blocks \in Nat \ {0} /\ n.slices \in 0 .. n.blocks /\ Len(n.chain) \in Nat \ {0}
  BY NetTypes
<1>1. CASE \E i \in 1 .. 6 : x = Input(i)
  <2>1. Inputs(n, x) = << >>
    BY <1>1, InputsAre
  <2>. QED BY <2>1
<1>2. CASE x \in Ropes
  <2>1. PICK i \in 3 .. 6 : x = Conv(i)
    BY <1>2 DEF Ropes
  <2>2. y = Input(i)
    <3>1. Inputs(n, x) = <<Input(i)>>
      BY <2>1, InputsAre
    <3>. QED BY <3>1
  <2>. QED BY <2>1, <2>2, NamesAre DEF Input, Logits, Slices, Ropes, Conv, Chain, LmHead, Norm
<1>3. CASE x \in (DOMAIN BlockTypes) \X (1 .. n.blocks)
  <2>1. PICK kind \in DOMAIN BlockTypes, b \in 1 .. n.blocks : x = <<kind, b>>
    BY <1>3
  <2>2. Inputs(n, x) = BlockInputs(n, b)[kind]
    BY <2>1, InputsAre
  <2>3. \/ \E other \in DOMAIN BlockTypes : y = <<other, b>>
        \/ y = Before(b) /\ kind \in {"attn_norm", "attn_add"}
        \/ kind \in RopeMults /\ y \in Ropes
        \/ kind = "ew_add" /\ y = SliceOf(n, b)
    BY <2>2, BlockOperands
  <2>4. CASE \E other \in DOMAIN BlockTypes : y = <<other, b>>
    <3>1. y \in Names(n)
      BY <2>4, NamesAre
    <3>. QED BY <2>4, <3>1, BlockKinds DEF Input, Logits, Slices, Ropes, Conv, Chain, LmHead, Norm
  <2>5. CASE y = Before(b)
    <3>1. y = Input(1) \/ y \in (DOMAIN BlockTypes) \X (1 .. n.blocks)
      BY <1>0, <2>5, BlockKinds DEF Before
    <3>2. y \in Names(n)
      BY <3>1, NamesAre
    <3>. QED BY <3>1, <3>2, BlockKinds DEF Input, Logits, Slices, Ropes, Conv, Chain, LmHead, Norm
  <2>6. CASE kind \in RopeMults /\ y \in Ropes
    BY <2>1, <2>6, NamesAre DEF Input, Logits, Slices, Ropes, Conv, Chain, LmHead, Norm
  <2>7. CASE kind = "ew_add" /\ y = SliceOf(n, b)
    <3>1. x \in {"ew_add"} \X (1 .. n.blocks)
      BY <2>1, <2>7
    <3>2. CASE n.slices = 0
      <4>1. y = Input(2) /\ y \in Names(n)
        BY <2>7, <3>2, NamesAre DEF SliceOf
      <4>. QED BY <3>1, <4>1 DEF Input, Logits, Slices, Ropes, Conv, Chain, LmHead, Norm
    <3>3. CASE n.slices # 0
      <4>1. PICK i \in 1 .. n.slices : y = <<"slice", i>>
        BY <1>0, <2>7, <3>3 DEF SliceOf
      <4>2. y \in Slices(n) /\ y \in Names(n)
        BY <4>1, NamesAre DEF Slices
      <4>. QED BY <3>1, <4>1, <4>2 DEF Input, Logits, Ropes, Conv, Chain, LmHead, Norm
    <3>. QED BY <3>2, <3>3
  <2>. QED BY <2>3, <2>4, <2>5, <2>6, <2>7
<1>4. CASE x \in Slices(n)
  <2>1. y = Input(2)
    <3>1. PICK i \in 1 .. n.slices : x = <<"slice", i>>
      BY <1>4 DEF Slices
    <3>2. Inputs(n, x) = <<Input(2)>>
      BY <3>1, InputsAre
    <3>. QED BY <3>2
  <2>. QED BY <1>4, <2>1, NamesAre DEF Input, Logits, Slices, Ropes, Conv, Chain, LmHead, Norm
<1>5. CASE x \in Chains(n)
  <2>1. PICK j \in 1 .. Len(n.chain) : x = Chain(j)
    BY <1>5 DEF Chains
  <2>2. y = Above(n, j)
    <3>1. Inputs(n, x) = <<Above(n, j)>>
      BY <2>1, InputsAre
    <3>. QED BY <3>1
  <2>3. CASE j = Len(n.chain)
    <3>1. y = Norm
      BY <2>2, <2>3 DEF Above
    <3>. QED BY <2>1, <2>3, <3>1, NamesAre DEF Input, Logits, Slices, Ropes, Conv, Chain, LmHead, Norm
  <2>4. CASE j # Len(n.chain)
    <3>1. y = Chain(j + 1) /\ j + 1 \in 1 .. Len(n.chain) /\ (j + 1) - 1 = j /\ j + 1 # 1
      BY <1>0, <2>2, <2>4 DEF Above
    <3>2. y \in Heads(n)
      BY <3>1 DEF Heads, Chains
    <3>. QED BY <2>1, <3>1, <3>2, NamesAre DEF Input, Logits, Slices, Ropes, Conv, Chain, LmHead, Norm
  <2>. QED BY <2>3, <2>4
<1>6. CASE x = Norm
  <2>1. y = <<"mlp_add", n.blocks>>
    <3>1. Inputs(n, x) = <<<<"mlp_add", n.blocks>>>>
      BY <1>6, InputsAre
    <3>. QED BY <3>1
  <2>2. y \in (DOMAIN BlockTypes) \X (1 .. n.blocks)
    BY <1>0, <2>1, BlockKinds
  <2>. QED BY <2>1, <2>2, NamesAre DEF Input, Logits, Slices, Ropes, Conv, Chain, LmHead, Norm
<1>7. CASE x = LmHead
  <2>1. y = Chain(1)
    <3>1. Inputs(n, x) = <<Chain(1)>>
      BY <1>7, InputsAre
    <3>. QED BY <3>1
  <2>2. y \in Heads(n)
    BY <1>0, <2>1 DEF Heads, Chains
  <2>. QED BY <1>7, <2>1, <2>2, NamesAre DEF Input, Logits, Slices, Ropes, Conv, Chain, LmHead, Norm
<1>8. CASE x = Logits
  <2>1. y = LmHead
    <3>1. Inputs(n, x) = <<LmHead>>
      BY <1>8, InputsAre
    <3>. QED BY <3>1
  <2>. QED BY <1>8, <2>1, NamesAre DEF Heads, Input, Logits, Slices, Ropes, Conv, Chain, LmHead, Norm
<1>. QED BY <1>1, <1>2, <1>3, <1>4, <1>5, <1>6, <1>7, <1>8, NamesAre DEF Heads
(* A layer reads a sequence of names. *)
LEMMA InputsAreSequences ==
  ASSUME NEW n \in Nets, NEW x \in Names(n)
  PROVE  Inputs(n, x) \in Seq(Names(n))
<1>1. ASSUME NEW b, NEW kind \in DOMAIN BlockTypes
      PROVE  \E m \in Nat : BlockInputs(n, b)[kind] = [k \in 1 .. m |-> BlockInputs(n, b)[kind][k]]
  <2>. DEFINE Tuple(m) == BlockInputs(n, b)[kind] = [k \in 1 .. m |-> BlockInputs(n, b)[kind][k]]
  <2>1. CASE kind \in {"attn_norm", "attn_scale", "q_proj", "k_proj", "v_proj",
                       "q_rotate", "k_rotate", "repeat_k", "repeat_v", "softmax",
                       "o_proj", "mlp_norm", "mlp_scale", "gate", "up", "down"}
    <3>1. \E y : BlockInputs(n, b)[kind] = <<y>>
      BY <2>1, BlockInputsAre
    <3>2. Tuple(1)
      BY <3>1
    <3>. QED BY <3>2
  <2>2. CASE kind \in {"q_cos", "q_sin", "k_cos", "k_sin", "q_rope", "k_rope", "qk",
                       "ew_add", "av", "attn_add", "swiglu", "mlp_add"}
    <3>1. \E y, z : BlockInputs(n, b)[kind] = <<y, z>>
      BY <2>2, BlockInputsAre
    <3>2. Tuple(2)
      BY <3>1
    <3>. QED BY <3>2
  <2>. QED BY <2>1, <2>2, BlockKinds
<1>2. \E m \in Nat : Inputs(n, x) = [k \in 1 .. m |-> Inputs(n, x)[k]]
  <2>. DEFINE Tuple(m) == Inputs(n, x) = [k \in 1 .. m |-> Inputs(n, x)[k]]
  <2>1. CASE x \in (DOMAIN BlockTypes) \X (1 .. n.blocks)
    <3>1. PICK kind \in DOMAIN BlockTypes, b \in 1 .. n.blocks : x = <<kind, b>>
      BY <2>1
    <3>2. Inputs(n, x) = BlockInputs(n, b)[kind]
      BY <3>1, InputsAre
    <3>3. PICK m \in Nat : BlockInputs(n, b)[kind] = [k \in 1 .. m |-> BlockInputs(n, b)[kind][k]]
      BY <1>1
    <3>4. Tuple(m)
      BY <3>2, <3>3
    <3>. QED BY <3>4
  <2>2. CASE \E i \in 1 .. 6 : x = Input(i)
    <3>1. Inputs(n, x) = << >>
      BY <2>2, InputsAre
    <3>2. Tuple(0)
      BY <3>1
    <3>. QED BY <3>2
  <2>3. CASE x \in Ropes \cup Slices(n) \cup Heads(n) \cup {Norm}
    <3>1. \E y : Inputs(n, x) = <<y>>
      <4>1. CASE x \in Ropes
        <5>1. PICK i \in 3 .. 6 : x = Conv(i)
          BY <4>1 DEF Ropes
        <5>. QED BY <5>1, InputsAre
      <4>2. CASE x \in Slices(n)
        <5>1. PICK i \in 1 .. n.slices : x = <<"slice", i>>
          BY <4>2 DEF Slices
        <5>. QED BY <5>1, InputsAre
      <4>3. CASE x \in Chains(n)
        <5>1. PICK j \in 1 .. Len(n.chain) : x = Chain(j)
          BY <4>3 DEF Chains
        <5>. QED BY <5>1, InputsAre
      <4>4. CASE x \in {LmHead, Logits, Norm}
        BY <4>4, InputsAre
      <4>. QED BY <2>3, <4>1, <4>2, <4>3, <4>4 DEF Heads
    <3>2. Tuple(1)
      BY <3>1
    <3>. QED BY <3>2
  <2>. QED BY <2>1, <2>2, <2>3, NamesAre
<1>3. PICK m \in Nat : Inputs(n, x) = [k \in 1 .. m |-> Inputs(n, x)[k]]
  BY <1>2
<1>4. DOMAIN Inputs(n, x) = 1 .. m
  BY <1>3
<1>5. \A k \in 1 .. m : Inputs(n, x)[k] \in Names(n)
  BY <1>4, WhoReads
<1>. QED BY <1>3, <1>5

(* Names, copies, and what they copy. *)
LEMMA NamesArePairs ==
  ASSUME NEW n, NEW x \in Names(n)
  PROVE  x = Base(x)
<1>1. CASE x \in (DOMAIN BlockTypes) \X (1 .. n.blocks)
  BY <1>1 DEF Base
<1>2. CASE x \in Slices(n)
  BY <1>2 DEF Base, Slices
<1>3. CASE x \in Heads(n) \cup Ropes \cup {Norm}
  BY <1>3 DEF Base, Heads, Chains, Ropes, Chain, Conv, LmHead, Logits, Norm
<1>4. CASE \E i \in 1 .. 6 : x = Input(i)
  BY <1>4 DEF Base, Input
<1>. QED BY <1>1, <1>2, <1>3, <1>4, NamesAre

(* A copy is told from what it copies, and from other copies. *)
LEMMA CopiesAre ==
  ASSUME NEW n, NEW x \in Heads(n), NEW s
  PROVE  /\ Base(Copy(x, s)) = x /\ Copy(x, s)[3] = s /\ Copy(x, s)[1] = x[1]
         /\ Copy(x, s) \notin Names(n)
<1>1. x \in Names(n)
  BY NamesAre
<1>2. x = Base(x)
  BY <1>1, NamesArePairs
<1>3. Base(Copy(x, s)) = Base(x) /\ Copy(x, s)[3] = s /\ Copy(x, s)[1] = x[1]
  BY DEF Base, Copy
<1>4. ASSUME Copy(x, s) \in Names(n) PROVE FALSE
  <2>1. Copy(x, s) = Base(Copy(x, s))
    BY <1>4, NamesArePairs
  <2>. QED BY <2>1 DEF Copy, Base
<1>. QED BY <1>2, <1>3, <1>4

(* Copies of different names, or for different shards, are different.      *)
LEMMA CopiesDiffer ==
  ASSUME NEW n, NEW x \in Heads(n), NEW s, NEW y \in Heads(n), NEW t, Copy(x, s) = Copy(y, t)
  PROVE  x = y /\ s = t
BY CopiesAre
(* Every layer has one of the types. *)
LEMMA TypesAreTypes ==
  ASSUME NEW n \in Nets, NEW x \in Names(n)
  PROVE  Type(n, x) \in Types
<1>1. CASE \E i \in 1 .. 6 : x = Input(i)
  <2>1. Type(n, x) = "input_layer"
    BY <1>1, TypesAre
  <2>. QED BY <2>1 DEF Types
<1>2. CASE x \in Ropes
  <2>1. PICK i \in 3 .. 6 : x = Conv(i)
    BY <1>2 DEF Ropes
  <2>2. Type(n, x) = "conv"
    BY <2>1, TypesAre
  <2>. QED BY <2>2 DEF Types
<1>3. CASE x \in (DOMAIN BlockTypes) \X (1 .. n.blocks)
  <2>1. PICK kind \in DOMAIN BlockTypes, b \in 1 .. n.blocks : x = <<kind, b>>
    BY <1>3
  <2>2. Type(n, x) = BlockTypes[kind]
    BY <2>1, TypesAre
  <2>3. BlockTypes[kind] \in Types
    BY BlockKinds DEF BlockTypes, Types
  <2>. QED BY <2>2, <2>3
<1>4. CASE x \in Slices(n)
  <2>1. PICK i \in 1 .. n.slices : x = <<"slice", i>>
    BY <1>4 DEF Slices
  <2>. QED BY <2>1, TypesAre DEF Types
<1>5. CASE x \in Chains(n)
  <2>1. PICK j \in 1 .. Len(n.chain) : x = Chain(j)
    BY <1>5 DEF Chains
  <2>2. Type(n, x) = n.chain[j] /\ n.chain[j] \in {"slice", "normalization"}
    BY <2>1, TypesAre, NetTypes
  <2>. QED BY <2>2 DEF Types
<1>6. CASE x \in {LmHead, Logits, Norm}
  BY <1>6, TypesAre DEF Types
<1>. QED BY <1>1, <1>2, <1>3, <1>4, <1>5, <1>6, NamesAre DEF Heads

(* The invariant holds for the parsed graph. *)
LEMMA SurgeryStarts == Init => SurgeryInv
<1>. SUFFICES ASSUME Init PROVE SurgeryInv
  OBVIOUS
<1>. DEFINE in == [ x \in Names(net) |-> Inputs(net, x) ]
            out(a) == { b \in Names(net) : \E k \in DOMAIN in[b] : in[b][k] = a }
            cols(a) == IF a = LmHead THEN 0 .. net.vocab - 1 ELSE {}
<1>1. net \in Nets
  BY DEF Init
<1>2. /\ DOMAIN layers = Names(net)
      /\ layers = [ x \in Names(net) |->
                      [type |-> Type(net, x), in |-> in[x], out |-> out(x), cols |-> cols(x)] ]
  BY DEF Init, Parsed
<1>. HIDE DEF out, cols
<1>3. \A x \in Names(net) :
        /\ layers[x].type = Type(net, x) /\ layers[x].in = Inputs(net, x)
        /\ layers[x].out = out(x) /\ layers[x].cols = cols(x)
  BY <1>2
<1>4. \A a \in Names(net) :
        /\ out(a) = { b \in Names(net) : Reads(layers, b, a) }
        /\ out(a) \subseteq Names(net)
  BY <1>3 DEF out, Reads
<1>5. Linked(layers)
  BY <1>1, <1>2, <1>3, <1>4, WhoReads DEF Linked
<1>6. \A x \in Names(net) : x = Base(x) /\ x \in AllNames(net)
  BY NamesArePairs DEF AllNames
<1>7. layers \in [Names(net) -> Layer(net)]
  <2>1. \A x \in Names(net) : Inputs(net, x) \in Seq(AllNames(net))
    BY <1>1, InputsAreSequences DEF AllNames
  <2>2. \A x \in Names(net) : Type(net, x) \in Types
    BY <1>1, TypesAreTypes
  <2>3. \A x \in Names(net) : cols(x) \in SUBSET Int
    BY <1>1, NetTypes DEF cols
  <2>4. \A x \in Names(net) : out(x) \in SUBSET AllNames(net)
    BY <1>4, <1>6
  <2>5. ASSUME NEW x \in Names(net)
        PROVE  [type |-> Type(net, x), in |-> in[x], out |-> out(x), cols |-> cols(x)] \in Layer(net)
    BY <2>1, <2>2, <2>3, <2>4 DEF Layer
  <2>. QED BY <1>2, <2>5
<1>8. ASSUME NEW x \in Names(net) PROVE Operands(net, Names(net), x) = Inputs(net, x)
  <2>1. Inputs(net, x) \in Seq(Names(net))
    BY <1>1, InputsAreSequences
  <2>2. \A k \in DOMAIN Inputs(net, x) : Inputs(net, x)[k] \in Names(net)
    BY <1>1, WhoReads
  <2>. QED BY <2>1, <2>2 DEF Operands, StandIn
<1>9. \A x \in Names(net) : x[1] = "lm_head" => x = LmHead
  <2>1. \A x \in Names(net) : x[1] = "lm_head" => x \in Heads(net)
    BY NamesAre, BlockKinds DEF Input, Ropes, Conv, Slices, Norm
  <2>. QED BY <2>1 DEF Heads, Chains, Chain, Logits
<1>10. LayersInv
  BY <1>1, <1>2, <1>3, <1>6, <1>7, <1>8, <1>9 DEF LayersInv, Columns, cols
<1>11. InRope
  <2>1. RopeLayers = [ k \in 1 .. 4 - 0 |-> RopeLayers[0 + k] ]
    BY DEF RopeLayers
  <2>2. Names(net) = Names(net) \ { RopeLayers[k][2] : k \in 1 .. 0 }
    OBVIOUS
  <2>. QED BY <1>2, <2>1, <2>2 DEF Init, InRope, Untouched
<1>12. GraphInv
  BY <1>5 DEF GraphInv, Init
<1>. QED BY <1>10, <1>11, <1>12 DEF SurgeryInv, PlaceInv

-----------------------------------------------------------------------------
(* One layer takes the place of another. *)

(* a, the only input of c, takes over the consumers of c, which goes.      *)
LEMMA TakesOver ==
  ASSUME NEW l, Linked(l), NEW a \in DOMAIN l, NEW c \in DOMAIN l, a # c, l[c].in = <<a>>,
         NEW m, DOMAIN m = DOMAIN l \ {c},
         \A x \in DOMAIN m : m[x].in = Replace(l[x].in, c, a),
         m[a].out = (l[a].out \ {c}) \cup l[c].out,
         \A x \in DOMAIN m \ {a} : m[x].out = l[x].out
  PROVE  Linked(m)
<1>1. /\ \A x \in DOMAIN l : l[x].out = { b \in DOMAIN l : Reads(l, b, x) }
      /\ \A b \in DOMAIN l : \A k \in DOMAIN l[b].in : l[b].in[k] \in DOMAIN l
  BY DEF Linked
<1>2. \A x : Reads(l, c, x) <=> x = a
  BY DEF Reads
<1>3. ASSUME NEW b \in DOMAIN m
      PROVE  /\ DOMAIN m[b].in = DOMAIN l[b].in
             /\ \A k \in DOMAIN m[b].in : m[b].in[k] = Swap(l[b].in[k], c, a)
  BY <1>3 DEF Replace
<1>4. ASSUME NEW b \in DOMAIN m, NEW x \in DOMAIN m
      PROVE  Reads(m, b, x) <=> (Reads(l, b, x) \/ (x = a /\ Reads(l, b, c)))
  <2>0. x # c /\ DOMAIN m[b].in = DOMAIN l[b].in
    BY <1>3
  <2>1. ASSUME Reads(m, b, x) PROVE Reads(l, b, x) \/ (x = a /\ Reads(l, b, c))
    <3>1. PICK k \in DOMAIN m[b].in : m[b].in[k] = x
      BY <2>1 DEF Reads
    <3>2. x = Swap(l[b].in[k], c, a) /\ k \in DOMAIN l[b].in
      BY <1>3, <3>1
    <3>. QED BY <3>2 DEF Reads, Swap
  <2>2. ASSUME Reads(l, b, x) PROVE Reads(m, b, x)
    <3>1. PICK k \in DOMAIN l[b].in : l[b].in[k] = x
      BY <2>2 DEF Reads
    <3>2. m[b].in[k] = x /\ k \in DOMAIN m[b].in
      BY <1>3, <2>0, <3>1 DEF Swap
    <3>. QED BY <3>2 DEF Reads
  <2>3. ASSUME x = a, Reads(l, b, c) PROVE Reads(m, b, x)
    <3>1. PICK k \in DOMAIN l[b].in : l[b].in[k] = c
      BY <2>3 DEF Reads
    <3>2. m[b].in[k] = x /\ k \in DOMAIN m[b].in
      BY <1>3, <2>0, <2>3, <3>1 DEF Swap
    <3>. QED BY <3>2 DEF Reads
  <2>. QED BY <2>1, <2>2, <2>3
<1>5. ASSUME NEW x \in DOMAIN m PROVE m[x].out = { b \in DOMAIN m : Reads(m, b, x) }
  <2>1. l[x].out = { b \in DOMAIN l : Reads(l, b, x) } /\ l[c].out = { b \in DOMAIN l : Reads(l, b, c) }
    BY <1>1
  <2>2. \A b \in DOMAIN m : Reads(m, b, x) <=> (Reads(l, b, x) \/ (x = a /\ Reads(l, b, c)))
    BY <1>4
  <2>3. CASE x = a
    <3>1. m[x].out = (l[x].out \ {c}) \cup l[c].out /\ ~ Reads(l, c, c)
      BY <1>2, <2>3
    <3>. QED BY <2>1, <2>2, <2>3, <3>1
  <2>4. CASE x # a
    <3>1. m[x].out = l[x].out /\ ~ Reads(l, c, x)
      BY <1>2, <2>4
    <3>. QED BY <2>1, <2>2, <2>4, <3>1
  <2>. QED BY <2>3, <2>4
<1>6. ASSUME NEW b \in DOMAIN m, NEW k \in DOMAIN m[b].in PROVE m[b].in[k] \in DOMAIN m
  BY <1>1, <1>3, <1>6 DEF Swap
<1>. QED BY <1>5, <1>6 DEF Linked

(* c, which its input a may stand for. *)
StandsFor(n, a, c) ==
  \/ c \in Ropes /\ a = Input(c[2])
  \/ c \in Slices(n) /\ a = Input(2)

(* When a name goes, its stand-in takes its place among the operands. *)
LEMMA OperandsFollow ==
  ASSUME NEW n \in Nets, NEW present, NEW c \in present, NEW a \in present, StandsFor(n, a, c),
         NEW x \in Names(n)
  PROVE  Operands(n, present \ {c}, x) = Replace(Operands(n, present, x), c, a)
<1>1. \A i : Input(i) # c
  BY DEF StandsFor, Ropes, Slices, Input, Conv
<1>2. (c[1] = "conv" /\ a = Input(c[2])) \/ (c[1] = "slice" /\ a = Input(2))
  <2>1. CASE c \in Ropes /\ a = Input(c[2])
    BY <2>1 DEF Ropes, Conv
  <2>2. CASE c \in Slices(n) /\ a = Input(2)
    <3>1. c[1] = "slice"
      BY <2>2 DEF Slices
    <3>. QED BY <2>2, <3>1
  <2>. QED BY <2>1, <2>2 DEF StandsFor
<1>3. ASSUME NEW y PROVE StandIn(present \ {c}, y) = Swap(StandIn(present, y), c, a)
  <2>1. CASE y = c
    BY <1>2, <2>1 DEF StandIn, Swap
  <2>2. CASE y # c
    BY <1>1, <2>2 DEF StandIn, Swap
  <2>. QED BY <2>1, <2>2
<1>. QED BY <1>3 DEF Operands, Replace

(* The closed form, of a graph whose input_layer2 is told or is not. *)
Formed(l) ==
  \A x \in DOMAIN l :
    /\ l[x].in = Operands(net, DOMAIN l, x)
    /\ l[x].type = Type(net, Base(x))
    /\ x[1] = "lm_head" => l[x].cols = Columns(net, x)

(* A layer that goes leaves its consumers to its stand-in (TakesOver). *)
LEMMA StepsAside ==
  ASSUME net \in Nets, NEW l, Formed(l), Linked(l), DOMAIN l \subseteq Names(net),
         NEW a \in DOMAIN l, NEW c \in DOMAIN l, StandsFor(net, a, c),
         NEW m, DOMAIN m = DOMAIN l \ {c},
         \A x \in DOMAIN m : /\ m[x].in = Replace(l[x].in, c, a)
                             /\ m[x].type = l[x].type /\ m[x].cols = l[x].cols,
         m[a].out = (l[a].out \ {c}) \cup l[c].out,
         \A x \in DOMAIN m \ {a} : m[x].out = l[x].out
  PROVE  /\ Linked(m)
         /\ Formed(m)
<1>1. /\ net \in Nets
      /\ \A x \in DOMAIN l :
           /\ l[x].in = Operands(net, DOMAIN l, x)
           /\ l[x].type = Type(net, Base(x))
           /\ x[1] = "lm_head" => l[x].cols = Columns(net, x)
  BY DEF Formed
<1>2. a # c /\ c \in Names(net)
  BY DEF StandsFor, Ropes, Slices, Input, Conv
<1>3. l[c].in = <<a>>
  <2>1. Inputs(net, c) = <<a>>
    <3>1. CASE c \in Ropes /\ a = Input(c[2])
      <4>1. PICK i \in 3 .. 6 : c = Conv(i)
        BY <3>1 DEF Ropes
      <4>2. a = Input(i)
        BY <3>1, <4>1 DEF Conv
      <4>. QED BY <4>1, <4>2, InputsAre
    <3>2. CASE c \in Slices(net) /\ a = Input(2)
      <4>1. PICK i \in 1 .. net.slices : c = <<"slice", i>>
        BY <3>2 DEF Slices
      <4>. QED BY <3>2, <4>1, InputsAre
    <3>. QED BY <3>1, <3>2 DEF StandsFor
  <2>2. Operands(net, DOMAIN l, c) = [k \in 1 .. 1 |-> a]
    BY <1>2, <2>1 DEF Operands, StandIn
  <2>. QED BY <1>1, <2>2
<1>4. Linked(m)
  <2>1. \A x \in DOMAIN m : m[x].in = Replace(l[x].in, c, a)
    OBVIOUS
  <2>2. /\ Linked(l) /\ a \in DOMAIN l /\ c \in DOMAIN l /\ a # c /\ l[c].in = <<a>>
        /\ DOMAIN m = DOMAIN l \ {c}
        /\ \A x \in DOMAIN m : m[x].in = Replace(l[x].in, c, a)
        /\ m[a].out = (l[a].out \ {c}) \cup l[c].out
        /\ \A x \in DOMAIN m \ {a} : m[x].out = l[x].out
    BY <1>2, <1>3, <2>1
  <2>. QED BY ONLY <2>2, TakesOver
<1>5. \A x \in DOMAIN m : m[x].in = Operands(net, DOMAIN m, x)
  <2>. DEFINE D == DOMAIN l
  <2>1. \A x \in Names(net) : Operands(net, D \ {c}, x) = Replace(Operands(net, D, x), c, a)
    BY <1>1, OperandsFollow
  <2>. QED BY <1>1, <2>1
<1>. QED BY <1>1, <1>4, <1>5 DEF Formed

-----------------------------------------------------------------------------
(* The RoPE inputs and the mask. *)

(* ROPE_LAYERS, by index. *)
LEMMA RopeLayersAre == \A k \in 1 .. 4 : RopeLayers[k] = <<Input(k + 2), Conv(k + 2)>>
BY DEF RopeLayers

(* Nothing but its pc tells a failed assertion from the state before. *)
LEMMA Raised ==
  ASSUME SurgeryInv, Raise
  PROVE  SurgeryInv'
<1>1. UNCHANGED <<net, layers>> /\ pc' = "raised"
  BY DEF Raise
<1>2. LayersInv'
  BY <1>1 DEF SurgeryInv, LayersInv, Columns, Bound
<1>3. PlaceInv' /\ GraphInv'
  BY <1>1 DEF PlaceInv, GraphInv
<1>. QED BY <1>2, <1>3 DEF SurgeryInv

(* The action RopeStep. *)
LEMMA RopeStepKeeps ==
  ASSUME SurgeryInv, RopeStep
  PROVE  SurgeryInv'
<1>. USE DEF SurgeryInv
<1>1. CASE Raise
  BY <1>1, Raised
<1>2. CASE net.width
  <2>1. PICK m \in 0 .. 4 :
          /\ todo = [ k \in 1 .. 4 - m |-> RopeLayers[m + k] ]
          /\ DOMAIN layers = Names(net) \ { RopeLayers[k][2] : k \in 1 .. m }
    BY DEF RopeStep, PlaceInv, InRope, InMask, InCollect, InSplit, InSave
  <2>2. m \in 0 .. 3 /\ todo[1] = <<Input(m + 3), Conv(m + 3)>>
    <3>1. m # 4
      <4>1. CASE m = 4
        <5>1. DOMAIN todo = 1 .. 0
          BY <2>1, <4>1
        <5>. QED BY <2>1, <4>1, <5>1 DEF RopeStep
      <4>. QED BY <4>1
    <3>2. m + 1 \in 1 .. 4 /\ (m + 1) + 2 = m + 3 /\ 1 \in 1 .. 4 - m
      BY <3>1
    <3>. QED BY <2>1, <3>1, <3>2, RopeLayersAre
  <2>. DEFINE input == Input(m + 3)
              conv == Conv(m + 3)
              consumers == layers[conv].out
              D == DOMAIN layers
  <2>3. todo[1][1] = input /\ todo[1][2] = conv
    BY <2>2
  <2>4. /\ layers' = Without([ name \in D |->
                       IF name = input THEN [layers[name] EXCEPT !.out = consumers]
                       ELSE IF name \in consumers
                         THEN [layers[name] EXCEPT !.in = Replace(@, conv, input)]
                       ELSE layers[name] ], {conv})
        /\ todo' = Tail(todo) /\ UNCHANGED <<net, weights, order, newOutput, chain, pc>>
    BY <1>2, <2>3 DEF RopeStep
  <2>5. m + 3 \in 3 .. 6 /\ input # conv
    BY <2>2 DEF Input, Conv
  <2>6. /\ input \in D /\ conv \in D /\ D \subseteq Names(net)
        /\ \A i \in 3 .. 6 : Conv(i) \in Names(net) \ D => i < m + 3
        /\ \A x \in Names(net) \ D : x \in Ropes
    <3>1. \A k \in 1 .. m : RopeLayers[k][2] = Conv(k + 2) /\ k + 2 < m + 3 /\ k + 2 \in 3 .. 6
      BY <2>2, RopeLayersAre
    <3>2. \A i, j \in Int : Conv(i) = Conv(j) => i = j
      BY DEF Conv
    <3>3. input \in Names(net) /\ conv \in Names(net)
      BY <2>5, NamesAre DEF Ropes
    <3>4. \A k \in 1 .. m : RopeLayers[k][2] # input /\ RopeLayers[k][2] # conv
      BY <2>2, <3>1, <3>2 DEF Input, Conv
    <3>5. \A i \in 3 .. 6 : Conv(i) \in Names(net) \ D => i < m + 3
      BY <2>1, <2>2, <3>1, <3>2
    <3>. QED BY <2>1, <3>1, <3>3, <3>4, <3>5 DEF Ropes
  <2>. HIDE DEF input, conv, consumers, D
  <2>7. /\ net \in Nets /\ layers \in [D -> Layer(net)] /\ Linked(layers)
        /\ \A x \in D : layers[x].in = Operands(net, D, x)
    BY DEF LayersInv, D, GraphInv, RopeStep
  <2>8. consumers = { b \in D : Reads(layers, b, conv) } /\ consumers \subseteq AllNames(net)
    <3>1. layers[conv] \in Layer(net)
      BY <2>6, <2>7
    <3>. QED BY <2>6, <2>7, <3>1 DEF Linked, D, consumers, Layer
  <2>9. layers[input].in = << >>
    <3>1. Inputs(net, input) = << >>
      BY InputsAre DEF input
    <3>2. Operands(net, D, input) = [ k \in 1 .. 0 |-> StandIn(D, Inputs(net, input)[k]) ]
      BY <2>6, <3>1 DEF Operands
    <3>3. \A f : f = [ k \in 1 .. 0 |-> f[k] ] => f = << >>
      OBVIOUS
    <3>. QED BY <2>6, <2>7, <3>2, <3>3
  <2>10. layers[input].out \subseteq {conv}
    <3>. SUFFICES ASSUME NEW b \in D, NEW k \in DOMAIN layers[b].in, layers[b].in[k] = input
                  PROVE  b = conv
      BY <2>6, <2>7 DEF Linked, D, Reads
    <3>. DEFINE y == Inputs(net, b)[k]
    <3>1. k \in DOMAIN Inputs(net, b) /\ input = StandIn(D, y)
      <4>1. layers[b].in = Operands(net, D, b) /\ b \in Names(net)
        BY <2>6, <2>7
      <4>2. layers[b].in = [ j \in DOMAIN Inputs(net, b) |-> StandIn(D, Inputs(net, b)[j]) ]
        BY <4>1 DEF Operands
      <4>. QED BY <4>2
    <3>2. y \in Names(net)
      BY <2>6, <2>7, <3>1, WhoReads
    <3>3. y = input
      <4>1. CASE y \notin D
        <5>1. PICK i \in 3 .. 6 : y = Conv(i) /\ i < m + 3
          BY <2>6, <3>2, <4>1 DEF Ropes
        <5>2. input = Input(i)
          BY <3>1, <4>1, <5>1 DEF StandIn, Conv
        <5>. QED BY <2>2, <5>1, <5>2 DEF input, Input
      <4>2. CASE y \in D
        BY <3>1, <4>2 DEF StandIn
      <4>. QED BY <4>1, <4>2
    <3>. QED BY <2>5, <2>6, <2>7, <3>1, <3>3, WhoReads DEF input, conv
  <2>11. DOMAIN layers' = D \ {conv} /\ D = DOMAIN layers
    BY <2>4 DEF Without, D
  <2>12. ASSUME NEW x \in D \ {conv}
         PROVE  /\ layers'[x] \in Layer(net)
                /\ layers'[x].in = Replace(layers[x].in, conv, input)
                /\ layers'[x].type = layers[x].type /\ layers'[x].cols = layers[x].cols
                /\ layers'[x].out = IF x = input THEN consumers ELSE layers[x].out
    <3>1. /\ layers[x] \in Layer(net) /\ layers[x].in \in Seq(AllNames(net))
          /\ input \in AllNames(net)
      BY <2>6, <2>7, <2>12 DEF Layer, AllNames
    <3>2. Replace(layers[x].in, conv, input) \in Seq(AllNames(net))
      BY <3>1 DEF Replace, Swap
    <3>3. x \notin consumers => Replace(layers[x].in, conv, input) = layers[x].in
      BY <2>8, <3>1 DEF Replace, Swap, Reads
    <3>4. layers'[x] = IF x = input THEN [layers[x] EXCEPT !.out = consumers]
                       ELSE IF x \in consumers
                         THEN [layers[x] EXCEPT !.in = Replace(layers[x].in, conv, input)]
                       ELSE layers[x]
      BY <2>4, <2>12 DEF Without
    <3>. DEFINE r == layers[x]
                s == Replace(layers[x].in, conv, input)
    <3>5. CASE x = input
      <4>1. layers'[x] = [r EXCEPT !.out = consumers] /\ r \in Layer(net)
        BY <3>1, <3>4, <3>5
      <4>2. x \notin consumers
        BY <2>8, <2>9, <3>5 DEF Reads
      <4>. HIDE DEF r
      <4>3. /\ layers'[x] \in Layer(net) /\ layers'[x].in = r.in /\ layers'[x].type = r.type
            /\ layers'[x].cols = r.cols /\ layers'[x].out = consumers
        BY <2>8, <4>1 DEF Layer
      <4>. QED BY <3>3, <3>5, <4>2, <4>3 DEF r
    <3>6. CASE x # input /\ x \in consumers
      <4>1. layers'[x] = [r EXCEPT !.in = s] /\ r \in Layer(net) /\ s \in Seq(AllNames(net))
        BY <3>1, <3>2, <3>4, <3>6
      <4>. HIDE DEF r, s
      <4>2. /\ layers'[x] \in Layer(net) /\ layers'[x].in = s /\ layers'[x].type = r.type
            /\ layers'[x].cols = r.cols /\ layers'[x].out = r.out
        BY <4>1 DEF Layer
      <4>. QED BY <3>6, <4>2 DEF r, s
    <3>7. CASE x # input /\ x \notin consumers
      BY <3>1, <3>3, <3>4, <3>7
    <3>. QED BY <3>5, <3>6, <3>7
  <2>13. StandsFor(net, input, conv)
    BY <2>5 DEF StandsFor, Ropes, Conv, input, conv
  <2>14. Linked(layers') /\ Formed(layers')
    <3>. DEFINE next == layers'
    <3>1. /\ net \in Nets /\ Formed(layers) /\ Linked(layers) /\ DOMAIN layers \subseteq Names(net)
          /\ input \in DOMAIN layers /\ conv \in DOMAIN layers /\ DOMAIN next = DOMAIN layers \ {conv}
      BY <2>6, <2>7, <2>11 DEF LayersInv, Formed
    <3>2. \A x \in DOMAIN next : /\ next[x].in = Replace(layers[x].in, conv, input)
                              /\ next[x].type = layers[x].type /\ next[x].cols = layers[x].cols
      BY <2>11, <2>12
    <3>3. consumers = layers[conv].out
      BY DEF consumers
    <3>4. /\ next[input].out = (layers[input].out \ {conv}) \cup layers[conv].out
          /\ \A x \in DOMAIN next \ {input} : next[x].out = layers[x].out
      BY <2>5, <2>6, <2>10, <2>11, <2>12, <3>3
    <3>. HIDE DEF next
    <3>5. Linked(next) /\ Formed(next)
      BY ONLY <2>13, <3>1, <3>2, <3>4, StepsAside
    <3>. QED BY <3>5 DEF next
  <2>15. LayersInv'
    <3>1. net' = net /\ layers' \in [DOMAIN layers' -> Layer(net)]
      BY <2>4, <2>11, <2>12 DEF Without
    <3>. QED BY <2>6, <2>7, <2>11, <2>14, <3>1 DEF LayersInv, Formed, AllNames, Columns, Bound
  <2>16. InRope'
    <3>1. m + 1 \in 0 .. 4 /\ 4 - (m + 1) = (4 - m) - 1
      BY <2>2
    <3>2. todo' = [ k \in 1 .. 4 - (m + 1) |-> RopeLayers[(m + 1) + k] ]
      <4>1. /\ todo \in Seq({ RopeLayers[k] : k \in 1 .. 4 }) /\ todo # << >>
            /\ Len(todo) = 4 - m
        BY <2>1, <2>2
      <4>2. /\ Tail(todo) \in Seq({ RopeLayers[k] : k \in 1 .. 4 }) /\ Len(Tail(todo)) = Len(todo) - 1
            /\ \A k \in 1 .. Len(Tail(todo)) : Tail(todo)[k] = todo[k + 1]
        BY <4>1, HeadTailProperties
      <4>3. \A k \in 1 .. 4 - (m + 1) : todo[k + 1] = RopeLayers[(m + 1) + k]
        <5>1. \A k \in 1 .. 4 - (m + 1) : k + 1 \in 1 .. 4 - m /\ m + (k + 1) = (m + 1) + k
          BY <2>2
        <5>. QED BY <2>1, <5>1
      <4>4. Tail(todo) = [ k \in 1 .. 4 - (m + 1) |-> Tail(todo)[k] ]
        <5>1. Len(Tail(todo)) = 4 - (m + 1)
          BY <3>1, <4>1, <4>2
        <5>. DEFINE rest == Tail(todo)
        <5>2. rest \in Seq({ RopeLayers[k] : k \in 1 .. 4 }) /\ Len(rest) = 4 - (m + 1)
          BY <4>2, <5>1
        <5>. HIDE DEF rest
        <5>3. rest = [ k \in 1 .. 4 - (m + 1) |-> rest[k] ]
          BY <5>2
        <5>. QED BY <5>3 DEF rest
      <4>. QED BY <2>4, <3>1, <4>1, <4>2, <4>3, <4>4
    <3>3. { RopeLayers[k][2] : k \in 1 .. m + 1 } = { RopeLayers[k][2] : k \in 1 .. m } \cup {conv}
      <4>1. RopeLayers[m + 1][2] = conv
        BY <2>2, RopeLayersAre DEF conv
      <4>2. 1 .. m + 1 = (1 .. m) \cup {m + 1}
        BY <2>2
      <4>. QED BY <4>1, <4>2
    <3>4. DOMAIN layers' = Names(net) \ { RopeLayers[k][2] : k \in 1 .. m + 1 }
      BY <2>1, <2>11, <3>3 DEF D
    <3>5. pc = "rope" /\ Untouched
      BY DEF RopeStep, PlaceInv, InRope, InMask, InCollect, InSplit, InSave
    <3>. QED BY <2>4, <3>1, <3>2, <3>4, <3>5 DEF InRope, Untouched
  <2>17. GraphInv'
    BY <2>4, <2>14 DEF GraphInv, RopeStep
  <2>. QED BY <2>15, <2>16, <2>17 DEF PlaceInv
<1>. QED BY <1>1, <1>2 DEF RopeStep

(* SetToSeq lists a finite set, each element once. *)
LEMMA SetToSeqLists ==
  ASSUME NEW S, IsFiniteSet(S)
  PROVE  /\ SetToSeq(S) \in Seq(S) /\ IsInjective(SetToSeq(S))
         /\ \A x \in S : \E k \in DOMAIN SetToSeq(S) : SetToSeq(S)[k] = x
<1>. DEFINE K == 1 .. Cardinality(S)
            f == SetToSeq(S)
<1>1. Cardinality(S) \in Nat /\ ExistsBijection(K, S)
  BY FS_CardinalityType
<1>2. PICK g : g \in Bijection(K, S)
  BY <1>1 DEF ExistsBijection
<1>3. g \in [K -> S] /\ IsInjective(g)
  BY <1>2 DEF Bijection, Injection
<1>4. f \in [K -> S] /\ IsInjective(f)
  BY <1>3 DEF SetToSeq
<1>5. IsFiniteSet(K) /\ Cardinality(K) = Cardinality(S)
  <2>. DEFINE c == Cardinality(S)
  <2>1. 1 \in Int /\ c \in Int /\ c >= 0
    BY <1>1
  <2>. HIDE DEF c
  <2>2. IsFiniteSet(1 .. c) /\ Cardinality(1 .. c) = IF 1 > c THEN 0 ELSE c - 1 + 1
    BY ONLY <2>1, FS_Interval
  <2>3. Cardinality(1 .. c) = c
    BY <2>1, <2>2
  <2>. QED BY <2>2, <2>3 DEF c
<1>. HIDE DEF f
<1>6. f \in Injection(K, S)
  BY <1>4 DEF Injection
<1>. HIDE DEF K
<1>7. f \in Surjection(K, S)
  BY <1>5, <1>6, FS_Injection
<1>8. \A x \in S : \E k \in K : f[k] = x
  BY <1>7 DEF Surjection
<1>9. f \in Seq(S)
  BY <1>1, <1>4 DEF K
<1>. QED BY <1>4, <1>8, <1>9 DEF f
(* The slices can be counted. *)
LEMMA SlicesAreFinite ==
  ASSUME NEW n \in Nets
  PROVE  IsFiniteSet(Slices(n))
<1>. DEFINE s == n.slices
<1>1. 1 \in Int /\ s \in Int
  BY NetTypes
<1>2. Slices(n) = {"slice"} \X (1 .. s)
  BY DEF Slices
<1>. HIDE DEF s
<1>3. IsFiniteSet(1 .. s) /\ IsFiniteSet({"slice"})
  BY ONLY <1>1, FS_Interval, FS_Singleton
<1>4. IsFiniteSet({"slice"} \X (1 .. s))
  BY ONLY <1>3, FS_Product
<1>. QED BY <1>2, <1>4

(* MaskStart: the slices become the turns of the loop. *)
LEMMA MaskStartKeeps ==
  ASSUME SurgeryInv, MaskStart
  PROVE  SurgeryInv'
<1>. USE DEF SurgeryInv
<1>1. CASE Raise
  BY <1>1, Raised
<1>2. CASE /\ pc' = "mask" /\ todo' = SetToSeq(MaskSlices) /\ newOutput' = layers[Input(2)].out
           /\ UNCHANGED <<net, layers, weights, order, chain>>
  <2>1. PICK m \in 0 .. 4 :
          /\ todo = [ k \in 1 .. 4 - m |-> RopeLayers[m + k] ]
          /\ DOMAIN layers = Names(net) \ { RopeLayers[k][2] : k \in 1 .. m }
    BY DEF MaskStart, PlaceInv, InRope, InMask, InCollect, InSplit, InSave
  <2>2. m = 4
    <3>1. CASE m # 4
      <4>1. 1 \in 1 .. 4 - m
        BY <3>1
      <4>. QED BY <2>1, <4>1 DEF MaskStart
    <3>. QED BY <3>1
  <2>. DEFINE D == DOMAIN layers
  <2>3. D = Names(net) \ Ropes
    <3>1. { RopeLayers[k][2] : k \in 1 .. 4 } = Ropes
      <4>1. \A k \in 1 .. 4 : RopeLayers[k][2] = Conv(k + 2) /\ k + 2 \in 3 .. 6
        BY RopeLayersAre
      <4>2. \A i \in 3 .. 6 : i - 2 \in 1 .. 4 /\ (i - 2) + 2 = i
        OBVIOUS
      <4>. QED BY <4>1, <4>2 DEF Ropes
    <3>. QED BY <2>1, <2>2, <3>1
  <2>. HIDE DEF D
  <2>4. /\ net \in Nets /\ Linked(layers)
        /\ \A x \in D : layers[x].in = Operands(net, D, x) /\ layers[x].type = Type(net, Base(x))
    BY DEF LayersInv, D, GraphInv, MaskStart
  <2>5. Input(2) \in D /\ Slices(net) \subseteq D /\ Slices(net) \subseteq Names(net)
    BY <2>3, NamesAre DEF Slices, Ropes, Conv, Input
  <2>6. ASSUME NEW b \in D, Reads(layers, b, Input(2)) PROVE b \in Slices(net) \/ layers[b].type # "slice"
    <3>1. PICK k \in DOMAIN layers[b].in : layers[b].in[k] = Input(2)
      BY <2>6 DEF Reads
    <3>. DEFINE y == Inputs(net, b)[k]
    <3>2. k \in DOMAIN Inputs(net, b) /\ StandIn(D, y) = Input(2) /\ b \in Names(net)
      BY <2>3, <2>4, <3>1 DEF Operands
    <3>3. y \in Names(net)
      BY <2>4, <3>2, WhoReads
    <3>4. y = Input(2)
      <4>1. CASE y \in D
        BY <3>2, <4>1 DEF StandIn
      <4>2. CASE y \in Ropes
        <5>1. PICK i \in 3 .. 6 : y = Conv(i)
          BY <4>2 DEF Ropes
        <5>2. StandIn(D, y) = Input(i) \/ StandIn(D, y) = y
          BY <5>1 DEF StandIn, Conv
        <5>. QED BY <3>2, <5>1, <5>2 DEF Input, Conv
      <4>. QED BY <2>3, <3>3, <4>1, <4>2
    <3>5. b \in Slices(net) \cup ({"ew_add"} \X (1 .. net.blocks))
      BY <2>4, <3>2, <3>4, WhoReads
    <3>6. ASSUME b \in {"ew_add"} \X (1 .. net.blocks) PROVE layers[b].type # "slice"
      <4>1. PICK i \in 1 .. net.blocks : b = <<"ew_add", i>>
        BY <3>6
      <4>2. Base(b) = b /\ Type(net, b) = BlockTypes["ew_add"]
        BY <4>1, BlockKinds, TypesAre DEF Base
      <4>3. BlockTypes["ew_add"] = "ew_add"
        BY DEF BlockTypes
      <4>. QED BY <2>4, <2>6, <4>2, <4>3
    <3>. QED BY <3>5, <3>6
  <2>7. ASSUME NEW b \in Slices(net) PROVE Reads(layers, b, Input(2)) /\ layers[b].type = "slice"
    <3>1. PICK i \in 1 .. net.slices : b = <<"slice", i>>
      BY <2>7 DEF Slices
    <3>2. Inputs(net, b) = <<Input(2)>> /\ Type(net, Base(b)) = "slice" /\ b \in D /\ b \in Names(net)
      BY <2>5, <3>1, InputsAre, TypesAre DEF Base
    <3>3. Operands(net, D, b) = [ k \in 1 .. 1 |-> Input(2) ]
      BY <2>5, <3>2 DEF Operands, StandIn
    <3>4. layers[b].in[1] = Input(2) /\ 1 \in DOMAIN layers[b].in
      BY <2>4, <3>2, <3>3
    <3>. QED BY <2>4, <3>2, <3>4 DEF Reads
  <2>8. MaskSlices = Slices(net)
    <3>1. layers[Input(2)].out = { b \in D : Reads(layers, b, Input(2)) }
      BY <2>4, <2>5 DEF Linked, D
    <3>. QED BY <2>5, <2>6, <2>7, <3>1 DEF MaskSlices
  <2>. DEFINE seq == SetToSeq(Slices(net))
  <2>9. /\ seq \in Seq(Slices(net)) /\ IsInjective(seq)
        /\ \A x \in Slices(net) : \E k \in DOMAIN seq : seq[k] = x
    BY <2>4, SlicesAreFinite, SetToSeqLists
  <2>10. todo' = seq
    BY <1>2, <2>8
  <2>. HIDE DEF seq
  <2>11. \A k \in DOMAIN seq : seq[k] \in Slices(net)
    BY <2>9
  <2>12. D = Kept(net) \cup { seq[k] : k \in DOMAIN seq }
    <3>1. Slices(net) = { seq[k] : k \in DOMAIN seq }
      BY <2>9, <2>11
    <3>2. D = Kept(net) \cup Slices(net)
      BY <2>3, <2>5 DEF Kept
    <3>. QED BY <3>1, <3>2
  <2>13. Untouched
    BY DEF MaskStart, PlaceInv, InRope, InMask, InCollect, InSplit, InSave
  <2>14. InMask'
    BY <1>2, <2>9, <2>10, <2>12, <2>13 DEF InMask, Untouched, D
  <2>15. LayersInv'
    BY <1>2 DEF LayersInv, Columns, Bound
  <2>16. GraphInv'
    <3>1. Settled' = layers
      <4>1. layers[Input(2)] \in Layer(net) /\ DOMAIN layers = D /\ layers = [ x \in D |-> layers[x] ]
        BY <2>5 DEF LayersInv, D
      <4>2. [layers[Input(2)] EXCEPT !.out = layers[Input(2)].out] = layers[Input(2)]
        BY <4>1 DEF Layer
      <4>3. Settled' = [layers EXCEPT ![Input(2)].out = layers[Input(2)].out]
        BY <1>2 DEF Settled
      <4>. QED BY <2>5, <4>1, <4>2, <4>3
    <3>2. Linked(Settled')
      BY <2>4, <3>1
    <3>. QED BY <1>2, <3>2 DEF GraphInv
  <2>. QED BY <2>14, <2>15, <2>16 DEF PlaceInv
<1>. QED BY <1>1, <1>2 DEF MaskStart

(* Taking the head of an injective sequence takes its element. *)
LEMMA TailOfInjective ==
  ASSUME NEW S, NEW seq \in Seq(S), seq # << >>, IsInjective(seq)
  PROVE  /\ Tail(seq) \in Seq(S) /\ IsInjective(Tail(seq))
         /\ { Tail(seq)[k] : k \in DOMAIN Tail(seq) } = { seq[k] : k \in DOMAIN seq } \ {seq[1]}
<1>. DEFINE rest == Tail(seq)
<1>1. /\ rest \in Seq(S) /\ Len(rest) = Len(seq) - 1 /\ Len(seq) \in Nat \ {0}
      /\ \A k \in 1 .. Len(rest) : rest[k] = seq[k + 1]
  <2>1. Len(seq) \in Nat \ {0}
    BY EmptySeq, LenProperties
  <2>. QED BY <2>1, HeadTailProperties
<1>2. DOMAIN seq = 1 .. Len(seq)
  OBVIOUS
<1>. HIDE DEF rest
<1>3. DOMAIN rest = 1 .. Len(rest)
  BY <1>1
<1>4. IsInjective(rest)
  BY <1>1, <1>2, <1>3 DEF IsInjective
<1>5. \A k \in DOMAIN rest : k + 1 \in DOMAIN seq /\ rest[k] = seq[k + 1] /\ k + 1 # 1
  BY <1>1, <1>2, <1>3
<1>6. \A k \in DOMAIN seq : k = 1 \/ (k - 1 \in DOMAIN rest /\ seq[k] = rest[k - 1])
  BY <1>1, <1>2, <1>3
<1>7. 1 \in DOMAIN seq
  BY <1>1, <1>2
<1>8. { rest[k] : k \in DOMAIN rest } = { seq[k] : k \in DOMAIN seq } \ {seq[1]}
  BY <1>5, <1>6, <1>7 DEF IsInjective
<1>. QED BY <1>1, <1>4, <1>8 DEF rest

(* What telling input_layer2 changes: who it says reads it. *)
LEMMA SettledIs ==
  ASSUME LayersInv, Input(2) \in DOMAIN layers
  PROVE  /\ DOMAIN Settled = DOMAIN layers
         /\ Settled[Input(2)].out = newOutput
         /\ \A x \in DOMAIN layers : /\ Settled[x].in = layers[x].in
                                     /\ Settled[x].type = layers[x].type
                                     /\ Settled[x].cols = layers[x].cols
                                     /\ x # Input(2) => Settled[x] = layers[x]
<1>1. layers[Input(2)] \in Layer(net)
  BY DEF LayersInv
<1>2. Settled = [ x \in DOMAIN layers |-> IF x = Input(2) THEN [layers[x] EXCEPT !.out = newOutput]
                                         ELSE layers[x] ]
  BY DEF Settled
<1>. DEFINE r == layers[Input(2)]
            s == [r EXCEPT !.out = newOutput]
<1>3. s.in = r.in /\ s.type = r.type /\ s.cols = r.cols /\ s.out = newOutput
  <2>1. r \in Layer(net)
    BY <1>1
  <2>. HIDE DEF r
  <2>. QED BY <2>1 DEF Layer
<1>4. Settled[Input(2)] = s
  BY <1>2
<1>5. DOMAIN Settled = DOMAIN layers /\ \A x \in DOMAIN layers : x # Input(2) => Settled[x] = layers[x]
  BY <1>2
<1>. HIDE DEF s
<1>. QED BY <1>3, <1>4, <1>5

(* The action MaskStep. *)
LEMMA MaskStepKeeps ==
  ASSUME SurgeryInv, MaskStep
  PROVE  SurgeryInv'
<1>. USE DEF SurgeryInv
<1>1. CASE Raise
  BY <1>1, Raised
<1>. DEFINE slice == todo[1]
            add == CHOOSE name \in layers[slice].out : TRUE
            input == Input(2)
            D == DOMAIN layers
<1>2. CASE /\ Cardinality(layers[slice].out) = 1
           /\ layers' = Without([layers EXCEPT ![add].in = Replace(@, slice, Input(2))], {slice})
           /\ newOutput' = (newOutput \ {slice}) \cup {add}
           /\ todo' = Tail(todo)
           /\ UNCHANGED <<net, weights, order, chain, pc>>
  <2>1. /\ Untouched /\ pc = "mask" /\ todo # << >>
        /\ todo \in Seq(Slices(net)) /\ IsInjective(todo)
        /\ D = Kept(net) \cup { todo[k] : k \in DOMAIN todo }
    BY DEF MaskStep, PlaceInv, InRope, InMask, InCollect, InSplit, InSave
  <2>2. slice \in Slices(net) /\ 1 \in DOMAIN todo
    <3>1. Len(todo) \in Nat \ {0}
      BY <2>1, EmptySeq, LenProperties
    <3>. QED BY <2>1, <3>1, ElementOfSeq
  <2>3. /\ D \subseteq Names(net) /\ Slices(net) \cap Kept(net) = {}
        /\ slice \in D /\ input \in D /\ slice # input
    <3>1. Slices(net) \subseteq Names(net) /\ Kept(net) \subseteq Names(net)
      BY NamesAre DEF Kept
    <3>2. \A k \in DOMAIN todo : todo[k] \in Slices(net)
      BY <2>1
    <3>3. input \in Kept(net)
      BY NamesAre DEF Kept, Input, Ropes, Conv, Slices
    <3>. QED BY <2>1, <2>2, <3>1, <3>2, <3>3 DEF Kept
  <2>4. /\ layers' = Without([layers EXCEPT ![add].in = Replace(@, slice, input)], {slice})
        /\ newOutput' = (newOutput \ {slice}) \cup {add}
        /\ Cardinality(layers[slice].out) = 1
    BY <1>2
  <2>. DEFINE l == Settled
  <2>5. /\ net \in Nets /\ layers \in [D -> Layer(net)] /\ Linked(l)
        /\ \A x \in D : layers[x].in = Operands(net, D, x)
    BY <2>1 DEF LayersInv, GraphInv
  <2>16. /\ DOMAIN l = D /\ l[input].out = newOutput
         /\ \A x \in D : /\ l[x].in = layers[x].in /\ l[x].type = layers[x].type
                         /\ l[x].cols = layers[x].cols
                         /\ x # input => l[x].out = layers[x].out
    BY <2>3, SettledIs
  <2>22. add = CHOOSE name \in layers[slice].out : TRUE
    OBVIOUS
  <2>23. D = DOMAIN layers
    OBVIOUS
  <2>. HIDE DEF slice, add, input, D, l
  <2>17. ASSUME NEW x \in D, NEW y PROVE Reads(l, x, y) <=> Reads(layers, x, y)
    <3>1. l[x].in = layers[x].in
      BY <2>16
    <3>. QED BY <3>1, Zenon DEF Reads
  <2>6. /\ layers[slice].out = { b \in D : Reads(layers, b, slice) }
        /\ newOutput \subseteq D
        /\ add = CHOOSE name \in layers[slice].out : TRUE
    <3>1. l[slice].out = { b \in D : Reads(l, b, slice) } /\ l[slice].out = layers[slice].out
      BY <2>3, <2>5, <2>16 DEF Linked
    <3>2. l[input].out \subseteq D
      BY <2>3, <2>5, <2>16 DEF Linked
    <3>3. { b \in D : Reads(l, b, slice) } = { b \in D : Reads(layers, b, slice) }
      BY <2>3, <2>17
    <3>. QED BY <2>16, <2>22, <3>1, <3>2, <3>3
  <2>7. layers[slice].out \subseteq {"ew_add"} \X (1 .. net.blocks)
    <3>. SUFFICES ASSUME NEW b \in D, NEW k \in DOMAIN layers[b].in, layers[b].in[k] = slice
                  PROVE  b \in {"ew_add"} \X (1 .. net.blocks)
      BY <2>6 DEF Reads
    <3>. DEFINE y == Inputs(net, b)[k]
    <3>1. k \in DOMAIN Inputs(net, b) /\ slice = StandIn(D, y)
      <4>1. layers[b].in = Operands(net, D, b) /\ b \in Names(net)
        BY <2>3, <2>5
      <4>2. layers[b].in = [ j \in DOMAIN Inputs(net, b) |-> StandIn(D, Inputs(net, b)[j]) ]
        BY <4>1 DEF Operands
      <4>. QED BY <4>2
    <3>2. \A i : slice # Input(i)
      BY <2>2 DEF Slices, Input
    <3>3. y = slice
      BY <3>1, <3>2 DEF StandIn
    <3>. QED BY <2>2, <2>3, <2>5, <3>1, <3>3, WhoReads
  <2>8. layers[slice].out = {add}
    <3>1. IsFiniteSet({"ew_add"} \X (1 .. net.blocks))
      <4>. DEFINE n == net.blocks
      <4>1. 1 \in Int /\ n \in Int
        BY <2>5, NetTypes
      <4>. HIDE DEF n
      <4>2. IsFiniteSet(1 .. n) /\ IsFiniteSet({"ew_add"})
        BY ONLY <4>1, FS_Interval, FS_Singleton
      <4>3. IsFiniteSet({"ew_add"} \X (1 .. n))
        BY ONLY <4>2, FS_Product
      <4>. QED BY <4>3 DEF n
    <3>. DEFINE S == layers[slice].out
    <3>2. IsFiniteSet(S) /\ Cardinality(S) = 1
      BY <2>4, <2>7, <3>1, FS_Subset
    <3>. HIDE DEF S
    <3>3. \E x : S = {x}
      BY <3>2, FS_Singleton
    <3>4. add = CHOOSE name \in S : TRUE
      BY <2>6 DEF S
    <3>5. S = {add}
      BY <3>3, <3>4
    <3>. QED BY <3>5 DEF S
  <2>9. add \in D /\ add # input /\ add # slice /\ \A b \in D : Reads(layers, b, slice) <=> b = add
    <3>1. add \in {"ew_add"} \X (1 .. net.blocks)
      BY <2>7, <2>8
    <3>2. add[1] = "ew_add" /\ slice[1] = "slice" /\ input[1] = "input_layer"
      BY <2>2, <3>1 DEF Slices, input, Input
    <3>. QED BY <2>6, <2>8, <3>2
  <2>10. ASSUME NEW x \in D \ {slice}
         PROVE  /\ layers'[x] \in Layer(net)
                /\ layers'[x].in = Replace(layers[x].in, slice, input)
                /\ layers'[x].type = layers[x].type /\ layers'[x].cols = layers[x].cols
                /\ layers'[x].out = layers[x].out
    <3>1. /\ layers[x] \in Layer(net) /\ layers[x].in \in Seq(AllNames(net))
          /\ input \in AllNames(net) /\ add \in AllNames(net)
      BY <2>3, <2>5, <2>9, <2>10 DEF Layer, AllNames
    <3>. DEFINE r == layers[x]
                s == Replace(layers[x].in, slice, input)
    <3>2. s \in Seq(AllNames(net))
      BY <3>1 DEF Replace, Swap
    <3>3. x # add => s = r.in
      BY <2>9, <2>10, <3>1 DEF Replace, Swap, Reads
    <3>4. DOMAIN layers = D
      BY DEF D
    <3>5. CASE x = add
      <4>1. layers'[x] = [r EXCEPT !.in = s] /\ r \in Layer(net)
        BY <2>3, <2>4, <2>9, <2>10, <3>1, <3>4, <3>5 DEF Without
      <4>. HIDE DEF r, s
      <4>2. /\ layers'[x] \in Layer(net) /\ layers'[x].in = s /\ layers'[x].type = r.type
            /\ layers'[x].cols = r.cols /\ layers'[x].out = r.out
        BY <3>2, <4>1 DEF Layer
      <4>. QED BY <2>9, <3>5, <4>2 DEF r, s
    <3>6. CASE x # add
      <4>1. layers'[x] = r
        BY <2>3, <2>4, <2>9, <2>10, <3>4, <3>6 DEF Without
      <4>. QED BY <3>1, <3>3, <3>6, <4>1
    <3>. QED BY <3>5, <3>6
  <2>11. DOMAIN layers' = D \ {slice} /\ D = DOMAIN layers
    BY <2>4 DEF Without, D
  <2>12. StandsFor(net, input, slice)
    BY <2>2 DEF StandsFor, input
  <2>14. /\ net' = net /\ layers' \in [DOMAIN layers' -> Layer(net)]
         /\ input \in DOMAIN layers' /\ DOMAIN layers' \subseteq Names(net)
    BY <1>2, <2>3, <2>4, <2>10, <2>11 DEF Without
  <2>. DEFINE m == [layers' EXCEPT ![input].out = newOutput']
  <2>18. /\ DOMAIN m = DOMAIN layers' /\ m[input].out = newOutput'
         /\ \A x \in DOMAIN layers' : /\ m[x].in = layers'[x].in /\ m[x].type = layers'[x].type
                                      /\ m[x].cols = layers'[x].cols
                                      /\ x # input => m[x].out = layers'[x].out
    <3>. DEFINE r == layers'[input]
                s == [r EXCEPT !.out = newOutput']
    <3>1. s.in = r.in /\ s.type = r.type /\ s.cols = r.cols /\ s.out = newOutput'
      <4>1. r \in Layer(net)
        BY <2>14
      <4>. HIDE DEF r
      <4>. QED BY <4>1 DEF Layer
    <3>2. /\ m[input] = s /\ DOMAIN m = DOMAIN layers'
          /\ \A x \in DOMAIN layers' : x # input => m[x] = layers'[x]
      BY <2>14
    <3>. HIDE DEF s, m
    <3>. QED BY <3>1, <3>2
  <2>19. m = Settled'
    BY DEF Settled, input
  <2>. HIDE DEF m
  <2>13. Linked(m) /\ Formed(m)
    <3>1. /\ net \in Nets /\ Formed(l) /\ Linked(l) /\ DOMAIN l \subseteq Names(net)
          /\ input \in DOMAIN l /\ slice \in DOMAIN l /\ DOMAIN m = DOMAIN l \ {slice}
      <4>1. Formed(layers)
        BY DEF LayersInv, Formed
      <4>2. ASSUME NEW x \in DOMAIN l
            PROVE  /\ l[x].in = Operands(net, DOMAIN l, x)
                   /\ l[x].type = Type(net, Base(x))
                   /\ x[1] = "lm_head" => l[x].cols = Columns(net, x)
        <5>1. /\ DOMAIN l = DOMAIN layers /\ x \in DOMAIN layers
              /\ l[x].in = layers[x].in /\ l[x].type = layers[x].type /\ l[x].cols = layers[x].cols
          BY <2>16, <2>23
        <5>2. /\ layers[x].in = Operands(net, DOMAIN layers, x)
              /\ layers[x].type = Type(net, Base(x))
              /\ x[1] = "lm_head" => layers[x].cols = Columns(net, x)
          BY <4>1, <5>1 DEF Formed
        <5>. QED BY <5>1, <5>2
      <4>3. Formed(l)
        BY <4>2 DEF Formed
      <4>. QED BY <2>3, <2>5, <2>11, <2>16, <2>18, <4>3
    <3>5. ASSUME NEW x \in DOMAIN m
          PROVE  /\ m[x].in = Replace(l[x].in, slice, input)
                 /\ m[x].type = l[x].type /\ m[x].cols = l[x].cols
                 /\ x # input => m[x].out = l[x].out
      <4>1. x \in D \ {slice} /\ x \in D /\ x \in DOMAIN layers'
        BY <2>11, <2>18
      <4>2. /\ m[x].in = layers'[x].in /\ m[x].type = layers'[x].type /\ m[x].cols = layers'[x].cols
            /\ x # input => m[x].out = layers'[x].out
        BY <2>18, <4>1
      <4>3. /\ layers'[x].in = Replace(layers[x].in, slice, input)
            /\ layers'[x].type = layers[x].type /\ layers'[x].cols = layers[x].cols
            /\ layers'[x].out = layers[x].out
        BY <2>10, <4>1
      <4>4. /\ l[x].in = layers[x].in /\ l[x].type = layers[x].type
            /\ l[x].cols = layers[x].cols
            /\ x # input => l[x].out = layers[x].out
        BY <2>16, <4>1
      <4>. QED BY <4>2, <4>3, <4>4, Zenon
    <3>2. \A x \in DOMAIN m : /\ m[x].in = Replace(l[x].in, slice, input)
                              /\ m[x].type = l[x].type /\ m[x].cols = l[x].cols
      BY <3>5
    <3>3. m[input].out = (l[input].out \ {slice}) \cup l[slice].out
      <4>1. m[input].out = (newOutput \ {slice}) \cup {add}
        BY <2>4, <2>18
      <4>2. l[input].out = newOutput /\ l[slice].out = layers[slice].out
        BY <2>3, <2>16
      <4>. QED BY <2>8, <4>1, <4>2
    <3>4. \A x \in DOMAIN m \ {input} : m[x].out = l[x].out
      BY <3>5
    <3>. QED BY ONLY <2>12, <3>1, <3>2, <3>3, <3>4, StepsAside
  <2>20. LayersInv'
    <3>1. \A x \in DOMAIN layers' :
            /\ layers'[x].in = Operands(net, DOMAIN layers', x)
            /\ layers'[x].type = Type(net, Base(x))
            /\ x[1] = "lm_head" => layers'[x].cols = Columns(net, x)
      BY <2>13, <2>18 DEF Formed
    <3>. QED BY <2>5, <2>14, <3>1 DEF LayersInv, AllNames, Columns, Bound
  <2>21. GraphInv'
    BY <1>2, <2>1, <2>13, <2>19 DEF GraphInv
  <2>15. InMask'
    <3>. DEFINE S == Slices(net)
                seq == todo
    <3>1. /\ Tail(seq) \in Seq(S) /\ IsInjective(Tail(seq))
          /\ { Tail(seq)[k] : k \in DOMAIN Tail(seq) } = { seq[k] : k \in DOMAIN seq } \ {seq[1]}
      <4>1. seq \in Seq(S) /\ seq # << >> /\ IsInjective(seq)
        BY <2>1
      <4>. HIDE DEF S, seq
      <4>. QED BY ONLY <4>1, TailOfInjective
    <3>2. DOMAIN layers' = Kept(net) \cup { Tail(seq)[k] : k \in DOMAIN Tail(seq) }
      BY <2>1, <2>2, <2>3, <2>11, <3>1 DEF slice
    <3>. QED BY <1>2, <2>1, <3>1, <3>2 DEF InMask, Untouched
  <2>. QED BY <2>15, <2>20, <2>21 DEF PlaceInv
<1>. QED BY <1>1, <1>2 DEF MaskStep

-----------------------------------------------------------------------------
(* The head of the graph: the lm_head and the chain above it. *)

(* The head, and the norm under it, are there until the split. *)
LEMMA HeadsAreKept ==
  ASSUME NEW n \in Nets
  PROVE  /\ Heads(n) \subseteq Kept(n) /\ Norm \in Kept(n) /\ Norm \notin Heads(n)
         /\ Kept(n) \subseteq Names(n)
         /\ \A j \in 1 .. Len(n.chain) : Chain(j) \in Heads(n)
         /\ Chain(1) \in Heads(n) /\ LmHead \in Heads(n) /\ Logits \in Heads(n)
<1>1. Len(n.chain) \in Nat \ {0}
  BY NetTypes
<1>2. \A x \in Heads(n) \cup {Norm} : x[1] \in {"chain", "lm_head", "output_layer", "layer_normalization"}
  BY DEF Heads, Chains, Chain, LmHead, Logits, Norm
<1>3. \A x \in Ropes \cup Slices(n) : x[1] \in {"conv", "slice"}
  BY DEF Ropes, Conv, Slices
<1>4. Norm \notin Heads(n)
  BY DEF Heads, Chains, Chain, LmHead, Logits, Norm
<1>. QED BY <1>1, <1>2, <1>3, <1>4, NamesAre DEF Kept, Heads, Chains

(* The operands of the head before it is split. *)
LEMMA HeadOperands ==
  ASSUME NEW n \in Nets, NEW present, Kept(n) \subseteq present
  PROVE  /\ Operands(n, present, LmHead) = <<Chain(1)>>
         /\ Operands(n, present, Logits) = <<LmHead>>
         /\ \A j \in 1 .. Len(n.chain) : Operands(n, present, Chain(j)) = <<Above(n, j)>>
<1>1. ASSUME NEW x \in Heads(n), NEW y \in Kept(n), Inputs(n, x) = <<y>>
      PROVE  Operands(n, present, x) = <<y>>
  <2>1. x \in Names(n) /\ y \in present
    BY HeadsAreKept
  <2>2. Operands(n, present, x) = [ k \in 1 .. 1 |-> y ]
    BY <1>1, <2>1 DEF Operands, StandIn
  <2>. QED BY <2>2
<1>2. \A j \in 1 .. Len(n.chain) : Above(n, j) \in Kept(n)
  <2>1. Len(n.chain) \in Nat
    BY NetTypes
  <2>. QED BY <2>1, HeadsAreKept DEF Above
<1>3. Operands(n, present, LmHead) = <<Chain(1)>> /\ Operands(n, present, Logits) = <<LmHead>>
  <2>1. Inputs(n, LmHead) = <<Chain(1)>> /\ Inputs(n, Logits) = <<LmHead>>
    BY InputsAre
  <2>. QED BY <1>1, <2>1, HeadsAreKept
<1>4. ASSUME NEW j \in 1 .. Len(n.chain) PROVE Operands(n, present, Chain(j)) = <<Above(n, j)>>
  <2>1. Inputs(n, Chain(j)) = <<Above(n, j)>>
    BY InputsAre
  <2>. QED BY <1>1, <1>2, <2>1, HeadsAreKept
<1>. QED BY <1>3, <1>4

(* How far the chain is collected tells where its ancestor is. *)
LEMMA AncestorIs ==
  ASSUME LayersInv, Kept(net) \subseteq DOMAIN layers,
         NEW m \in 0 .. Len(net.chain), Collected(m)
  PROVE  /\ Len(chain) = m /\ (chain = << >> <=> m = 0) /\ ChainHead = Chain(1)
         /\ m = Len(net.chain) => /\ SharedAncestor = Norm
                                  /\ layers[Norm].type = "layer_normalization"
         /\ m # Len(net.chain) => /\ SharedAncestor = Chain(m + 1)
                                  /\ layers[SharedAncestor].type \in SafeToDuplicate
                                  /\ layers[SharedAncestor].in # << >>
<1>. DEFINE n == net
            D == DOMAIN layers
<1>1. /\ n \in Nets /\ Kept(n) \subseteq D
      /\ \A x \in D : layers[x].in = Operands(n, D, x) /\ layers[x].type = Type(n, Base(x))
  BY DEF LayersInv
<1>2. /\ Len(n.chain) \in Nat \ {0}
      /\ \A j \in 1 .. Len(n.chain) : n.chain[j] \in {"slice", "normalization"}
  BY <1>1, NetTypes
<1>3. /\ layers[LmHead].in = <<Chain(1)>>
      /\ \A j \in 1 .. Len(n.chain) : layers[Chain(j)].in = <<Above(n, j)>>
  BY <1>1, HeadOperands, HeadsAreKept
<1>4. chain = [ j \in 1 .. m |-> Chain(j) ] /\ m \in Nat
  BY <1>2 DEF Collected
<1>5. Len(chain) = m /\ (chain = << >> <=> m = 0) /\ (m # 0 => chain[Len(chain)] = Chain(m))
  <2>1. chain \in Seq({ Chain(j) : j \in 1 .. m }) /\ Len(chain) = m
    BY <1>4
  <2>2. chain = << >> <=> m = 0
    BY <2>1
  <2>. QED BY <1>4, <2>1, <2>2
<1>6. ChainHead = Chain(1)
  BY <1>3 DEF ChainHead
<1>7. SharedAncestor = IF m = Len(n.chain) THEN Norm ELSE Chain(m + 1)
  <2>1. CASE m = 0
    BY <1>2, <1>5, <1>6, <2>1 DEF SharedAncestor
  <2>2. CASE m # 0
    <3>1. m \in 1 .. Len(n.chain) /\ SharedAncestor = layers[Chain(m)].in[1]
      BY <1>2, <1>5, <2>2 DEF SharedAncestor
    <3>2. SharedAncestor = Above(n, m)
      BY <1>3, <3>1
    <3>. QED BY <3>2 DEF Above
  <2>. QED BY <2>1, <2>2
<1>8. layers[Norm].type = "layer_normalization"
  <2>1. Norm \in D /\ Norm = Base(Norm)
    BY <1>1, HeadsAreKept DEF Base, Norm
  <2>. QED BY <1>1, <2>1, TypesAre
<1>9. ASSUME m # Len(n.chain)
      PROVE  layers[SharedAncestor].type \in SafeToDuplicate /\ layers[SharedAncestor].in # << >>
  <2>1. m + 1 \in 1 .. Len(n.chain) /\ SharedAncestor = Chain(m + 1)
    BY <1>2, <1>7, <1>9
  <2>2. Chain(m + 1) \in D /\ Chain(m + 1) = Base(Chain(m + 1))
    BY <1>1, <2>1, HeadsAreKept DEF Base, Chain
  <2>3. layers[Chain(m + 1)].type = n.chain[m + 1]
    BY <1>1, <2>2, TypesAre
  <2>4. layers[Chain(m + 1)].in # << >>
    <3>1. \A y : <<y>> # << >>
      OBVIOUS
    <3>. QED BY <1>3, <2>1, <3>1
  <2>5. layers[Chain(m + 1)].type \in SafeToDuplicate
    BY <1>2, <2>1, <2>3 DEF SafeToDuplicate
  <2>. QED BY <2>1, <2>4, <2>5
<1>. QED BY <1>5, <1>6, <1>7, <1>8, <1>9

(* A step that leaves the graph alone. *)
LEMMA SameGraph ==
  ASSUME SurgeryInv, UNCHANGED <<net, layers>>, pc \notin {"mask", "raised"}, pc' # "mask", PlaceInv'
  PROVE  SurgeryInv'
<1>1. GraphInv'
  BY DEF SurgeryInv, GraphInv
<1>2. LayersInv'
  BY DEF SurgeryInv, LayersInv, Columns, Bound
<1>. QED BY <1>1, <1>2 DEF SurgeryInv

(* Before the first shard. *)
LEMMA NothingSplit ==
  ASSUME NEW n
  PROVE  Split(n, 0 .. 0 - 1) = {} /\ SplitWeights(0 .. 0 - 1) = {}
BY DEF Split, SplitWeights

(* The action MaskEnd. *)
LEMMA MaskEndKeeps ==
  ASSUME SurgeryInv, MaskEnd
  PROVE  SurgeryInv'
<1>1. /\ Untouched /\ todo = << >> /\ net \in Nets /\ pc = "mask"
      /\ layers' = Settled /\ pc' = (IF net.shards > 1 THEN "collect" ELSE "save")
      /\ UNCHANGED <<net, weights, order, todo, newOutput, chain>>
      /\ DOMAIN layers = Kept(net) \cup { todo[k] : k \in DOMAIN todo }
      /\ LayersInv /\ Linked(Settled)
  BY DEF MaskEnd, AfterMask, Settled, SurgeryInv, LayersInv, GraphInv,
         PlaceInv, InRope, InMask, InCollect, InSplit, InSave
<1>2. DOMAIN layers = Kept(net)
  <2>1. DOMAIN todo = {}
    BY <1>1
  <2>. QED BY <1>1, <2>1
<1>3. Input(2) \in DOMAIN layers
  BY <1>2, NamesAre DEF Kept, Input, Ropes, Conv, Slices
<1>4. /\ DOMAIN layers' = Kept(net) /\ layers'[Input(2)].out = newOutput
      /\ \A x \in DOMAIN layers : /\ layers'[x].in = layers[x].in
                                  /\ layers'[x].type = layers[x].type
                                  /\ layers'[x].cols = layers[x].cols
                                  /\ x # Input(2) => layers'[x] = layers[x]
  BY <1>1, <1>2, <1>3, SettledIs
<1>5. layers' \in [DOMAIN layers' -> Layer(net)]
  <2>1. layers' = [layers EXCEPT ![Input(2)] = [layers[Input(2)] EXCEPT !.out = newOutput]]
    BY <1>1 DEF Settled
  <2>2. newOutput \subseteq AllNames(net)
    <3>1. newOutput \subseteq DOMAIN layers'
      BY <1>1, <1>2, <1>3, <1>4 DEF Linked
    <3>. QED BY <1>1, <1>2, <1>4, <3>1 DEF LayersInv
  <2>3. layers \in [Kept(net) -> Layer(net)]
    BY <1>1, <1>2 DEF LayersInv
  <2>. DEFINE r == layers[Input(2)]
  <2>4. [r EXCEPT !.out = newOutput] \in Layer(net)
    <3>1. r \in Layer(net)
      BY <1>2, <1>3, <2>3
    <3>. HIDE DEF r
    <3>. QED BY <2>2, <3>1 DEF Layer
  <2>. QED BY <1>2, <1>4, <2>1, <2>3, <2>4
<1>6. LayersInv'
  BY <1>1, <1>2, <1>4, <1>5, SMTT(30) DEF LayersInv, Columns, Bound
<1>7. PlaceInv'
  <2>1. CASE net.shards > 1
    <3>1. chain = [ j \in 1 .. 0 |-> Chain(j) ]
      BY <1>1 DEF Untouched
    <3>2. 0 \in 0 .. Len(net.chain)
      BY <1>1, NetTypes
    <3>3. InCollect'
      BY <1>1, <1>4, <2>1, <3>1, <3>2 DEF InCollect, Collected, Untouched
    <3>. QED BY <3>3 DEF PlaceInv
  <2>2. CASE ~ (net.shards > 1)
    <3>1. net.shards = 1
      BY <1>1, <2>2, NetTypes
    <3>2. InSave'
      BY <1>1, <1>4, <2>2, <3>1 DEF InSave, Untouched
    <3>. QED BY <3>2 DEF PlaceInv
  <2>. QED BY <2>1, <2>2
<1>8. GraphInv'
  BY <1>1 DEF GraphInv
<1>. QED BY <1>6, <1>7, <1>8 DEF SurgeryInv

(* The action CollectStep. *)
LEMMA CollectStepKeeps ==
  ASSUME SurgeryInv, CollectStep
  PROVE  SurgeryInv'
<1>1. /\ todo = << >> /\ order = <<LmHead>> /\ weights = Weighted(net) /\ net \in Nets
      /\ DOMAIN layers = Kept(net) /\ pc = "collect" /\ LayersInv
      /\ \E m \in 0 .. Len(net.chain) : Collected(m)
  BY DEF CollectStep, SurgeryInv, LayersInv, PlaceInv, InRope, InMask, InCollect, InSplit, InSave
<1>2. PICK m \in 0 .. Len(net.chain) : Collected(m)
  BY <1>1
<1>3. /\ Collectable /\ chain' = Append(chain, SharedAncestor)
      /\ UNCHANGED <<net, layers, weights, order, todo, newOutput, pc>>
  BY DEF CollectStep
<1>4. m # Len(net.chain) /\ SharedAncestor = Chain(m + 1) /\ Len(chain) = m
  <2>1. /\ m = Len(net.chain) => /\ SharedAncestor = Norm
                                 /\ layers[Norm].type = "layer_normalization"
        /\ m # Len(net.chain) => SharedAncestor = Chain(m + 1)
        /\ Len(chain) = m
    BY <1>1, <1>2, AncestorIs
  <2>2. layers[SharedAncestor].type \in {"slice", "normalization"}
    BY <1>3 DEF Collectable, SafeToDuplicate
  <2>. QED BY <2>1, <2>2
<1>5. m + 1 \in 0 .. Len(net.chain) /\ m \in Nat
  <2>1. Len(net.chain) \in Nat
    BY <1>1, NetTypes
  <2>. QED BY <1>2, <1>4, <2>1
<1>6. Append(chain, Chain(m + 1)) = [ j \in 1 .. m + 1 |-> Chain(j) ]
  BY <1>2, <1>4, <1>5 DEF Collected
<1>7. InCollect'
  BY <1>1, <1>3, <1>4, <1>5, <1>6 DEF InCollect, Collected
<1>. QED BY <1>1, <1>3, <1>7, SameGraph DEF PlaceInv

(* The action CollectEnd. *)
LEMMA CollectEndKeeps ==
  ASSUME SurgeryInv, CollectEnd
  PROVE  SurgeryInv'
<1>1. /\ todo = << >> /\ order = <<LmHead>> /\ weights = Weighted(net) /\ net \in Nets
      /\ DOMAIN layers = Kept(net) /\ pc = "collect" /\ LayersInv
      /\ \E m \in 0 .. Len(net.chain) : Collected(m)
  BY DEF CollectEnd, SurgeryInv, LayersInv, PlaceInv, InRope, InMask, InCollect, InSplit, InSave
<1>2. PICK m \in 0 .. Len(net.chain) : Collected(m)
  BY <1>1
<1>3. /\ ~ Collectable /\ pc' = "split" /\ todo' = [ k \in 1 .. net.shards |-> k - 1 ]
      /\ UNCHANGED <<net, layers, weights, order, newOutput, chain>>
  BY DEF CollectEnd
<1>4. m = Len(net.chain)
  BY <1>1, <1>2, <1>3, AncestorIs DEF Collectable
<1>5. net.shards \in Nat
  BY <1>1, NetTypes
<1>6. [ k \in 1 .. net.shards |-> k - 1 ] = [ k \in 1 .. net.shards - 0 |-> 0 + k - 1 ]
  BY <1>5
<1>7. InSplit'
  <2>1. 0 \in 0 .. net.shards
    BY <1>5
  <2>2. Split(net, 0 .. 0 - 1) = {} /\ SplitWeights(0 .. 0 - 1) = {}
    BY NothingSplit
  <2>3. SplitWeights(0 .. 0 - 1)' = {}
    BY <1>3, <2>2 DEF SplitWeights
  <2>. QED BY <1>1, <1>2, <1>3, <1>4, <1>6, <2>1, <2>2, <2>3 DEF InSplit, Collected
<1>. QED BY <1>1, <1>3, <1>7, SameGraph DEF PlaceInv

-----------------------------------------------------------------------------
(* A shard. *)

(* A copy has a name of its shard. *)
LEMMA SplitNames ==
  ASSUME NEW n \in Nets, NEW s \in 0 .. n.shards - 1, NEW x \in Heads(n)
  PROVE  Copy(x, s) \in AllNames(n) /\ Copy(x, s) \in Split(n, {s})
BY DEF AllNames, Split

(* Layers of the chain differ by their index. *)
LEMMA ChainsDiffer == \A i, j : Chain(i) = Chain(j) => i = j
BY DEF Chain

(* The copies of the chain, layer by layer. *)
LEMMA CopiesOfChain ==
  ASSUME LayersInv, Kept(net) \subseteq DOMAIN layers, Collected(Len(net.chain)),
         NEW s \in 0 .. net.shards - 1
  PROVE  /\ DOMAIN Copies(s) = { Copy(x, s) : x \in Chains(net) }
         /\ \A j \in 1 .. Len(net.chain) :
              LET c == Copies(s)[Copy(Chain(j), s)]
              IN  /\ c \in Layer(net) /\ c.type = Type(net, Chain(j))
                  /\ c.in = <<IF j = Len(net.chain) THEN Norm ELSE Copy(Chain(j + 1), s)>>
                  /\ c.out = {IF j = 1 THEN Copy(LmHead, s) ELSE Copy(Chain(j - 1), s)}
<1>. DEFINE last == Len(net.chain)
<1>1. net \in Nets /\ last \in Nat \ {0} /\ Len(chain) = last /\ SharedAncestor = Norm
  <2>1. net \in Nets
    BY DEF LayersInv
  <2>2. last \in Nat \ {0} /\ last \in 0 .. last
    BY <2>1, NetTypes
  <2>3. last = Len(net.chain)
    OBVIOUS
  <2>. HIDE DEF last
  <2>. QED BY <2>1, <2>2, <2>3, AncestorIs
<1>2. \A j \in 1 .. last : chain[j] = Chain(j)
  BY DEF Collected
<1>3. \A j \in 1 .. last : /\ Chain(j) \in Heads(net) /\ layers[Chain(j)] \in Layer(net)
                           /\ layers[Chain(j)].type = Type(net, Chain(j))
  <2>. SUFFICES ASSUME NEW j \in 1 .. last
                PROVE  /\ Chain(j) \in Heads(net) /\ layers[Chain(j)] \in Layer(net)
                       /\ layers[Chain(j)].type = Type(net, Chain(j))
    OBVIOUS
  <2>1. Chain(j) \in Heads(net) /\ Chain(j) \in DOMAIN layers
    BY <1>1, HeadsAreKept
  <2>2. Base(Chain(j)) = Chain(j)
    BY DEF Base, Chain
  <2>. QED BY <2>1, <2>2 DEF LayersInv
<1>4. \A i, j \in 1 .. last : Copy(Chain(i), s) = Copy(Chain(j), s) => i = j
  BY <1>1, <1>3, CopiesDiffer, ChainsDiffer
<1>5. ASSUME NEW y \in AllNames(net)
      PROVE  <<y>> \in Seq(AllNames(net))
  OBVIOUS
<1>. DEFINE N == { Copy(chain[j], s) : j \in 1 .. last }
<1>6. DOMAIN Copies(s) = N
  BY <1>1 DEF Copies
<1>7. N = { Copy(x, s) : x \in Chains(net) }
  BY <1>2 DEF Chains
<1>8. ASSUME NEW j \in 1 .. last
      PROVE  LET c == Copies(s)[Copy(Chain(j), s)]
             IN  /\ c \in Layer(net) /\ c.type = Type(net, Chain(j))
                 /\ c.in = <<IF j = last THEN Norm ELSE Copy(Chain(j + 1), s)>>
                 /\ c.out = {IF j = 1 THEN Copy(LmHead, s) ELSE Copy(Chain(j - 1), s)}
  <2>. DEFINE name == Copy(Chain(j), s)
              i == CHOOSE k \in 1 .. Len(chain) : Copy(chain[k], s) = name
              r == layers[chain[j]]
              up == IF j = last THEN Norm ELSE Copy(Chain(j + 1), s)
              down == IF j = 1 THEN Copy(LmHead, s) ELSE Copy(Chain(j - 1), s)
  <2>1. i \in 1 .. last /\ Copy(chain[i], s) = name
    BY <1>1, <1>2
  <2>2. i = j
    BY <1>2, <1>4, <2>1
  <2>3. name \in { Copy(chain[k], s) : k \in 1 .. Len(chain) }
    BY <1>1, <1>2
  <2>4. Copies(s)[name] =
          [ layers[chain[i]] EXCEPT
              !.in = <<IF i = Len(chain) THEN SharedAncestor ELSE Copy(chain[i + 1], s)>>,
              !.out = {IF i = 1 THEN Copy(LmHead, s) ELSE Copy(chain[i - 1], s)} ]
    BY ONLY <2>3 DEF Copies, i
  <2>5. (IF j = last THEN SharedAncestor ELSE Copy(chain[j + 1], s)) = up
    <3>1. j # last => j + 1 \in 1 .. last
      BY <1>1
    <3>. QED BY <1>1, <1>2, <3>1
  <2>6. (IF j = 1 THEN Copy(LmHead, s) ELSE Copy(chain[j - 1], s)) = down
    <3>1. j # 1 => j - 1 \in 1 .. last
      BY <1>1
    <3>. QED BY <1>1, <1>2, <3>1
  <2>7. up \in AllNames(net) /\ down \in AllNames(net)
    <3>1. j # last => j + 1 \in 1 .. last
      BY <1>1
    <3>2. j # 1 => j - 1 \in 1 .. last
      BY <1>1
    <3>3. Norm \in AllNames(net)
      BY <1>1, HeadsAreKept DEF AllNames
    <3>. QED BY <1>1, <1>3, <3>1, <3>2, <3>3, SplitNames, HeadsAreKept
  <2>8. r \in Layer(net) /\ r.type = Type(net, Chain(j))
    BY <1>2, <1>3
  <2>. HIDE DEF i, up, down
  <2>9. Copies(s)[name] = [ r EXCEPT !.in = <<up>>, !.out = {down} ]
    BY <1>1, <2>2, <2>4, <2>5, <2>6
  <2>10. <<up>> \in Seq(AllNames(net)) /\ {down} \in SUBSET AllNames(net)
    BY <1>5, <2>7
  <2>. HIDE DEF r, name
  <2>11. /\ Copies(s)[name] \in Layer(net) /\ Copies(s)[name].type = r.type
         /\ Copies(s)[name].in = <<up>> /\ Copies(s)[name].out = {down}
    BY <2>8, <2>9, <2>10 DEF Layer
  <2>. QED BY <2>8, <2>11 DEF name, up, down
<1>. QED BY <1>6, <1>7, <1>8

(* The shard's lm_head and its output. *)
LEMMA ShardHeads ==
  ASSUME LayersInv, Linked(layers), Kept(net) \subseteq DOMAIN layers, Collected(Len(net.chain)),
         NEW s \in 0 .. net.shards - 1
  PROVE  /\ DOMAIN ShardLayers(s) = { Copy(LmHead, s), Copy(Logits, s) }
         /\ LET head == ShardLayers(s)[Copy(LmHead, s)]
            IN  /\ head \in Layer(net) /\ head.type = Type(net, LmHead)
                /\ head.in = <<Copy(Chain(1), s)>> /\ head.out = {Copy(Logits, s)}
                /\ head.cols = Bound(s) .. Bound(s + 1) - 1
         /\ LET logits == ShardLayers(s)[Copy(Logits, s)]
            IN  /\ logits \in Layer(net) /\ logits.type = Type(net, Logits)
                /\ logits.in = <<Copy(LmHead, s)>> /\ logits.out = layers[Logits].out
<1>. DEFINE last == Len(net.chain)
            H == Copy(LmHead, s)
            O == Copy(Logits, s)
            up == Copy(Chain(1), s)
            cols == Bound(s) .. Bound(s + 1) - 1
<1>1. /\ net \in Nets /\ chain # << >> /\ ChainHead = Chain(1)
  <2>1. net \in Nets
    BY DEF LayersInv
  <2>2. last \in Nat \ {0} /\ last \in 0 .. last
    BY <2>1, NetTypes
  <2>3. last = Len(net.chain)
    OBVIOUS
  <2>. HIDE DEF last
  <2>. QED BY <2>1, <2>2, <2>3, AncestorIs
<1>2. /\ layers[LmHead] \in Layer(net) /\ layers[LmHead].type = Type(net, LmHead)
      /\ layers[Logits] \in Layer(net) /\ layers[Logits].type = Type(net, Logits)
  <2>1. LmHead \in DOMAIN layers /\ Logits \in DOMAIN layers
    BY <1>1, HeadsAreKept
  <2>2. Base(LmHead) = LmHead /\ Base(Logits) = Logits
    BY DEF Base, LmHead, Logits
  <2>. QED BY <2>1, <2>2 DEF LayersInv
<1>3. up \in AllNames(net) /\ H \in AllNames(net) /\ O \in AllNames(net)
  BY <1>1, SplitNames, HeadsAreKept
<1>4. <<up>> \in Seq(AllNames(net)) /\ <<H>> \in Seq(AllNames(net))
  BY <1>3
<1>5. cols \in SUBSET Int
  OBVIOUS
<1>6. H # O
  BY <1>1, CopiesDiffer, HeadsAreKept DEF LmHead, Logits
<1>7. DOMAIN ShardLayers(s) = {H, O}
  BY DEF ShardLayers
<1>8. /\ ShardLayers(s)[H] = [layers[LmHead] EXCEPT !.in = <<up>>, !.out = {O}, !.cols = cols]
      /\ ShardLayers(s)[O] = [layers[Logits] EXCEPT !.in = <<H>>]
  BY <1>1, <1>6 DEF ShardLayers
<1>. DEFINE head == layers[LmHead]
            logits == layers[Logits]
<1>9. /\ ShardLayers(s)[H] = [head EXCEPT !.in = <<up>>, !.out = {O}, !.cols = cols]
      /\ ShardLayers(s)[O] = [logits EXCEPT !.in = <<H>>]
      /\ head \in Layer(net) /\ head.type = Type(net, LmHead)
      /\ logits \in Layer(net) /\ logits.type = Type(net, Logits)
      /\ {O} \in SUBSET AllNames(net)
  BY <1>2, <1>3, <1>8
<1>. HIDE DEF head, logits, H, O, up, cols
<1>10. /\ ShardLayers(s)[H] \in Layer(net) /\ ShardLayers(s)[H].type = Type(net, LmHead)
       /\ ShardLayers(s)[H].in = <<up>> /\ ShardLayers(s)[H].out = {O}
       /\ ShardLayers(s)[H].cols = cols
  BY <1>4, <1>5, <1>9 DEF Layer
<1>11. /\ ShardLayers(s)[O] \in Layer(net) /\ ShardLayers(s)[O].type = Type(net, Logits)
       /\ ShardLayers(s)[O].in = <<H>> /\ ShardLayers(s)[O].out = logits.out
  BY <1>4, <1>9 DEF Layer
<1>. QED BY <1>7, <1>10, <1>11 DEF H, O, up, cols, logits
(* The operands of a shard's layers. *)
LEMMA CopyOperands ==
  ASSUME NEW n \in Nets, NEW present, NEW s
  PROVE  /\ Operands(n, present, Copy(LmHead, s)) = <<Copy(Chain(1), s)>>
         /\ Operands(n, present, Copy(Logits, s)) = <<Copy(LmHead, s)>>
         /\ \A j \in 1 .. Len(n.chain) : Operands(n, present, Copy(Chain(j), s)) =
              <<IF j = Len(n.chain) THEN Norm ELSE Copy(Chain(j + 1), s)>>
<1>1. ASSUME NEW x \in Heads(n), NEW y, Inputs(n, x) = <<y>>
      PROVE  Operands(n, present, Copy(x, s)) = <<CopyIn(y, s)>>
  <2>1. Copy(x, s) \notin Names(n) /\ Base(Copy(x, s)) = x /\ Copy(x, s)[3] = s
    BY CopiesAre
  <2>2. Operands(n, present, Copy(x, s)) = [ k \in 1 .. 1 |-> CopyIn(y, s) ]
    BY <1>1, <2>1 DEF Operands
  <2>. QED BY <2>2
<1>2. Chain(1) # Norm /\ LmHead # Norm /\ \A j : Chain(j) # Norm
  BY DEF Chain, Norm, LmHead
<1>3. Operands(n, present, Copy(LmHead, s)) = <<Copy(Chain(1), s)>>
  <2>1. Inputs(n, LmHead) = <<Chain(1)>>
    BY InputsAre
  <2>. QED BY <1>1, <1>2, <2>1, HeadsAreKept DEF CopyIn
<1>4. Operands(n, present, Copy(Logits, s)) = <<Copy(LmHead, s)>>
  <2>1. Inputs(n, Logits) = <<LmHead>>
    BY InputsAre
  <2>. QED BY <1>1, <1>2, <2>1, HeadsAreKept DEF CopyIn
<1>5. ASSUME NEW j \in 1 .. Len(n.chain)
      PROVE  Operands(n, present, Copy(Chain(j), s)) =
               <<IF j = Len(n.chain) THEN Norm ELSE Copy(Chain(j + 1), s)>>
  <2>1. Inputs(n, Chain(j)) = <<Above(n, j)>>
    BY InputsAre
  <2>2. Operands(n, present, Copy(Chain(j), s)) = <<CopyIn(Above(n, j), s)>>
    BY <1>1, <2>1, HeadsAreKept
  <2>. QED BY <1>2, <2>2 DEF CopyIn, Above
<1>. QED BY <1>3, <1>4, <1>5

(* An output layer has no readers. *)
LEMMA NoneReadsLogits ==
  ASSUME LayersInv, Linked(layers), Logits \in DOMAIN layers
  PROVE  layers[Logits].out = {}
<1>1. /\ net \in Nets /\ DOMAIN layers \subseteq AllNames(net)
      /\ \A x \in DOMAIN layers : layers[x].in = Operands(net, DOMAIN layers, x)
      /\ layers[Logits].out = { b \in DOMAIN layers : Reads(layers, b, Logits) }
  BY DEF LayersInv, Linked
<1>. SUFFICES ASSUME NEW b \in DOMAIN layers, NEW k \in DOMAIN layers[b].in, layers[b].in[k] = Logits
              PROVE  FALSE
  BY <1>1 DEF Reads
<1>2. CASE b \in Names(net)
  <2>. DEFINE y == Inputs(net, b)[k]
  <2>1. k \in DOMAIN Inputs(net, b) /\ Logits = StandIn(DOMAIN layers, y)
    BY <1>1, <1>2 DEF Operands
  <2>2. \A i : Logits # Input(i)
    BY DEF Logits, Input
  <2>3. y = Logits
    BY <2>1, <2>2 DEF StandIn
  <2>4. y # Logits
    BY <1>1, <1>2, <2>1, WhoReads
  <2>. QED BY <2>3, <2>4
<1>3. CASE b \notin Names(net)
  <2>1. PICK x \in Heads(net), s \in 0 .. net.shards - 1 : b = Copy(x, s)
    BY <1>1, <1>3 DEF AllNames, Split
  <2>2. \A y \in Heads(net) : Logits # Copy(y, s)
    BY <1>1, HeadsAreKept, CopiesAre
  <2>3. Logits # Norm /\ Len(net.chain) \in Nat
    BY <1>1, NetTypes DEF Logits, Norm
  <2>4. CASE x = LmHead
    <3>1. layers[b].in = <<Copy(Chain(1), s)>>
      BY <1>1, <2>1, <2>4, CopyOperands
    <3>. QED BY <1>1, <2>2, <3>1, HeadsAreKept
  <2>5. CASE x = Logits
    <3>1. layers[b].in = <<Copy(LmHead, s)>>
      BY <1>1, <2>1, <2>5, CopyOperands
    <3>. QED BY <1>1, <2>2, <3>1, HeadsAreKept
  <2>6. CASE \E j \in 1 .. Len(net.chain) : x = Chain(j)
    <3>1. PICK j \in 1 .. Len(net.chain) : x = Chain(j)
      BY <2>6
    <3>2. layers[b].in = <<IF j = Len(net.chain) THEN Norm ELSE Copy(Chain(j + 1), s)>>
      <4>. DEFINE D == DOMAIN layers
      <4>1. net \in Nets /\ layers[b].in = Operands(net, D, Copy(Chain(j), s))
        BY <1>1, <2>1, <3>1
      <4>. HIDE DEF D
      <4>2. \A i \in 1 .. Len(net.chain) : Operands(net, D, Copy(Chain(i), s)) =
              <<IF i = Len(net.chain) THEN Norm ELSE Copy(Chain(i + 1), s)>>
        BY ONLY <4>1, CopyOperands
      <4>. QED BY <4>1, <4>2
    <3>3. j # Len(net.chain) => Chain(j + 1) \in Heads(net)
      BY <1>1, <2>3, HeadsAreKept
    <3>. QED BY <2>2, <2>3, <3>2, <3>3
  <2>. QED BY <2>4, <2>5, <2>6 DEF Heads, Chains
<1>. QED BY <1>2, <1>3

(* New layers, which read each other and old ones, whose consumers grow.   *)
LEMMA Grows ==
  ASSUME NEW l, Linked(l), NEW m, NEW new, new \cap DOMAIN l = {}, DOMAIN m = DOMAIN l \cup new,
         \A x \in DOMAIN l : /\ m[x].in = l[x].in
                             /\ m[x].out = l[x].out \cup { b \in new : Reads(m, b, x) },
         \A x \in new : /\ m[x].out = { b \in new : Reads(m, b, x) }
                        /\ \A k \in DOMAIN m[x].in : m[x].in[k] \in DOMAIN m
  PROVE  Linked(m)
<1>1. /\ \A x \in DOMAIN l : l[x].out = { b \in DOMAIN l : Reads(l, b, x) }
      /\ \A x \in DOMAIN l : \A k \in DOMAIN l[x].in : l[x].in[k] \in DOMAIN l
  BY DEF Linked
<1>2. \A b \in DOMAIN l : \A x : Reads(m, b, x) <=> Reads(l, b, x)
  BY DEF Reads
<1>3. ASSUME NEW x \in DOMAIN l PROVE m[x].out = { b \in DOMAIN m : Reads(m, b, x) }
  <2>1. m[x].out = { b \in DOMAIN l : Reads(l, b, x) } \cup { b \in new : Reads(m, b, x) }
    BY <1>1
  <2>. QED BY <1>2, <2>1
<1>4. ASSUME NEW x \in new PROVE m[x].out = { b \in DOMAIN m : Reads(m, b, x) }
  <2>1. \A b \in DOMAIN l : ~ Reads(l, b, x)
    BY <1>1 DEF Reads
  <2>. QED BY <1>2, <2>1
<1>5. \A x \in DOMAIN m : \A k \in DOMAIN m[x].in : m[x].in[k] \in DOMAIN m
  BY <1>1
<1>. QED BY <1>3, <1>4, <1>5 DEF Linked

(* What the layers of a shard read. *)
LEMMA ShardReads ==
  ASSUME NEW n \in Nets, NEW s, NEW l,
         l[Copy(LmHead, s)].in = <<Copy(Chain(1), s)>>,
         l[Copy(Logits, s)].in = <<Copy(LmHead, s)>>,
         \A j \in 1 .. Len(n.chain) : l[Copy(Chain(j), s)].in =
           <<IF j = Len(n.chain) THEN Norm ELSE Copy(Chain(j + 1), s)>>
  PROVE  LET new == Split(n, {s})
             readers(x) == { b \in new : Reads(l, b, x) }
         IN  /\ readers(Norm) = {Copy(Chain(Len(n.chain)), s)}
             /\ readers(Copy(Logits, s)) = {} /\ readers(Copy(LmHead, s)) = {Copy(Logits, s)}
             /\ \A j \in 1 .. Len(n.chain) : readers(Copy(Chain(j), s)) =
                  {IF j = 1 THEN Copy(LmHead, s) ELSE Copy(Chain(j - 1), s)}
             /\ \A x \in Names(n) \ {Norm} : readers(x) = {}
             /\ \A x \in Heads(n) : \A t : t # s => readers(Copy(x, t)) = {}
<1>. DEFINE last == Len(n.chain)
            C(j) == Copy(Chain(j), s)
            H == Copy(LmHead, s)
            O == Copy(Logits, s)
            new == Split(n, {s})
            readers(x) == { b \in new : Reads(l, b, x) }
<1>1. last \in Nat \ {0} /\ 1 \in 1 .. last /\ last \in 1 .. last
  BY NetTypes
<1>2. /\ H # O /\ \A j \in 1 .. last : C(j) # H /\ C(j) # O
      /\ \A i, j \in 1 .. last : C(i) = C(j) => i = j
      /\ H # Norm /\ O # Norm /\ \A j \in 1 .. last : C(j) # Norm
  <2>1. \A j : Chain(j) # LmHead /\ Chain(j) # Logits
    BY DEF Chain, LmHead, Logits
  <2>2. LmHead # Logits
    BY DEF LmHead, Logits
  <2>3. H # O /\ \A j \in 1 .. last : C(j) # H /\ C(j) # O
    BY <2>1, <2>2, HeadsAreKept, CopiesDiffer
  <2>4. \A i, j \in 1 .. last : C(i) = C(j) => i = j
    BY HeadsAreKept, CopiesDiffer, ChainsDiffer
  <2>5. H # Norm /\ O # Norm /\ \A j \in 1 .. last : C(j) # Norm
    BY HeadsAreKept, CopiesAre
  <2>. QED BY <2>3, <2>4, <2>5
<1>3. new = { C(j) : j \in 1 .. last } \cup {H, O}
  BY DEF Split, Heads, Chains
<1>. DEFINE up(j) == IF j = last THEN Norm ELSE C(j + 1)
<1>4. l[H].in = <<C(1)>> /\ l[O].in = <<H>> /\ \A j \in 1 .. last : l[C(j)].in = <<up(j)>>
  OBVIOUS
<1>5. \A x, y : l[x].in = <<y>> => \A z : Reads(l, x, z) <=> z = y
  BY DEF Reads
<1>. HIDE DEF C, H, O, new, last, up
<1>6. /\ \A z : Reads(l, H, z) <=> z = C(1)
      /\ \A z : Reads(l, O, z) <=> z = H
      /\ \A j \in 1 .. last : \A z : Reads(l, C(j), z) <=> z = up(j)
  BY ONLY <1>4, <1>5
<1>7. \A j \in 1 .. last : \/ j = last /\ up(j) = Norm
                           \/ j # last /\ up(j) = C(j + 1) /\ j + 1 \in 1 .. last
  BY <1>1 DEF up
<1>8. readers(Norm) = {C(last)}
  BY <1>1, <1>2, <1>3, <1>6, <1>7
<1>9. readers(O) = {}
  BY <1>1, <1>2, <1>3, <1>6, <1>7
<1>10. readers(H) = {O}
  BY <1>1, <1>2, <1>3, <1>6, <1>7
<1>11. ASSUME NEW j \in 1 .. last PROVE readers(C(j)) = {IF j = 1 THEN H ELSE C(j - 1)}
  <2>1. Reads(l, H, C(j)) <=> j = 1
    BY <1>1, <1>2, <1>6
  <2>2. ~ Reads(l, O, C(j))
    BY <1>2, <1>6
  <2>3. \A i \in 1 .. last : Reads(l, C(i), C(j)) <=> i = j - 1
    BY <1>1, <1>2, <1>6, <1>7
  <2>4. j # 1 => j - 1 \in 1 .. last
    BY <1>1
  <2>5. CASE j = 1
    BY <1>1, <1>3, <2>1, <2>2, <2>3, <2>5
  <2>6. CASE j # 1
    BY <1>1, <1>3, <2>1, <2>2, <2>3, <2>4, <2>6
  <2>. QED BY <2>5, <2>6
<1>12. \A b \in new : \A z : Reads(l, b, z) => z = Norm \/ z \in new
  <2>1. C(1) \in new /\ H \in new /\ \A j \in 1 .. last : up(j) = Norm \/ up(j) \in new
    BY <1>1, <1>3, <1>7
  <2>. QED BY <1>3, <1>6, <2>1
<1>13. new \cap Names(n) = {}
  BY CopiesAre DEF Split, new
<1>14. \A x \in Heads(n) : \A t : t # s => Copy(x, t) \notin new /\ Copy(x, t) # Norm
  <2>1. \A x \in Heads(n) : \A t : Copy(x, t) # Norm
    BY HeadsAreKept, CopiesAre
  <2>. QED BY <2>1, CopiesDiffer DEF Split, new
<1>15. \A x \in Names(n) \ {Norm} : readers(x) = {}
  BY <1>12, <1>13
<1>16. \A x \in Heads(n) : \A t : t # s => readers(Copy(x, t)) = {}
  BY <1>12, <1>14
<1>. QED BY <1>8, <1>9, <1>10, <1>11, <1>15, <1>16 DEF C, H, O, new, last

(* The shards so far, and one more. *)
LEMMA OneMoreShard ==
  ASSUME NEW n, NEW m \in Nat
  PROVE  /\ Split(n, 0 .. m) = Split(n, 0 .. m - 1) \cup Split(n, {m})
         /\ SplitWeights(0 .. m) = SplitWeights(0 .. m - 1) \cup SplitWeights({m})
<1>1. 0 .. m = (0 .. m - 1) \cup {m}
  OBVIOUS
<1>2. ASSUME NEW A, NEW B
      PROVE  /\ Split(n, A \cup B) = Split(n, A) \cup Split(n, B)
             /\ SplitWeights(A \cup B) = SplitWeights(A) \cup SplitWeights(B)
  <2>1. Split(n, A \cup B) = Split(n, A) \cup Split(n, B)
    BY DEF Split
  <2>2. SplitWeights(A \cup B) = SplitWeights(A) \cup SplitWeights(B)
    BY DEF SplitWeights
  <2>. QED BY <2>1, <2>2
<1>. QED BY <1>1, <1>2

(* A shard's layers: what LayersInv says of copies, and who reads whom. *)
ShardGiven(n, s, l) ==
  LET H == Copy(LmHead, s)
      O == Copy(Logits, s)
      C(j) == Copy(Chain(j), s)
      last == Len(n.chain)
  IN  /\ \A x \in Split(n, {s}) :
           /\ l[x] \in Layer(n) /\ l[x].type = Type(n, Base(x))
           /\ x[1] = "lm_head" => l[x].cols = Columns(n, x)
      /\ l[H].in = <<C(1)>> /\ l[H].out = {O} /\ l[O].in = <<H>> /\ l[O].out = {}
      /\ \A j \in 1 .. last :
           /\ l[C(j)].in = <<IF j = last THEN Norm ELSE C(j + 1)>>
           /\ l[C(j)].out = {IF j = 1 THEN H ELSE C(j - 1)}

(* What a turn of lm_head_split adds. *)
LEMMA AddedAre ==
  ASSUME LayersInv, Linked(layers), Kept(net) \subseteq DOMAIN layers, Collected(Len(net.chain)),
         NEW s \in 0 .. net.shards - 1, NEW added, added = Extended(Copies(s), ShardLayers(s))
  PROVE  DOMAIN added = Split(net, {s}) /\ ShardGiven(net, s, added)
<1>. DEFINE H == Copy(LmHead, s)
            O == Copy(Logits, s)
            C(j) == Copy(Chain(j), s)
            last == Len(net.chain)
            chains == { Copy(x, s) : x \in Chains(net) }
<1>1. net \in Nets /\ last \in Nat
  <2>1. net \in Nets
    BY DEF LayersInv
  <2>. QED BY <2>1, NetTypes
<1>2. /\ DOMAIN Copies(s) = chains
      /\ \A j \in 1 .. last :
           /\ Copies(s)[C(j)] \in Layer(net) /\ Copies(s)[C(j)].type = Type(net, Chain(j))
           /\ Copies(s)[C(j)].in = <<IF j = last THEN Norm ELSE C(j + 1)>>
           /\ Copies(s)[C(j)].out = {IF j = 1 THEN H ELSE C(j - 1)}
  BY CopiesOfChain
<1>3. /\ DOMAIN ShardLayers(s) = {H, O}
      /\ ShardLayers(s)[H] \in Layer(net) /\ ShardLayers(s)[H].type = Type(net, LmHead)
      /\ ShardLayers(s)[H].in = <<C(1)>> /\ ShardLayers(s)[H].out = {O}
      /\ ShardLayers(s)[H].cols = Bound(s) .. Bound(s + 1) - 1
      /\ ShardLayers(s)[O] \in Layer(net) /\ ShardLayers(s)[O].type = Type(net, Logits)
      /\ ShardLayers(s)[O].in = <<H>> /\ ShardLayers(s)[O].out = layers[Logits].out
  BY ShardHeads
<1>4. layers[Logits].out = {}
  BY <1>1, HeadsAreKept, NoneReadsLogits
<1>5. H # O /\ \A j \in 1 .. last : C(j) # H /\ C(j) # O /\ C(j) \in chains
  <2>1. \A j : Chain(j) # LmHead /\ Chain(j) # Logits
    BY DEF Chain, LmHead, Logits
  <2>2. LmHead # Logits
    BY DEF LmHead, Logits
  <2>. QED BY <1>1, <2>1, <2>2, HeadsAreKept, CopiesDiffer DEF Chains
<1>6. DOMAIN added = Split(net, {s})
  <2>1. DOMAIN added = chains \cup {H, O}
    BY <1>2, <1>3 DEF Extended
  <2>. QED BY <2>1 DEF Split, Heads
<1>7. \A x \in chains : \E j \in 1 .. last : x = C(j)
  BY DEF Chains
<1>8. /\ Base(H) = LmHead /\ Base(O) = Logits /\ H[3] = s /\ O[1] = "output_layer"
      /\ \A j \in 1 .. last : Base(C(j)) = Chain(j) /\ C(j)[1] = "chain"
  <2>1. LmHead \in Heads(net) /\ Logits \in Heads(net) /\ \A j \in 1 .. last : Chain(j) \in Heads(net)
    BY <1>1, HeadsAreKept
  <2>2. Base(H) = LmHead /\ Base(O) = Logits /\ H[3] = s /\ O[1] = Logits[1]
    BY <2>1, CopiesAre
  <2>3. \A j \in 1 .. last : Base(C(j)) = Chain(j) /\ C(j)[1] = Chain(j)[1]
    BY <2>1, CopiesAre
  <2>. QED BY <2>2, <2>3 DEF Logits, Chain
<1>9. added[H] = ShardLayers(s)[H] /\ added[O] = ShardLayers(s)[O]
  BY <1>3 DEF Extended
<1>10. \A j \in 1 .. last : added[C(j)] = Copies(s)[C(j)]
  BY <1>2, <1>3, <1>5 DEF Extended
<1>11. DOMAIN added = chains \cup {H, O}
  BY <1>2, <1>3 DEF Extended
<1>12. H # LmHead
  BY <1>1, HeadsAreKept, CopiesAre
<1>. HIDE DEF H, O, C, last, chains
<1>13. ASSUME NEW x \in DOMAIN added
       PROVE  /\ added[x] \in Layer(net) /\ added[x].type = Type(net, Base(x))
              /\ x[1] = "lm_head" => added[x].cols = Columns(net, x)
  <2>1. CASE x = H
    BY <1>3, <1>8, <1>9, <1>12, <2>1 DEF Columns
  <2>2. CASE x = O
    BY <1>3, <1>8, <1>9, <2>2
  <2>3. CASE x \in chains
    BY <1>2, <1>7, <1>8, <1>10, <2>3
  <2>. QED BY <1>11, <2>1, <2>2, <2>3
<1>14. /\ added[H].in = <<C(1)>> /\ added[H].out = {O}
       /\ added[O].in = <<H>> /\ added[O].out = {}
  BY <1>3, <1>4, <1>9
<1>15. \A j \in 1 .. last : /\ added[C(j)].in = <<IF j = last THEN Norm ELSE C(j + 1)>>
                            /\ added[C(j)].out = {IF j = 1 THEN H ELSE C(j - 1)}
  BY <1>2, <1>10
<1>16. ShardGiven(net, s, added)
  <2>1. \A x \in Split(net, {s}) :
           /\ added[x] \in Layer(net) /\ added[x].type = Type(net, Base(x))
           /\ x[1] = "lm_head" => added[x].cols = Columns(net, x)
    BY <1>6, <1>13
  <2>. QED BY <1>14, <1>15, <2>1 DEF H, O, C, last, ShardGiven
<1>. QED BY <1>6, <1>16

(* What is in the graph does not change when copies join it.               *)
LEMMA CopiesStandForNone ==
  ASSUME NEW n \in Nets, NEW present, NEW s, NEW x \in AllNames(n)
  PROVE  Operands(n, present \cup Split(n, {s}), x) = Operands(n, present, x)
<1>1. CASE x \in Names(n)
  <2>1. \A k \in DOMAIN Inputs(n, x) : Inputs(n, x)[k] \in Names(n)
    BY <1>1, WhoReads
  <2>2. Split(n, {s}) \cap Names(n) = {}
    BY CopiesAre DEF Split
  <2>3. \A k \in DOMAIN Inputs(n, x) :
          StandIn(present \cup Split(n, {s}), Inputs(n, x)[k]) = StandIn(present, Inputs(n, x)[k])
    BY <2>1, <2>2 DEF StandIn
  <2>. QED BY <1>1, <2>3 DEF Operands
<1>2. CASE x \notin Names(n)
  BY <1>2 DEF Operands
<1>. QED BY <1>1, <1>2

(* The action SplitStep. *)
LEMMA SplitStepKeeps ==
  ASSUME SurgeryInv, SplitStep
  PROVE  SurgeryInv'
<1>1. /\ pc = "split" /\ order = <<LmHead>> /\ Collected(Len(net.chain)) /\ todo # << >>
      /\ LayersInv /\ Linked(layers) /\ net \in Nets
      /\ \E m \in 0 .. net.shards :
           /\ todo = [ k \in 1 .. net.shards - m |-> m + k - 1 ]
           /\ DOMAIN layers = Kept(net) \cup Split(net, 0 .. m - 1)
           /\ weights = Weighted(net) \cup SplitWeights(0 .. m - 1)
  BY DEF SplitStep, SurgeryInv, GraphInv, LayersInv, PlaceInv, InRope, InMask, InCollect, InSplit, InSave
<1>2. PICK m \in 0 .. net.shards :
        /\ todo = [ k \in 1 .. net.shards - m |-> m + k - 1 ]
        /\ DOMAIN layers = Kept(net) \cup Split(net, 0 .. m - 1)
        /\ weights = Weighted(net) \cup SplitWeights(0 .. m - 1)
  BY <1>1
<1>3. net.shards \in Nat \ {0} /\ Len(net.chain) \in Nat \ {0}
  BY <1>1, NetTypes
<1>4. m \in 0 .. net.shards - 1 /\ todo[1] = m /\ m \in Nat
  <2>1. CASE m = net.shards
    <3>1. DOMAIN todo = {}
      BY <1>2, <1>3, <2>1
    <3>. QED BY <1>1, <1>2, <1>3, <2>1, <3>1
  <2>2. CASE m # net.shards
    <3>1. 1 \in 1 .. net.shards - m /\ m + 1 - 1 = m
      BY <1>3, <2>2
    <3>. QED BY <1>2, <1>3, <2>2, <3>1
  <2>. QED BY <2>1, <2>2
<1>. DEFINE added == Extended(Copies(m), ShardLayers(m))
            last == Copy(Chain(Len(net.chain)), m)
            D == DOMAIN layers
            new == Split(net, {m})
<1>5. SharedAncestor = Norm /\ chain # << >> /\ Copy(chain[Len(chain)], m) = last
  <2>. DEFINE len == Len(net.chain)
  <2>1. len \in 0 .. len /\ len = Len(net.chain) /\ len # 0 /\ len \in Nat /\ Kept(net) \subseteq DOMAIN layers
    BY <1>2, <1>3
  <2>. HIDE DEF len
  <2>2. SharedAncestor = Norm /\ chain # << >> /\ Len(chain) = len
    BY <1>1, <2>1, AncestorIs
  <2>3. chain[len] = Chain(len)
    BY <1>1, <2>1 DEF Collected
  <2>. QED BY <2>1, <2>2, <2>3
<1>6. /\ layers' = Extended([layers EXCEPT ![Norm].out = @ \cup {last}], added)
      /\ weights' = weights \cup { name \in DOMAIN added : name[1] # "output_layer" }
      /\ todo' = Tail(todo)
      /\ UNCHANGED <<net, order, newOutput, chain, pc>>
  BY <1>4, <1>5 DEF SplitStep
<1>7. DOMAIN added = new /\ ShardGiven(net, m, added)
  <2>1. Kept(net) \subseteq DOMAIN layers
    BY <1>2
  <2>2. added = Extended(Copies(m), ShardLayers(m))
    OBVIOUS
  <2>. HIDE DEF added
  <2>. QED BY <1>1, <1>4, <2>1, <2>2, AddedAre
<1>. HIDE DEF added
<1>8. /\ D \subseteq AllNames(net) /\ layers \in [D -> Layer(net)] /\ Norm \in D
      /\ \A x \in D : /\ layers[x].in = Operands(net, D, x) /\ layers[x].type = Type(net, Base(x))
                      /\ x[1] = "lm_head" => layers[x].cols = Columns(net, x)
  BY <1>1, <1>2, HeadsAreKept DEF LayersInv
<1>9. new \cap D = {} /\ new \subseteq AllNames(net) /\ last \in new
  <2>1. new \cap Kept(net) = {}
    <3>1. Kept(net) \subseteq Names(net)
      BY <1>1, HeadsAreKept
    <3>. QED BY <3>1, CopiesAre DEF Split
  <2>2. ASSUME NEW y \in new, y \in Split(net, 0 .. m - 1) PROVE FALSE
    <3>1. PICK x \in Heads(net), t \in 0 .. m - 1 : y = Copy(x, t)
      BY <2>2 DEF Split
    <3>2. PICK z \in Heads(net) : y = Copy(z, m)
      BY DEF Split
    <3>3. Copy(z, m) = Copy(x, t)
      BY <3>1, <3>2
    <3>4. m = t
      BY <3>3, CopiesDiffer
    <3>. QED BY <1>4, <3>4
  <2>3. new \subseteq AllNames(net) /\ last \in new
    <3>1. \A x \in Heads(net) : Copy(x, m) \in AllNames(net) /\ Copy(x, m) \in new
      BY <1>1, <1>4, SplitNames
    <3>2. Chain(Len(net.chain)) \in Heads(net)
      BY <1>1, <1>3, HeadsAreKept
    <3>3. new = { Copy(x, m) : x \in Heads(net) }
      BY DEF Split
    <3>. QED BY <3>1, <3>2, <3>3
  <2>. QED BY <1>2, <2>1, <2>2, <2>3
<1>. HIDE DEF new
<1>10. DOMAIN layers' = D \cup new
  BY <1>6, <1>7 DEF Extended
<1>11. \A x \in new : layers'[x] = added[x]
  BY <1>6, <1>7, <1>10 DEF Extended
<1>12. ASSUME NEW x \in D
       PROVE  /\ layers'[x] \in Layer(net) /\ layers'[x].in = layers[x].in
              /\ layers'[x].type = layers[x].type /\ layers'[x].cols = layers[x].cols
              /\ layers'[x].out = layers[x].out \cup (IF x = Norm THEN {last} ELSE {})
  <2>1. layers'[x] = [layers EXCEPT ![Norm].out = @ \cup {last}][x]
    BY <1>6, <1>7, <1>9, <1>10 DEF Extended
  <2>2. CASE x # Norm
    <3>1. layers'[x] = layers[x] /\ layers[x] \in Layer(net)
      BY <1>8, <2>1, <2>2
    <3>. QED BY <2>2, <3>1
  <2>3. CASE x = Norm
    <3>. DEFINE r == layers[x]
                o == r.out \cup {last}
    <3>1. layers'[x] = [r EXCEPT !.out = o] /\ r \in Layer(net)
      BY <1>8, <2>1, <2>3
    <3>2. o \in SUBSET AllNames(net)
      BY <1>9, <3>1 DEF Layer
    <3>. HIDE DEF r, o
    <3>3. /\ layers'[x] \in Layer(net) /\ layers'[x].in = r.in /\ layers'[x].type = r.type
          /\ layers'[x].cols = r.cols /\ layers'[x].out = o
      BY <3>1, <3>2 DEF Layer
    <3>. QED BY <2>3, <3>3 DEF r, o
  <2>. QED BY <2>2, <2>3
<1>. DEFINE next == layers'
            readers(x) == { b \in new : Reads(next, b, x) }
            H == Copy(LmHead, m)
            O == Copy(Logits, m)
            C(j) == Copy(Chain(j), m)
            len == Len(net.chain)
<1>13. /\ H \in new /\ O \in new /\ \A j \in 1 .. len : C(j) \in new
       /\ new = { C(j) : j \in 1 .. len } \cup {H, O}
  <2>1. new = { Copy(x, m) : x \in Heads(net) }
    BY DEF new, Split
  <2>2. Heads(net) = { Chain(j) : j \in 1 .. len } \cup {LmHead, Logits}
    BY DEF Heads, Chains
  <2>3. new = { Copy(x, m) : x \in { Chain(j) : j \in 1 .. len } } \cup {H, O}
    BY <2>1, <2>2
  <2>4. { Copy(x, m) : x \in { Chain(j) : j \in 1 .. len } } = { C(j) : j \in 1 .. len }
    OBVIOUS
  <2>. QED BY <2>3, <2>4
<1>20. /\ \A x \in new :
           /\ next[x] \in Layer(net) /\ next[x].type = Type(net, Base(x))
           /\ x[1] = "lm_head" => next[x].cols = Columns(net, x)
       /\ next[H].in = <<C(1)>> /\ next[H].out = {O} /\ next[O].in = <<H>> /\ next[O].out = {}
       /\ \A j \in 1 .. len :
            /\ next[C(j)].in = <<IF j = len THEN Norm ELSE C(j + 1)>>
            /\ next[C(j)].out = {IF j = 1 THEN H ELSE C(j - 1)}
  <2>1. /\ \A x \in new :
            /\ added[x] \in Layer(net) /\ added[x].type = Type(net, Base(x))
            /\ x[1] = "lm_head" => added[x].cols = Columns(net, x)
        /\ added[H].in = <<C(1)>> /\ added[H].out = {O} /\ added[O].in = <<H>> /\ added[O].out = {}
        /\ \A j \in 1 .. len :
             /\ added[C(j)].in = <<IF j = len THEN Norm ELSE C(j + 1)>>
             /\ added[C(j)].out = {IF j = 1 THEN H ELSE C(j - 1)}
    BY <1>7 DEF ShardGiven, new
  <2>2. \A x \in new : next[x] = added[x]
    BY <1>11
  <2>. HIDE DEF next, H, O, C, len
  <2>. QED BY <1>13, <2>1, <2>2
<1>14. /\ readers(Norm) = {last} /\ readers(O) = {} /\ readers(H) = {O}
       /\ \A j \in 1 .. len : readers(C(j)) = {IF j = 1 THEN H ELSE C(j - 1)}
       /\ \A x \in Names(net) \ {Norm} : readers(x) = {}
       /\ \A x \in Heads(net) : \A t : t # m => readers(Copy(x, t)) = {}
  <2>1. /\ next[H].in = <<Copy(Chain(1), m)>> /\ next[O].in = <<H>>
        /\ \A j \in 1 .. len : next[C(j)].in = <<IF j = len THEN Norm ELSE C(j + 1)>>
    BY <1>20, <1>13
  <2>. HIDE DEF next
  <2>. QED BY <1>1, <2>1, ShardReads DEF new
<1>15. \A x \in D \ {Norm} : readers(x) = {}
  <2>1. ASSUME NEW x \in D, x # Norm PROVE readers(x) = {}
    <3>1. CASE x \in Kept(net)
      BY <1>1, <1>14, <2>1, <3>1, HeadsAreKept
    <3>2. CASE x \in Split(net, 0 .. m - 1)
      <4>1. PICK z \in Heads(net), t \in 0 .. m - 1 : x = Copy(z, t)
        BY <3>2 DEF Split
      <4>2. t # m
        BY <1>4
      <4>. QED BY <1>14, <4>1, <4>2
    <3>. QED BY <1>2, <2>1, <3>1, <3>2
  <2>. QED BY <2>1
<1>16. Linked(layers')
  <2>1. DOMAIN next = DOMAIN layers \cup new /\ new \cap DOMAIN layers = {}
    BY <1>9, <1>10
  <2>2. \A x \in DOMAIN layers : /\ next[x].in = layers[x].in
                                 /\ next[x].out = layers[x].out \cup readers(x)
    BY <1>12, <1>14, <1>15
  <2>3. ASSUME NEW x \in new
        PROVE  /\ next[x].out = readers(x)
               /\ \A k \in DOMAIN next[x].in : next[x].in[k] \in DOMAIN next
    <3>. HIDE DEF H, O, C, len
    <3>1. CASE x = H
      <4>1. C(1) \in new
        BY <1>3, <1>13 DEF len
      <4>. QED BY <1>10, <1>14, <1>20, <3>1, <4>1
    <3>2. CASE x = O
      BY <1>10, <1>13, <1>14, <1>20, <3>2
    <3>3. CASE \E j \in 1 .. len : x = C(j)
      <4>1. PICK j \in 1 .. len : x = C(j)
        BY <3>3
      <4>2. /\ next[x].out = readers(x)
            /\ next[x].in = <<IF j = len THEN Norm ELSE C(j + 1)>>
        BY <1>14, <1>20, <4>1
      <4>3. (IF j = len THEN Norm ELSE C(j + 1)) \in DOMAIN next
        <5>1. j # len => j + 1 \in 1 .. len
          BY <1>3 DEF len
        <5>. QED BY <1>8, <1>10, <1>13, <5>1
      <4>. QED BY <4>2, <4>3
    <3>. QED BY <1>13, <3>1, <3>2, <3>3
  <2>4. /\ \A x \in DOMAIN layers : /\ next[x].in = layers[x].in
                                    /\ next[x].out = layers[x].out \cup { b \in new : Reads(next, b, x) }
        /\ \A x \in new : /\ next[x].out = { b \in new : Reads(next, b, x) }
                          /\ \A k \in DOMAIN next[x].in : next[x].in[k] \in DOMAIN next
    BY <2>2, <2>3
  <2>. HIDE DEF next
  <2>5. Linked(next)
    BY ONLY <1>1, <2>1, <2>4, Grows
  <2>. QED BY <2>5 DEF next
<1>17. ASSUME NEW x \in DOMAIN layers'
       PROVE  /\ layers'[x] \in Layer(net) /\ layers'[x].in = Operands(net, DOMAIN layers', x)
              /\ layers'[x].type = Type(net, Base(x))
              /\ x[1] = "lm_head" => layers'[x].cols = Columns(net, x)
  <2>1. CASE x \in D
    <3>1. Operands(net, D \cup new, x) = Operands(net, D, x)
      <4>1. net \in Nets /\ x \in AllNames(net) /\ new = Split(net, {m})
        BY <1>1, <1>8, <2>1 DEF new
      <4>. HIDE DEF D
      <4>2. Operands(net, D \cup Split(net, {m}), x) = Operands(net, D, x)
        BY ONLY <4>1, CopiesStandForNone
      <4>. QED BY <4>1, <4>2
    <3>. QED BY <1>8, <1>10, <1>12, <2>1, <3>1
  <2>2. CASE x \in new
    <3>. DEFINE present == DOMAIN layers'
    <3>1. next[x] = layers'[x]
      OBVIOUS
    <3>2. /\ Operands(net, present, H) = <<C(1)>>
          /\ Operands(net, present, O) = <<H>>
          /\ \A j \in 1 .. len : Operands(net, present, C(j)) = <<IF j = len THEN Norm ELSE C(j + 1)>>
      <4>. HIDE DEF present
      <4>. QED BY <1>1, CopyOperands
    <3>. HIDE DEF next, present, H, O, C, len
    <3>3. next[x].in = Operands(net, present, x)
      <4>1. CASE x = H
        BY <1>20, <3>2, <4>1
      <4>2. CASE x = O
        BY <1>20, <3>2, <4>2
      <4>3. CASE \E j \in 1 .. len : x = C(j)
        BY <1>20, <3>2, <4>3
      <4>. QED BY <1>13, <2>2, <4>1, <4>2, <4>3
    <3>. QED BY <1>20, <2>2, <3>1, <3>3 DEF present
  <2>. QED BY <1>10, <2>1, <2>2
<1>18. LayersInv'
  <2>1. net' = net /\ layers' = [ x \in DOMAIN layers' |-> layers'[x] ]
    BY <1>6 DEF Extended
  <2>2. layers' \in [DOMAIN layers' -> Layer(net)]
    BY <1>17, <2>1
  <2>. QED BY <1>1, <1>8, <1>9, <1>10, <1>17, <2>1, <2>2 DEF LayersInv, Columns, Bound
<1>19. InSplit'
  <2>1. m + 1 \in 0 .. net.shards /\ (m + 1) - 1 = m /\ m \in Nat
    BY <1>3, <1>4
  <2>2. DOMAIN layers' = Kept(net) \cup Split(net, 0 .. m)
    <3>1. Split(net, 0 .. m) = Split(net, 0 .. m - 1) \cup Split(net, {m})
      BY <1>4, OneMoreShard
    <3>. QED BY <1>2, <1>10, <3>1 DEF new
  <2>3. weights' = Weighted(net) \cup SplitWeights(0 .. m)
    <3>1. { name \in new : name[1] # "output_layer" } = SplitWeights({m})
      <4>1. \A x \in Heads(net) : Copy(x, m)[1] = x[1]
        BY CopiesAre
      <4>2. Logits[1] = "output_layer" /\ LmHead[1] = "lm_head" /\ \A x \in Chains(net) : x[1] = "chain"
        BY DEF Logits, LmHead, Chains, Chain
      <4>3. Heads(net) = Chains(net) \cup {LmHead, Logits}
        BY DEF Heads
      <4>4. \A x \in Chains(net) \cup {LmHead} : Copy(x, m)[1] # "output_layer"
        BY <4>1, <4>2, <4>3
      <4>5. Copy(Logits, m)[1] = "output_layer"
        BY <4>1, <4>2, <4>3
      <4>6. new = { Copy(x, m) : x \in Heads(net) } /\ SplitWeights({m}) = { Copy(x, m) : x \in Chains(net) \cup {LmHead} }
        BY DEF new, Split, SplitWeights
      <4>. QED BY <4>3, <4>4, <4>5, <4>6
    <3>. QED BY <1>2, <1>4, <1>6, <1>7, <3>1, OneMoreShard
  <2>4. todo' = [ k \in 1 .. net.shards - (m + 1) |-> (m + 1) + k - 1 ]
    <3>. DEFINE left == net.shards - m
                rest == Tail(todo)
    <3>1. left \in Nat \ {0} /\ todo \in Seq(Int) /\ Len(todo) = left /\ todo # << >>
      <4>1. left \in Nat \ {0}
        BY <1>3, <1>4
      <4>2. todo = [ k \in 1 .. left |-> m + k - 1 ]
        BY <1>2
      <4>. HIDE DEF left
      <4>3. \A k \in 1 .. left : m + k - 1 \in Int
        BY <1>4
      <4>4. todo \in Seq(Int)
        BY <4>1, <4>2, <4>3
      <4>5. Len(todo) = left
        BY <4>1, <4>2, <4>4
      <4>. QED BY <1>1, <4>1, <4>4, <4>5
    <3>2. /\ rest \in Seq(Int) /\ Len(rest) = left - 1
          /\ \A k \in 1 .. Len(rest) : rest[k] = todo[k + 1]
      BY <3>1, HeadTailProperties
    <3>3. \A k \in 1 .. left - 1 : rest[k] = (m + 1) + k - 1
      <4>1. \A k \in 1 .. left - 1 : k + 1 \in 1 .. left /\ m + (k + 1) - 1 = (m + 1) + k - 1
        BY <1>4, <3>1
      <4>. QED BY <1>2, <3>2, <4>1
    <3>. HIDE DEF rest
    <3>4. rest = [ k \in 1 .. left - 1 |-> rest[k] ]
      BY <3>1, <3>2
    <3>5. left - 1 = net.shards - (m + 1)
      BY <1>3, <1>4
    <3>. HIDE DEF left
    <3>6. rest = [ k \in 1 .. left - 1 |-> (m + 1) + k - 1 ]
      BY <3>3, <3>4
    <3>. QED BY <1>6, <3>5, <3>6 DEF rest
  <2>6. \E i \in 0 .. net.shards :
          /\ todo' = [ k \in 1 .. net.shards - i |-> i + k - 1 ]
          /\ DOMAIN layers' = Kept(net) \cup Split(net, 0 .. i - 1)
          /\ weights' = Weighted(net) \cup SplitWeights(0 .. i - 1)
    BY <2>1, <2>2, <2>3, <2>4
  <2>7. PICK i \in 0 .. net.shards :
          /\ todo' = [ k \in 1 .. net.shards - i |-> i + k - 1 ]
          /\ DOMAIN layers' = Kept(net) \cup Split(net, 0 .. i - 1)
          /\ weights' = Weighted(net) \cup SplitWeights(0 .. i - 1)
    BY <2>6
  <2>8. SplitWeights(0 .. i - 1)' = SplitWeights(0 .. i - 1)
    BY <1>6 DEF SplitWeights
  <2>9. /\ pc' = "split" /\ order' = <<LmHead>> /\ net' = net
        /\ Collected(Len(net.chain))'
    BY <1>1, <1>6 DEF Collected
  <2>. QED BY <2>7, <2>8, <2>9 DEF InSplit
<1>21. GraphInv'
  BY <1>1, <1>6, <1>16 DEF GraphInv
<1>. QED BY <1>18, <1>19, <1>21 DEF SurgeryInv, PlaceInv

-----------------------------------------------------------------------------
(* The end of the split: what was split goes. *)

(* Layers go which no layer that stays reads. *)
LEMMA Shrinks ==
  ASSUME NEW l, Linked(l), NEW m, NEW gone, DOMAIN m = DOMAIN l \ gone,
         \A x \in DOMAIN m : /\ m[x].in = l[x].in /\ m[x].out = l[x].out \ gone
                             /\ \A k \in DOMAIN l[x].in : l[x].in[k] \notin gone
  PROVE  Linked(m)
<1>1. /\ \A x \in DOMAIN l : l[x].out = { b \in DOMAIN l : Reads(l, b, x) }
      /\ \A x \in DOMAIN l : \A k \in DOMAIN l[x].in : l[x].in[k] \in DOMAIN l
  BY DEF Linked
<1>2. \A b \in DOMAIN m : \A x : Reads(m, b, x) <=> Reads(l, b, x)
  BY DEF Reads
<1>3. \A x \in DOMAIN m : m[x].out = { b \in DOMAIN m : Reads(m, b, x) }
  BY <1>1, <1>2
<1>4. \A x \in DOMAIN m : \A k \in DOMAIN m[x].in : m[x].in[k] \in DOMAIN m
  BY <1>1
<1>. QED BY <1>3, <1>4 DEF Linked

(* The head reads itself and the shared layer; only it reads itself.       *)
LEMMA HeadReads ==
  ASSUME NEW n \in Nets, NEW present, Kept(n) \subseteq present, NEW l, NEW x, NEW a
  PROVE  /\ (x \in Heads(n) /\ l[x].in = Operands(n, present, x) /\ Reads(l, x, a)) =>
              a \in Heads(n) \/ (a = Norm /\ x \in Chains(n))
         /\ (x \in AllNames(n) \ Heads(n) /\ l[x].in = Operands(n, present, x) /\ Reads(l, x, a)) =>
              a \notin Heads(n)
<1>1. ASSUME x \in Heads(n), l[x].in = Operands(n, present, x), Reads(l, x, a)
      PROVE  a \in Heads(n) \/ (a = Norm /\ x \in Chains(n))
  <2>1. PICK k \in DOMAIN l[x].in : l[x].in[k] = a
    BY <1>1 DEF Reads
  <2>2. CASE x = LmHead
    <3>1. l[x].in = <<Chain(1)>>
      BY <1>1, <2>2, HeadOperands
    <3>. QED BY <2>1, <3>1, HeadsAreKept
  <2>3. CASE x = Logits
    <3>1. l[x].in = <<LmHead>>
      BY <1>1, <2>3, HeadOperands
    <3>. QED BY <2>1, <3>1, HeadsAreKept
  <2>4. CASE x \in Chains(n)
    <3>1. PICK j \in 1 .. Len(n.chain) : x = Chain(j)
      BY <2>4 DEF Chains
    <3>2. \A i \in 1 .. Len(n.chain) : Operands(n, present, Chain(i)) = <<Above(n, i)>>
      BY HeadOperands
    <3>3. l[x].in = <<Above(n, j)>>
      BY <1>1, <3>1, <3>2
    <3>4. a = Above(n, j)
      BY <2>1, <3>3
    <3>5. Len(n.chain) \in Nat
      BY NetTypes
    <3>6. j # Len(n.chain) => Chain(j + 1) \in Heads(n)
      BY <3>5, HeadsAreKept
    <3>. QED BY <2>4, <3>4, <3>6 DEF Above
  <2>. QED BY <1>1, <2>2, <2>3, <2>4 DEF Heads
<1>2. ASSUME x \in AllNames(n) \ Heads(n), l[x].in = Operands(n, present, x), Reads(l, x, a),
             a \in Heads(n)
      PROVE  FALSE
  <2>1. PICK k \in DOMAIN l[x].in : l[x].in[k] = a
    BY <1>2 DEF Reads
  <2>2. CASE x \in Names(n)
    <3>. DEFINE y == Inputs(n, x)[k]
    <3>1. k \in DOMAIN Inputs(n, x) /\ a = StandIn(present, y)
      BY <1>2, <2>1, <2>2 DEF Operands
    <3>2. \A i : a # Input(i)
      BY <1>2 DEF Heads, Chains, Chain, LmHead, Logits, Input
    <3>3. y = a
      BY <3>1, <3>2 DEF StandIn
    <3>4. /\ y # Logits
          /\ \A j : y = Chain(j) => x = IF j = 1 THEN LmHead ELSE Chain(j - 1)
          /\ y = LmHead => x = Logits
      BY <2>2, <3>1, WhoReads
    <3>. HIDE DEF y
    <3>5. CASE y = LmHead
      BY <1>2, <3>4, <3>5 DEF Heads
    <3>6. CASE y \in Chains(n)
      <4>1. PICK j \in 1 .. Len(n.chain) : y = Chain(j)
        BY <3>6 DEF Chains
      <4>2. x = IF j = 1 THEN LmHead ELSE Chain(j - 1)
        BY <3>4, <4>1
      <4>3. j # 1 => j - 1 \in 1 .. Len(n.chain)
        <5>1. Len(n.chain) \in Nat
          BY NetTypes
        <5>. QED BY <5>1
      <4>. QED BY <1>2, <4>2, <4>3, HeadsAreKept
    <3>. QED BY <1>2, <3>3, <3>4, <3>5, <3>6 DEF Heads
  <2>3. CASE x \notin Names(n)
    <3>. DEFINE y == Inputs(n, Base(x))[k]
    <3>1. a = CopyIn(y, x[3]) /\ k \in DOMAIN Inputs(n, Base(x))
      BY <1>2, <2>1, <2>3 DEF Operands
    <3>2. PICK z \in Heads(n), s \in 0 .. n.shards - 1 : x = Copy(z, s)
      BY <1>2, <2>3 DEF AllNames, Split
    <3>3. a \in Names(n) /\ a # Norm
      BY <1>2, HeadsAreKept
    <3>4. a = Copy(y, x[3])
      BY <3>1, <3>3 DEF CopyIn
    <3>5. a = Base(a)
      BY <3>3, NamesArePairs
    <3>. QED BY <3>4, <3>5 DEF Copy, Base
  <2>. QED BY <2>2, <2>3
<1>. QED BY <1>1, <1>2

(* No layer of the head has a stand-in. *)
LEMMA HeadsStandForThemselves ==
  ASSUME NEW n, NEW present, NEW x
  PROVE  Operands(n, present \ Heads(n), x) = Operands(n, present, x)
<1>1. \A y \in Heads(n) : y[1] # "conv" /\ y[1] # "slice"
  BY DEF Heads, Chains, Chain, LmHead, Logits
<1>2. \A y : StandIn(present \ Heads(n), y) = StandIn(present, y)
  BY <1>1 DEF StandIn
<1>. QED BY <1>2 DEF Operands

(* The only output is replaced by its shards. *)
LEMMA ShardsInPlaceIs ==
  ASSUME net \in Nets, order = <<LmHead>>
  PROVE  ShardsInPlace = [ k \in 1 .. net.shards |-> Copy(LmHead, k - 1) ]
<1>. DEFINE idx == CHOOSE k \in DOMAIN order : order[k] = LmHead
            heads == [ k \in 1 .. net.shards |-> Copy(LmHead, k - 1) ]
            S == { Copy(LmHead, k - 1) : k \in 1 .. net.shards }
<1>1. DOMAIN order = {1} /\ order[1] = LmHead /\ Len(order) = 1 /\ order \in Seq({LmHead})
  <2>1. DOMAIN order = 1 .. 1 /\ order[1] = LmHead
    OBVIOUS
  <2>. QED BY <2>1
<1>2. idx = 1
  BY <1>1
<1>3. ShardsInPlace = SubSeq(order, 1, idx - 1) \o heads \o SubSeq(order, idx + 1, Len(order))
  BY DEF ShardsInPlace
<1>4. SubSeq(order, 1, 0) = << >> /\ SubSeq(order, 2, 1) = << >>
  BY <1>1, SubSeqEmpty
<1>5. heads \in Seq(S)
  <2>1. net.shards \in Nat
    BY NetTypes
  <2>2. heads \in [1 .. net.shards -> S]
    OBVIOUS
  <2>. HIDE DEF heads, S
  <2>. QED BY <2>1, <2>2
<1>. HIDE DEF heads, S, idx
<1>6. << >> \o heads = heads /\ heads \o << >> = heads
  BY <1>5, ConcatEmptySeq
<1>7. idx - 1 = 0 /\ idx + 1 = 2
  BY <1>2
<1>8. ShardsInPlace = << >> \o heads \o << >>
  BY <1>1, <1>3, <1>4, <1>7
<1>. QED BY <1>6, <1>8 DEF heads
(* The action SplitEnd. *)
LEMMA SplitEndKeeps ==
  ASSUME SurgeryInv, SplitEnd
  PROVE  SurgeryInv'
<1>1. /\ pc = "split" /\ order = <<LmHead>> /\ Collected(Len(net.chain)) /\ todo = << >>
      /\ LayersInv /\ Linked(layers) /\ net \in Nets
      /\ \E m \in 0 .. net.shards :
           /\ todo = [ k \in 1 .. net.shards - m |-> m + k - 1 ]
           /\ DOMAIN layers = Kept(net) \cup Split(net, 0 .. m - 1)
           /\ weights = Weighted(net) \cup SplitWeights(0 .. m - 1)
  BY DEF SplitEnd, SurgeryInv, GraphInv, LayersInv, PlaceInv, InRope, InMask, InCollect, InSplit, InSave
<1>2. net.shards \in Nat \ {0} /\ Len(net.chain) \in Nat \ {0}
  BY <1>1, NetTypes
<1>. DEFINE D == DOMAIN layers
            last == net.shards - 1
<1>3. D = Kept(net) \cup Split(net, 0 .. last) /\ weights = Weighted(net) \cup SplitWeights(0 .. last)
  <2>1. PICK m \in 0 .. net.shards :
          /\ todo = [ k \in 1 .. net.shards - m |-> m + k - 1 ]
          /\ DOMAIN layers = Kept(net) \cup Split(net, 0 .. m - 1)
          /\ weights = Weighted(net) \cup SplitWeights(0 .. m - 1)
    BY <1>1
  <2>2. m = net.shards
    <3>1. CASE m # net.shards
      <4>1. 1 \in 1 .. net.shards - m
        BY <1>2, <3>1
      <4>. QED BY <1>1, <2>1, <4>1
    <3>. QED BY <3>1
  <2>. QED BY <2>1, <2>2
<1>4. SharedAncestor = Norm /\ { chain[j] : j \in DOMAIN chain } = Chains(net)
  <2>. DEFINE len == Len(net.chain)
  <2>1. len \in 0 .. len /\ len = Len(net.chain) /\ len \in Nat /\ Kept(net) \subseteq DOMAIN layers
    BY <1>2, <1>3
  <2>2. chain = [ j \in 1 .. len |-> Chain(j) ]
    BY <1>1 DEF Collected
  <2>3. { chain[j] : j \in DOMAIN chain } = Chains(net)
    BY <2>2 DEF Chains
  <2>. HIDE DEF len
  <2>4. SharedAncestor = Norm
    BY <1>1, <2>1, AncestorIs
  <2>. QED BY <2>3, <2>4
<1>5. /\ layers' = Without([layers EXCEPT ![Norm].out = @ \ Chains(net)], Chains(net) \cup {LmHead, Logits})
      /\ weights' = weights \ (Chains(net) \cup {LmHead})
      /\ order' = ShardsInPlace /\ pc' = "save" /\ UNCHANGED <<net, todo, newOutput, chain>>
  BY <1>4 DEF SplitEnd
<1>6. Chains(net) \cup {LmHead, Logits} = Heads(net)
  BY DEF Heads
<1>7. /\ D \subseteq AllNames(net) /\ layers \in [D -> Layer(net)] /\ Norm \in D /\ Norm \notin Heads(net)
      /\ Kept(net) \subseteq D
      /\ \A x \in D : /\ layers[x].in = Operands(net, D, x) /\ layers[x].type = Type(net, Base(x))
                      /\ x[1] = "lm_head" => layers[x].cols = Columns(net, x)
      /\ \A x \in D : layers[x].out = { b \in D : Reads(layers, b, x) }
  BY <1>1, <1>3, HeadsAreKept DEF LayersInv, Linked
<1>8. DOMAIN layers' = D \ Heads(net)
  BY <1>5, <1>6 DEF Without
<1>9. \A x \in D \ Heads(net) : \A b \in layers[x].out \cap Heads(net) : x = Norm /\ b \in Chains(net)
  BY <1>1, <1>7, HeadReads
<1>10. \A x \in D \ Heads(net) : \A k \in DOMAIN layers[x].in : layers[x].in[k] \notin Heads(net)
  <2>. SUFFICES ASSUME NEW x \in D \ Heads(net), NEW k \in DOMAIN layers[x].in
                PROVE  layers[x].in[k] \notin Heads(net)
    OBVIOUS
  <2>. DEFINE a == layers[x].in[k]
  <2>1. Reads(layers, x, a)
    BY DEF Reads
  <2>2. x \in AllNames(net) \ Heads(net) /\ layers[x].in = Operands(net, D, x)
    BY <1>7
  <2>. HIDE DEF a, D
  <2>3. a \notin Heads(net)
    BY <1>1, <1>7, <2>1, <2>2, HeadReads
  <2>. QED BY <2>3 DEF a
<1>11. ASSUME NEW x \in D \ Heads(net)
       PROVE  /\ layers'[x] \in Layer(net) /\ layers'[x].in = layers[x].in
              /\ layers'[x].type = layers[x].type /\ layers'[x].cols = layers[x].cols
              /\ layers'[x].out = layers[x].out \ Heads(net)
  <2>1. layers'[x] = [layers EXCEPT ![Norm].out = @ \ Chains(net)][x]
    BY <1>5, <1>6 DEF Without
  <2>2. CASE x # Norm
    <3>1. layers'[x] = layers[x] /\ layers[x] \in Layer(net)
      BY <1>7, <2>1, <2>2
    <3>2. layers[x].out \cap Heads(net) = {}
      BY <1>9, <2>2
    <3>. QED BY <3>1, <3>2
  <2>3. CASE x = Norm
    <3>. DEFINE r == layers[x]
                o == r.out \ Chains(net)
    <3>1. layers'[x] = [r EXCEPT !.out = o] /\ r \in Layer(net)
      BY <1>7, <2>1, <2>3
    <3>2. o \in SUBSET AllNames(net)
      BY <3>1 DEF Layer
    <3>3. o = r.out \ Heads(net)
      BY <1>6, <1>9
    <3>. HIDE DEF r, o
    <3>4. /\ layers'[x] \in Layer(net) /\ layers'[x].in = r.in /\ layers'[x].type = r.type
          /\ layers'[x].cols = r.cols /\ layers'[x].out = o
      BY <3>1, <3>2 DEF Layer
    <3>. QED BY <2>3, <3>3, <3>4 DEF r
  <2>. QED BY <2>2, <2>3
<1>12. Linked(layers')
  <2>. DEFINE next == layers'
              gone == Heads(net)
  <2>1. /\ DOMAIN next = DOMAIN layers \ gone
        /\ \A x \in DOMAIN next : /\ next[x].in = layers[x].in /\ next[x].out = layers[x].out \ gone
                                  /\ \A k \in DOMAIN layers[x].in : layers[x].in[k] \notin gone
    BY <1>8, <1>10, <1>11
  <2>. HIDE DEF next, gone
  <2>2. Linked(next)
    BY ONLY <1>1, <2>1, Shrinks
  <2>. QED BY <2>2 DEF next
<1>13. \A x : Operands(net, DOMAIN layers', x) = Operands(net, D, x)
  <2>. HIDE DEF D
  <2>. QED BY <1>8, HeadsStandForThemselves
<1>14. LayersInv'
  <2>1. net' = net /\ layers' = [ x \in DOMAIN layers' |-> layers'[x] ]
    BY <1>5 DEF Without
  <2>2. layers' \in [DOMAIN layers' -> Layer(net)]
    BY <1>8, <1>11, <2>1
  <2>. QED BY <1>1, <1>7, <1>8, <1>11, <1>13, <2>1, <2>2 DEF LayersInv, Columns, Bound
<1>15. DOMAIN layers' = (Kept(net) \ Heads(net)) \cup Split(net, 0 .. last)
  <2>1. Split(net, 0 .. last) \cap Heads(net) = {}
    <3>1. Heads(net) \subseteq Names(net)
      BY <1>1, HeadsAreKept
    <3>. QED BY <3>1, CopiesAre DEF Split
  <2>. QED BY <1>3, <1>8, <2>1
<1>16. weights' = Ropes \cup SplitWeights(0 .. last)
  <2>1. Weighted(net) = Ropes \cup Chains(net) \cup {LmHead}
    BY DEF Weighted, Ropes, Chains
  <2>2. Ropes \cap (Chains(net) \cup {LmHead}) = {}
    BY DEF Ropes, Conv, Chains, Chain, LmHead
  <2>3. SplitWeights(0 .. last) \cap (Chains(net) \cup {LmHead}) = {}
    <3>1. Chains(net) \cup {LmHead} \subseteq Heads(net) /\ Heads(net) \subseteq Names(net)
      BY <1>1, HeadsAreKept DEF Heads
    <3>2. \A x \in Heads(net) : \A s : Copy(x, s) \notin Names(net)
      BY CopiesAre
    <3>. QED BY <3>1, <3>2 DEF SplitWeights
  <2>. QED BY <1>3, <1>5, <2>1, <2>2, <2>3
<1>17. order' = [ k \in 1 .. net.shards |-> Copy(LmHead, k - 1) ]
  BY <1>1, <1>5, ShardsInPlaceIs
<1>18. InSave'
  <2>1. SplitWeights(0 .. last)' = SplitWeights(0 .. last)
    BY <1>5 DEF SplitWeights
  <2>2. net' = net /\ pc' = "save"
    BY <1>5
  <2>. QED BY <1>15, <1>16, <1>17, <2>1, <2>2 DEF InSave
<1>19. GraphInv'
  BY <1>5, <1>12 DEF GraphInv
<1>. QED BY <1>14, <1>18, <1>19 DEF SurgeryInv, PlaceInv

(* The action Save. *)
LEMMA SaveKeeps ==
  ASSUME SurgeryInv, Save
  PROVE  SurgeryInv'
<1>1. InSave /\ pc = "save" /\ pc' = "saved" /\ UNCHANGED <<net, layers, weights, order, todo, chain>>
  BY DEF Save, SurgeryInv, PlaceInv, InRope, InMask, InCollect, InSplit, InSave
<1>2. InSave'
  BY <1>1 DEF InSave, SplitWeights
<1>. QED BY <1>1, <1>2, SameGraph DEF PlaceInv

(* A stutter. *)
LEMMA StutterKeeps ==
  ASSUME SurgeryInv, UNCHANGED vars
  PROVE  SurgeryInv'
<1>1. UNCHANGED <<net, layers, weights, order, todo, newOutput, chain, pc>>
  BY DEF vars
<1>2. PlaceInv'
  <2>1. InRope => InRope'
    BY <1>1 DEF InRope, Untouched
  <2>2. InMask => InMask'
    BY <1>1 DEF InMask, Untouched
  <2>3. InCollect => InCollect'
    BY <1>1 DEF InCollect, Collected
  <2>4. InSplit => InSplit'
    BY <1>1, SMTT(30) DEF InSplit, Collected, SplitWeights
  <2>5. InSave => InSave'
    BY <1>1 DEF InSave, SplitWeights
  <2>. QED BY <1>1, <2>1, <2>2, <2>3, <2>4, <2>5 DEF SurgeryInv, PlaceInv
<1>3. LayersInv'
  BY <1>1 DEF SurgeryInv, LayersInv, Columns, Bound
<1>4. GraphInv'
  <2>1. Settled' = Settled
    BY <1>1 DEF Settled
  <2>. QED BY <1>1, <2>1 DEF SurgeryInv, GraphInv
<1>. QED BY <1>2, <1>3, <1>4 DEF SurgeryInv

(* Every step, and none. *)
LEMMA SurgeryGoesOn == SurgeryInv /\ [Next]_vars => SurgeryInv'
BY RopeStepKeeps, MaskStartKeeps, MaskStepKeeps, MaskEndKeeps, CollectStepKeeps,
   CollectEndKeeps, SplitStepKeeps, SplitEndKeeps, SaveKeeps, StutterKeeps DEF Next

(* What the three surgeries do to a graph, turn by turn; within the mask's *)
(* loop, the consumers are those input_layer2 is told of when it is over.  *)
THEOREM SurgeryInvariant == Spec => []SurgeryInv
BY SurgeryStarts, SurgeryGoesOn, PTL DEF Spec

-----------------------------------------------------------------------------
(* The properties. *)

(* What step 3 writes refers to nothing that surgery deleted, and nothing  *)
(* is missing from its producer's consumers (all three surgeries); nor at  *)
(* any turn of the RoPE loop, or between the loops.                        *)
THEOREM SurgeryClosesGraph == Spec => []GraphClosed
<1>1. SurgeryInv => GraphClosed
  BY DEF SurgeryInv, GraphInv, Linked, Reads, GraphClosed
<1>. QED BY SurgeryInvariant, <1>1, PTL

(* A stand-in carries what it stands for. *)
LEMMA StandInsFlow ==
  ASSUME NEW n, NEW present, NEW y \in Names(n)
  PROVE  Flow(StandIn(present, y)) = Flow(y)
<1>1. CASE y \in present
  BY <1>1 DEF StandIn
<1>2. CASE y \in Ropes /\ y \notin present
  <2>1. PICK i \in 3 .. 6 : y = Conv(i)
    BY <1>2 DEF Ropes
  <2>2. StandIn(present, y) = Input(i)
    BY <1>2, <2>1 DEF StandIn, Conv
  <2>. QED BY <2>1, <2>2 DEF Flow, Conv, Input
<1>3. CASE y \in Slices(n) /\ y \notin present
  <2>1. PICK i \in 1 .. n.slices : y = <<"slice", i>>
    BY <1>3 DEF Slices
  <2>2. StandIn(present, y) = Input(2)
    BY <1>3, <2>1 DEF StandIn
  <2>3. Flow(y) = <<"mask", 0>> /\ Flow(Input(2)) = <<"mask", 0>>
    BY <2>1 DEF Flow, Input
  <2>. QED BY <2>2, <2>3
<1>4. CASE y \notin Ropes /\ y \notin Slices(n)
  <2>1. y[1] # "conv" /\ y[1] # "slice"
    <3>1. CASE y \in (DOMAIN BlockTypes) \X (1 .. n.blocks)
      BY <3>1, BlockKinds
    <3>2. CASE \E i \in 1 .. 6 : y = Input(i)
      BY <3>2 DEF Input
    <3>3. CASE y \in Heads(n) \cup {Norm}
      BY <3>3 DEF Heads, Chains, Chain, LmHead, Logits, Norm
    <3>. QED BY <1>4, <3>1, <3>2, <3>3, NamesAre
  <2>. QED BY <2>1 DEF StandIn
<1>. QED BY <1>1, <1>2, <1>3, <1>4

(* A copy carries what it copies. *)
LEMMA CopiesFlow ==
  ASSUME NEW n \in Nets, NEW x \in Heads(n), NEW k \in DOMAIN Inputs(n, x), NEW s
  PROVE  Flow(CopyIn(Inputs(n, x)[k], s)) = Flow(Inputs(n, x)[k])
<1>. DEFINE y == Inputs(n, x)[k]
<1>1. y \in Heads(n) \cup {Norm}
  <2>1. CASE x = LmHead
    <3>1. Inputs(n, x) = <<Chain(1)>>
      BY <2>1, InputsAre
    <3>2. y = Chain(1)
      BY <3>1
    <3>. QED BY <3>2, HeadsAreKept
  <2>2. CASE x = Logits
    <3>1. Inputs(n, x) = <<LmHead>>
      BY <2>2, InputsAre
    <3>2. y = LmHead
      BY <3>1
    <3>. QED BY <3>2, HeadsAreKept
  <2>3. CASE x \in Chains(n)
    <3>1. PICK j \in 1 .. Len(n.chain) : x = Chain(j)
      BY <2>3 DEF Chains
    <3>2. Inputs(n, x) = <<Above(n, j)>>
      BY <3>1, InputsAre
    <3>3. y = Above(n, j)
      BY <3>2
    <3>4. Len(n.chain) \in Nat
      BY NetTypes
    <3>5. j # Len(n.chain) => Chain(j + 1) \in Heads(n)
      BY <3>4, HeadsAreKept
    <3>. QED BY <3>3, <3>5 DEF Above
  <2>. QED BY <2>1, <2>2, <2>3 DEF Heads
<1>. HIDE DEF y
<1>2. CASE y = Norm
  BY <1>2 DEF CopyIn, y
<1>3. CASE y \in Heads(n) /\ y # Norm
  <2>1. y[1] \in {"chain", "lm_head", "output_layer"}
    BY <1>3 DEF Heads, Chains, Chain, LmHead, Logits
  <2>2. /\ CopyIn(y, s) = Copy(y, s) /\ Copy(y, s)[1] = y[1] /\ Copy(y, s)[2] = y[2]
    BY <1>3 DEF CopyIn, Copy
  <2>3. Input(2)[1] = "input_layer"
    BY DEF Input
  <2>4. Flow(y) = <<y[1], y[2]>> /\ Flow(Copy(y, s)) = <<y[1], y[2]>>
    BY <2>1, <2>2, <2>3 DEF Flow
  <2>. QED BY <2>2, <2>4 DEF y
<1>. QED BY <1>1, <1>2, <1>3 DEF y

(* Every layer computes from the operands the export gave it, in their     *)
(* order, whatever took their places (all three surgeries).                *)
THEOREM SurgeryKeepsOperands == Spec => []OperandsKept
<1>1. ASSUME SurgeryInv, NEW x \in DOMAIN layers
      PROVE  /\ DOMAIN layers[x].in = DOMAIN Inputs(net, Base(x))
             /\ \A k \in DOMAIN layers[x].in : Flow(layers[x].in[k]) = Flow(Inputs(net, Base(x))[k])
  <2>1. /\ net \in Nets /\ x \in AllNames(net)
        /\ layers[x].in = Operands(net, DOMAIN layers, x)
    BY <1>1 DEF SurgeryInv, LayersInv
  <2>2. CASE x \in Names(net)
    <3>1. x = Base(x)
      BY <2>2, NamesArePairs
    <3>2. /\ DOMAIN layers[x].in = DOMAIN Inputs(net, x)
          /\ \A k \in DOMAIN Inputs(net, x) :
               layers[x].in[k] = StandIn(DOMAIN layers, Inputs(net, x)[k])
      BY <2>1, <2>2 DEF Operands
    <3>3. \A k \in DOMAIN Inputs(net, x) : Inputs(net, x)[k] \in Names(net)
      BY <2>1, <2>2, WhoReads
    <3>4. \A k \in DOMAIN Inputs(net, x) : Flow(layers[x].in[k]) = Flow(Inputs(net, x)[k])
      BY <3>2, <3>3, StandInsFlow
    <3>. QED BY <3>1, <3>2, <3>4
  <2>3. CASE x \notin Names(net)
    <3>1. PICK z \in Heads(net), s \in 0 .. net.shards - 1 : x = Copy(z, s)
      BY <2>1, <2>3 DEF AllNames, Split
    <3>2. Base(x) = z /\ x[3] = s
      BY <3>1, CopiesAre
    <3>3. /\ DOMAIN layers[x].in = DOMAIN Inputs(net, z)
          /\ \A k \in DOMAIN Inputs(net, z) : layers[x].in[k] = CopyIn(Inputs(net, z)[k], s)
      BY <2>1, <2>3, <3>2 DEF Operands
    <3>4. \A k \in DOMAIN Inputs(net, z) : Flow(layers[x].in[k]) = Flow(Inputs(net, z)[k])
      BY <2>1, <3>3, CopiesFlow
    <3>. QED BY <3>2, <3>3, <3>4
  <2>. QED BY <2>2, <2>3
<1>2. SurgeryInv => OperandsKept
  BY <1>1 DEF OperandsKept, Base
<1>. QED BY SurgeryInvariant, <1>2, PTL

(* The head's kinds of name are its own. *)
LEMMA HeadKinds ==
  ASSUME NEW n \in Nets, NEW x \in Names(n)
  PROVE  /\ x[1] = "lm_head" <=> x = LmHead
         /\ x[1] = "chain" <=> x \in Chains(n)
         /\ x \in Heads(n) => x[1] # "conv"
<1>1. CASE x \in (DOMAIN BlockTypes) \X (1 .. n.blocks)
  BY <1>1, BlockKinds DEF Heads, Chains, Chain, LmHead, Logits
<1>2. CASE \E i \in 1 .. 6 : x = Input(i)
  BY <1>2 DEF Heads, Chains, Chain, LmHead, Logits, Input
<1>3. CASE x \in Ropes \cup Slices(n)
  BY <1>3 DEF Heads, Chains, Chain, LmHead, Logits, Ropes, Conv, Slices
<1>4. CASE x \in Heads(n) \cup {Norm}
  BY <1>4 DEF Heads, Chains, Chain, LmHead, Logits, Norm
<1>. QED BY <1>1, <1>2, <1>3, <1>4, NamesAre

(* Of the layers of the head, the archive holds the parameters of those    *)
(* that are in the graph, and of no other (lm_head_split).                 *)
THEOREM SurgeryMovesWeights == Spec => []WeightsFollowLayers
<1>. DEFINE S == { name \in weights : name[1] # "conv" }
            T == { name \in DOMAIN layers : name[1] \in {"lm_head", "chain"} }
<1>1. ASSUME InSave, net \in Nets PROVE S = T
  <2>1. /\ Heads(net) \subseteq Kept(net) /\ Kept(net) \subseteq Names(net)
        /\ Heads(net) = Chains(net) \cup {LmHead, Logits}
    BY <1>1, HeadsAreKept DEF Heads
  <2>2. Weighted(net) = Ropes \cup Chains(net) \cup {LmHead}
    BY DEF Weighted, Ropes, Chains
  <2>3. \A x \in Ropes : x[1] = "conv"
    BY DEF Ropes, Conv
  <2>4. \A x \in Kept(net) : /\ x[1] \in {"lm_head", "chain"} <=> x \in Chains(net) \cup {LmHead}
                             /\ x \in Heads(net) => x[1] # "conv"
    BY <1>1, <2>1, HeadKinds
  <2>5. CASE weights = Weighted(net) /\ DOMAIN layers = Kept(net)
    BY <2>1, <2>2, <2>3, <2>4, <2>5
  <2>. DEFINE last == net.shards - 1
              copies == SplitWeights(0 .. last)
              split == Split(net, 0 .. last)
  <2>6. CASE /\ weights = Ropes \cup copies
             /\ DOMAIN layers = (Kept(net) \ Heads(net)) \cup split
    <3>1. \A x \in Heads(net) : \A s : Copy(x, s)[1] = x[1]
      BY CopiesAre
    <3>2. copies \subseteq split /\ \A x \in copies : x[1] \in {"lm_head", "chain"}
      <4>1. ASSUME NEW y \in copies PROVE y \in split /\ y[1] \in {"lm_head", "chain"}
        <5>1. PICK x \in Chains(net) \cup {LmHead}, s \in 0 .. last : y = Copy(x, s)
          BY DEF SplitWeights
        <5>2. x \in Heads(net) /\ x[1] \in {"lm_head", "chain"}
          BY <2>1, <2>4
        <5>. QED BY <3>1, <5>1, <5>2 DEF Split
      <4>. QED BY <4>1
    <3>3. \A y \in split : y[1] \in {"lm_head", "chain"} => y \in copies
      <4>1. ASSUME NEW y \in split, y[1] \in {"lm_head", "chain"} PROVE y \in copies
        <5>1. PICK x \in Heads(net), s \in 0 .. last : y = Copy(x, s)
          BY DEF Split
        <5>2. x[1] \in {"lm_head", "chain"}
          BY <3>1, <4>1, <5>1
        <5>3. x \in Chains(net) \cup {LmHead}
          BY <2>1, <2>4, <5>2
        <5>. QED BY <5>1, <5>3 DEF SplitWeights
      <4>. QED BY <4>1
    <3>. HIDE DEF copies, split
    <3>. QED BY <2>1, <2>3, <2>4, <2>6, <3>2, <3>3
  <2>. QED BY <1>1, <2>5, <2>6 DEF InSave
<1>2. SurgeryInv => WeightsFollowLayers
  <2>. SUFFICES ASSUME SurgeryInv, pc = "saved" PROVE S = T
    BY DEF WeightsFollowLayers
  <2>1. InSave /\ net \in Nets
    BY DEF SurgeryInv, LayersInv, PlaceInv, InRope, InMask, InCollect, InSplit, InSave
  <2>. QED BY <1>1, <2>1
<1>. QED BY SurgeryInvariant, <1>2, PTL

(* A set within a singleton. *)
LEMMA AtMostOne ==
  ASSUME NEW S, NEW y, S \subseteq {y}
  PROVE  Cardinality(S) <= 1
<1>1. IsFiniteSet({y}) /\ Cardinality({y}) = 1
  BY FS_Singleton
<1>. QED BY <1>1, FS_Subset

(* The readers of a layer of the chain, and of a copy of one.              *)
LEMMA ChainReaders ==
  ASSUME LayersInv, NEW j \in 1 .. Len(net.chain), NEW b \in DOMAIN layers
  PROVE  /\ Reads(layers, b, Chain(j)) => b = IF j = 1 THEN LmHead ELSE Chain(j - 1)
         /\ \A s \in 0 .. net.shards - 1 :
              Reads(layers, b, Copy(Chain(j), s)) =>
                b = IF j = 1 THEN Copy(LmHead, s) ELSE Copy(Chain(j - 1), s)
<1>1. /\ net \in Nets /\ b \in AllNames(net) /\ Chain(j) \in Heads(net)
      /\ layers[b].in = Operands(net, DOMAIN layers, b)
  BY HeadsAreKept DEF LayersInv
<1>2. CASE b \in Names(net)
  <2>1. ASSUME NEW a, Reads(layers, b, a), \A i : a # Input(i)
        PROVE  a \in Names(net) /\ \A i : a = Chain(i) => b = IF i = 1 THEN LmHead ELSE Chain(i - 1)
    <3>1. PICK k \in DOMAIN layers[b].in : layers[b].in[k] = a
      BY <2>1 DEF Reads
    <3>. DEFINE y == Inputs(net, b)[k]
    <3>2. k \in DOMAIN Inputs(net, b) /\ a = StandIn(DOMAIN layers, y)
      BY <1>1, <1>2, <3>1 DEF Operands
    <3>3. y = a
      BY <2>1, <3>2 DEF StandIn
    <3>4. y \in Names(net) /\ \A i : y = Chain(i) => b = IF i = 1 THEN LmHead ELSE Chain(i - 1)
      BY <1>1, <1>2, <3>2, WhoReads
    <3>. QED BY <3>3, <3>4
  <2>2. \A i : Chain(j) # Input(i)
    BY DEF Chain, Input
  <2>3. \A s : Copy(Chain(j), s) \notin Names(net)
    BY <1>1, CopiesAre
  <2>4. \A s : \A i : Copy(Chain(j), s) # Input(i)
    BY DEF Copy, Chain, Input
  <2>. QED BY <2>1, <2>2, <2>3, <2>4
<1>3. CASE b \notin Names(net)
  <2>1. PICK z \in Heads(net), t \in 0 .. net.shards - 1 : b = Copy(z, t)
    BY <1>1, <1>3 DEF AllNames, Split
  <2>2. b \in Split(net, {t}) /\ Chain(j) \in Names(net) \ {Norm}
    BY <1>1, <2>1, HeadsAreKept DEF Split
  <2>3. b[3] = t /\ Base(b) = z
    BY <2>1, CopiesAre
  <2>4. ASSUME NEW a, Reads(layers, b, a)
        PROVE  a = Norm \/ \E k \in DOMAIN Inputs(net, z) : a = Copy(Inputs(net, z)[k], t)
    <3>1. PICK k \in DOMAIN layers[b].in : layers[b].in[k] = a
      BY <2>4 DEF Reads
    <3>2. k \in DOMAIN Inputs(net, z) /\ a = CopyIn(Inputs(net, z)[k], t)
      BY <1>1, <1>3, <2>3, <3>1 DEF Operands
    <3>. QED BY <3>2 DEF CopyIn
  <2>5. ~ Reads(layers, b, Chain(j))
    <3>1. Chain(j) # Norm /\ \A y : Copy(y, t) # Chain(j)
      <4>1. \A y : Copy(y, t) # Base(Copy(y, t))
        BY DEF Copy, Base
      <4>2. Chain(j) = Base(Chain(j))
        BY DEF Chain, Base
      <4>. QED BY <2>2, <4>1, <4>2
    <3>. QED BY <2>4, <3>1
  <2>6. ASSUME NEW s \in 0 .. net.shards - 1, Reads(layers, b, Copy(Chain(j), s))
        PROVE  b = IF j = 1 THEN Copy(LmHead, s) ELSE Copy(Chain(j - 1), s)
    <3>1. Copy(Chain(j), s) # Norm
      BY <1>1, HeadsAreKept, CopiesAre
    <3>2. PICK k \in DOMAIN Inputs(net, z) : Copy(Chain(j), s) = Copy(Inputs(net, z)[k], t)
      BY <2>4, <2>6, <3>1
    <3>. DEFINE y == Inputs(net, z)[k]
    <3>3. z \in Names(net)
      BY <1>1, HeadsAreKept
    <3>4. y \in Names(net) /\ \A i : y = Chain(i) => z = IF i = 1 THEN LmHead ELSE Chain(i - 1)
      BY <1>1, <3>2, <3>3, WhoReads
    <3>. HIDE DEF y
    <3>5. y = Chain(j) /\ s = t
      <4>1. y = Base(y) /\ Chain(j) = Base(Chain(j))
        BY <2>2, <3>4, NamesArePairs
      <4>2. Copy(Chain(j), s) = Copy(y, t)
        BY <3>2 DEF y
      <4>3. Base(Copy(Chain(j), s)) = Base(Chain(j)) /\ Base(Copy(y, t)) = Base(y)
        BY DEF Base, Copy
      <4>4. Copy(Chain(j), s)[3] = s /\ Copy(y, t)[3] = t
        BY DEF Copy
      <4>. QED BY <4>1, <4>2, <4>3, <4>4
    <3>6. z = IF j = 1 THEN LmHead ELSE Chain(j - 1)
      BY <3>4, <3>5
    <3>. QED BY <2>1, <3>5, <3>6
  <2>. QED BY <2>5, <2>6
<1>. QED BY <1>2, <1>3

(* A normalization of the chain above the lm_head is read by one layer at  *)
(* most, however many shards there are (_duplicate_chain_for_shard).       *)
THEOREM NormalizationsFeedOne == Spec => []NormalizationFanOut
<1>1. ASSUME SurgeryInv, pc = "saved", NEW x \in DOMAIN layers, x[1] = "chain"
      PROVE  Cardinality(layers[x].out) <= 1
  <2>1. /\ LayersInv /\ net \in Nets /\ x \in AllNames(net)
        /\ layers[x].out = { b \in DOMAIN layers : Reads(layers, b, x) }
    BY <1>1 DEF SurgeryInv, GraphInv, LayersInv, Linked
  <2>2. CASE x \in Names(net)
    <3>1. x \in Chains(net)
      BY <1>1, <2>1, <2>2, HeadKinds
    <3>2. PICK j \in 1 .. Len(net.chain) : x = Chain(j)
      BY <3>1 DEF Chains
    <3>. DEFINE y == IF j = 1 THEN LmHead ELSE Chain(j - 1)
                S == layers[x].out
    <3>3. S \subseteq {y}
      BY <2>1, <3>2, ChainReaders
    <3>. HIDE DEF y, S
    <3>4. Cardinality(S) <= 1
      BY <3>3, AtMostOne
    <3>. QED BY <3>4 DEF S
  <2>3. CASE x \notin Names(net)
    <3>1. PICK z \in Heads(net), s \in 0 .. net.shards - 1 : x = Copy(z, s)
      BY <2>1, <2>3 DEF AllNames, Split
    <3>2. z \in Names(net) /\ z[1] = "chain"
      BY <1>1, <2>1, <3>1, CopiesAre, HeadsAreKept
    <3>3. z \in Chains(net)
      BY <2>1, <3>2, HeadKinds
    <3>4. PICK j \in 1 .. Len(net.chain) : z = Chain(j)
      BY <3>3 DEF Chains
    <3>. DEFINE y == IF j = 1 THEN Copy(LmHead, s) ELSE Copy(Chain(j - 1), s)
                S == layers[x].out
    <3>5. S \subseteq {y}
      BY <2>1, <3>1, <3>4, ChainReaders
    <3>. HIDE DEF y, S
    <3>6. Cardinality(S) <= 1
      BY <3>5, AtMostOne
    <3>. QED BY <3>6 DEF S
  <2>. QED BY <2>2, <2>3
<1>2. SurgeryInv => NormalizationFanOut
  BY <1>1 DEF NormalizationFanOut
<1>. QED BY SurgeryInvariant, <1>2, PTL

-----------------------------------------------------------------------------
(* The shards' columns. *)

(* A quotient rounded down. *)
LEMMA Quotient ==
  ASSUME NEW x \in Nat, NEW s \in Nat \ {0}
  PROVE  x \div s \in Nat /\ s * (x \div s) <= x /\ x < s * (x \div s) + s
OBVIOUS

(* How large a quotient is. *)
LEMMA QuotientAtLeast ==
  ASSUME NEW x \in Nat, NEW s \in Nat \ {0}, NEW q \in Nat, s * q <= x, x < s * q + s, NEW k \in Nat
  PROVE  k <= q <=> s * k <= x
<1>1. CASE k <= q
  <2>1. s * k <= s * q
    BY <1>1
  <2>. QED BY <1>1, <2>1
<1>2. CASE q + 1 <= k
  <2>1. s * (q + 1) <= s * k /\ s * (q + 1) = s * q + s
    BY <1>2
  <2>. QED BY <1>2, <2>1
<1>. QED BY <1>1, <1>2

(* A whole quotient is one of any multiple.                                *)
LEMMA WholeQuotient ==
  ASSUME NEW x \in Nat, NEW s \in Nat \ {0}, NEW t \in Int, s * t = x
  PROVE  s * (x \div s) = x
<1>. DEFINE q == x \div s
<1>1. q \in Nat /\ s * q <= x /\ x < s * q + s
  BY Quotient
<1>. HIDE DEF q
<1>2. CASE t <= q
  <2>1. s * t <= s * q
    BY <1>1, <1>2
  <2>. QED BY <1>1, <2>1 DEF q
<1>3. CASE q + 1 <= t
  <2>1. s * (q + 1) <= s * t /\ s * (q + 1) = s * q + s
    BY <1>1, <1>3
  <2>. QED BY <1>1, <2>1
<1>. QED BY <1>1, <1>2, <1>3

(* Where a bound comes out low, the whole is no multiple of the shards.    *)
LEMMA LowIs ==
  ASSUME net \in Nets, NEW i \in net.low
  PROVE  /\ i \in 1 .. net.shards - 1 /\ net.shards * Share(net, i) = i * net.vocab
         /\ \A t \in Int : net.shards * t # net.vocab
<1>1. /\ net.vocab \in Nat /\ net.shards \in Nat \ {0}
      /\ i \in 1 .. net.shards - 1 /\ net.shards * Share(net, i) = i * net.vocab
      /\ net.shards * Share(net, 1) # net.vocab
  BY NetsAssumption
<1>2. Share(net, 1) = net.vocab \div net.shards
  BY <1>1 DEF Share
<1>. QED BY <1>1, <1>2, WholeQuotient

(* np.linspace: a bound is at least k when so much of the whole is; at one *)
(* that comes out low, when more than so much is.                          *)
LEMMA BoundIs ==
  ASSUME net \in Nets, NEW i \in 0 .. net.shards
  PROVE  /\ Bound(i) \in Nat
         /\ net.shards * Bound(i) <= i * net.vocab
         /\ i \notin net.low => /\ i * net.vocab < net.shards * Bound(i) + net.shards
                                /\ \A k \in Nat : k <= Bound(i) <=> net.shards * k <= i * net.vocab
         /\ i \in net.low => /\ i * net.vocab = net.shards * Bound(i) + net.shards
                             /\ \A k \in Nat : k <= Bound(i) <=> net.shards * k < i * net.vocab
<1>. DEFINE v == net.vocab
            s == net.shards
            x == i * v
            q == x \div s
<1>1. v \in Nat \ {0} /\ s \in Nat \ {0} /\ i \in Nat
  <2>1. v \in Nat /\ s \in 1 .. v
    BY NetTypes
  <2>. QED BY <2>1
<1>2. x \in Nat
  BY <1>1
<1>3. Share(net, i) = q /\ Bound(i) = IF i \in net.low THEN q - 1 ELSE q
  <2>1. Share(net, i) = q
    BY DEF Share
  <2>2. q \in Int
    BY <1>1, <1>2, Quotient
  <2>. HIDE DEF q
  <2>. QED BY <2>1, <2>2 DEF Bound
<1>7. i \in net.low => s * q = x /\ i >= 1
  BY <1>3, LowIs
<1>8. i >= 1 => x >= 1
  <2>1. i >= 1 => i * v >= 1 * v /\ 1 * v = v
    BY <1>1
  <2>. QED BY <1>1, <2>1
<1>. HIDE DEF v, s, x
<1>4. q \in Nat /\ s * q <= x /\ x < s * q + s
  BY <1>1, <1>2, Quotient
<1>. HIDE DEF q
<1>5. \A k \in Nat : k <= q <=> s * k <= x
  BY <1>1, <1>2, <1>4, QuotientAtLeast
<1>6. CASE i \notin net.low
  BY <1>3, <1>4, <1>5, <1>6 DEF v, s, x
<1>9. CASE i \in net.low
  <2>. DEFINE p == q - 1
  <2>1. s * q = x /\ x >= 1
    BY <1>7, <1>8, <1>9
  <2>2. q # 0
    BY <1>1, <2>1
  <2>3. p \in Nat /\ s * p = s * q - s /\ Bound(i) = p
    BY <1>1, <1>3, <1>4, <1>9, <2>2
  <2>4. ASSUME NEW k \in Nat PROVE k <= p <=> s * k < x
    <3>1. k + 1 <= q <=> s * (k + 1) <= x
      BY <1>5
    <3>2. s * (k + 1) = s * k + s /\ s * k \in Nat
      BY <1>1
    <3>3. k <= q <=> s * k <= x
      BY <1>5
    <3>4. CASE k = q
      <4>1. s * k = x /\ ~ (k <= p)
        BY <1>4, <2>1, <3>4
      <4>. QED BY <1>2, <4>1
    <3>5. CASE k # q
      <4>1. k + 1 <= q <=> k <= q
        BY <1>4, <3>5
      <4>2. s * k = x => s * k = s * q
        BY <2>1
      <4>3. s * (k + 1) <= x => s * k < x
        BY <1>1, <1>2, <3>2
      <4>4. k + 1 <= q <=> k <= p
        BY <1>4
      <4>. QED BY <1>2, <3>1, <3>2, <3>3, <4>1, <4>3, <4>4
    <3>. QED BY <3>4, <3>5
  <2>5. s * p <= x /\ x = s * p + s
    BY <1>1, <1>4, <2>1, <2>3
  <2>. HIDE DEF p
  <2>. QED BY <1>9, <2>3, <2>4, <2>5 DEF v, s, x
<1>. QED BY <1>6, <1>9

(* The bounds begin at 0, end at the vocabulary and grow. *)
LEMMA BoundsMeet ==
  ASSUME net \in Nets
  PROVE  /\ Bound(0) = 0 /\ Bound(net.shards) = net.vocab
         /\ \A i \in 0 .. net.shards : \A j \in 0 .. net.shards : i <= j => Bound(i) <= Bound(j)
<1>. DEFINE v == net.vocab
            s == net.shards
<1>1. v \in Nat \ {0} /\ s \in Nat \ {0}
  <2>1. v \in Nat /\ s \in 1 .. v
    BY NetTypes
  <2>. QED BY <2>1
<1>2. ASSUME NEW i \in 0 .. s
      PROVE  /\ Bound(i) \in Nat /\ s * Bound(i) <= i * v
             /\ i \notin net.low => \A k \in Nat : k <= Bound(i) <=> s * k <= i * v
             /\ i \in net.low => \A k \in Nat : k <= Bound(i) <=> s * k < i * v
  BY BoundIs
<1>3. 0 \in 0 .. s /\ s \in 0 .. s /\ 0 \notin net.low /\ s \notin net.low
  BY <1>1, LowIs
<1>. HIDE DEF v, s
<1>4. Bound(0) = 0
  <2>1. Bound(0) \in Nat /\ (1 <= Bound(0) <=> s * 1 <= 0 * v)
    BY <1>2, <1>3
  <2>2. s * 1 = s /\ 0 * v = 0
    BY <1>1
  <2>. QED BY <1>1, <2>1, <2>2
<1>5. Bound(s) = v
  <2>1. /\ Bound(s) \in Nat /\ (v <= Bound(s) <=> s * v <= s * v)
        /\ (v + 1 <= Bound(s) <=> s * (v + 1) <= s * v)
    BY <1>1, <1>2, <1>3
  <2>2. s * (v + 1) = s * v + s /\ s * v \in Nat
    BY <1>1
  <2>. QED BY <1>1, <2>1, <2>2
<1>6. ASSUME NEW i \in 0 .. s, NEW j \in 0 .. s, i <= j PROVE Bound(i) <= Bound(j)
  <2>. DEFINE b == Bound(i)
  <2>1. /\ b \in Nat /\ s * b <= i * v /\ Bound(j) \in Nat
        /\ (b <= Bound(j) <=> s * b <= j * v) \/ (b <= Bound(j) <=> s * b < j * v)
    BY <1>2
  <2>2. i * v \in Nat /\ j * v \in Nat /\ s * b \in Nat
    BY <1>1, <1>6, <2>1
  <2>3. CASE i < j
    <3>1. (i + 1) * v <= j * v /\ (i + 1) * v = i * v + v
      BY <1>1, <2>3
    <3>. QED BY <1>1, <2>1, <2>2, <3>1
  <2>4. CASE i = j
    BY <2>1, <2>4
  <2>. QED BY <1>6, <2>3, <2>4
<1>. QED BY <1>4, <1>5, <1>6 DEF v, s

(* Every column is some shard's: the one its share falls into, or the next *)
(* if that one's end came out low.                                         *)
LEMMA ColumnHasShard ==
  ASSUME net \in Nets, NEW a \in 0 .. net.vocab - 1
  PROVE  \E i \in 0 .. net.shards - 1 : a \in Bound(i) .. Bound(i + 1) - 1
<1>. DEFINE v == net.vocab
            s == net.shards
            x == (a + 1) * s - 1
            i == x \div v
<1>1. v \in Nat \ {0} /\ s \in Nat \ {0} /\ a \in Nat /\ a < v
  <2>1. v \in Nat /\ s \in 1 .. v
    BY NetTypes
  <2>. QED BY <2>1
<1>2. x \in Nat /\ x < s * v
  <2>1. (a + 1) * s = a * s + s /\ a * s \in Nat
    BY <1>1
  <2>2. (a + 1) * s <= v * s /\ v * s = s * v
    BY <1>1
  <2>. QED BY <1>1, <2>1, <2>2
<1>3. v \in Nat \ {0} /\ v = net.vocab /\ s = net.shards
  BY <1>1
<1>10. ASSUME NEW k \in 0 .. s
       PROVE  /\ Bound(k) \in Nat
              /\ k \notin net.low => (a + 1 <= Bound(k) <=> s * (a + 1) <= k * v)
              /\ k \in net.low => (a + 1 <= Bound(k) <=> s * (a + 1) < k * v)
  <2>1. a + 1 \in Nat
    BY <1>1
  <2>. QED BY <2>1, BoundIs
<1>11. \A k \in net.low : k \in 1 .. s - 1
  BY LowIs
<1>. HIDE DEF v, s, x
<1>4. i \in Nat /\ v * i <= x /\ x < v * i + v
  BY <1>1, <1>2, Quotient
<1>. HIDE DEF i
<1>5. i \in 0 .. s - 1
  <2>1. CASE s <= i
    <3>1. v * s <= v * i /\ v * s = s * v
      BY <1>1, <1>4, <2>1
    <3>. QED BY <1>1, <1>2, <1>4, <3>1
  <2>. QED BY <1>1, <1>4, <2>1
<1>6. i \in 0 .. s /\ i + 1 \in 0 .. s /\ i \in Nat /\ i + 1 \in Nat
  BY <1>1, <1>5
<1>8. /\ s * (a + 1) = x + 1 /\ i * v = v * i /\ (i + 1) * v = v * i + v
      /\ v * i \in Nat
  <2>1. (a + 1) * s = s * (a + 1)
    BY <1>1
  <2>2. (a + 1) * s \in Nat
    BY <1>1
  <2>3. s * (a + 1) = x + 1
    BY <2>1, <2>2 DEF x
  <2>. QED BY <1>1, <1>4, <2>3
<1>. DEFINE p == v * i
<1>9. /\ ~ (a + 1 <= Bound(i)) /\ Bound(i) \in Nat /\ Bound(i + 1) \in Nat
      /\ (a + 1 <= Bound(i + 1) <=> x + 1 <= p + v) \/ (a + 1 <= Bound(i + 1) <=> x + 1 < p + v)
      /\ i + 1 \notin net.low => (a + 1 <= Bound(i + 1) <=> x + 1 <= p + v)
      /\ p \in Nat /\ p <= x /\ x < p + v
  <2>1. (a + 1 <= Bound(i) <=> x + 1 <= p) \/ (a + 1 <= Bound(i) <=> x + 1 < p)
    BY <1>6, <1>8, <1>10
  <2>2. /\ i + 1 \notin net.low => (a + 1 <= Bound(i + 1) <=> x + 1 <= p + v)
        /\ i + 1 \in net.low => (a + 1 <= Bound(i + 1) <=> x + 1 < p + v)
    BY <1>6, <1>8, <1>10
  <2>3. p \in Nat /\ p <= x /\ x < p + v /\ Bound(i) \in Nat /\ Bound(i + 1) \in Nat
    BY <1>4, <1>6, <1>8, <1>10
  <2>. HIDE DEF p
  <2>. QED BY <1>2, <2>1, <2>2, <2>3
<1>. HIDE DEF p
<1>12. CASE a + 1 <= Bound(i + 1)
  BY <1>1, <1>3, <1>5, <1>9, <1>12
<1>13. CASE ~ (a + 1 <= Bound(i + 1))
  <2>1. x + 1 = p + v /\ i + 1 \in net.low
    BY <1>1, <1>2, <1>9, <1>13
  <2>2. i + 1 \in 0 .. s - 1 /\ i + 2 \in 0 .. s /\ (i + 1) + 1 = i + 2
    BY <1>1, <1>6, <1>11, <2>1
  <2>3. (i + 2) * v = (p + v) + v
    BY <1>1, <1>6 DEF p
  <2>4. Bound(i + 2) \in Nat /\ a + 1 <= Bound(i + 2)
    <3>1. /\ Bound(i + 2) \in Nat
          /\ (a + 1 <= Bound(i + 2) <=> x + 1 <= (p + v) + v)
               \/ (a + 1 <= Bound(i + 2) <=> x + 1 < (p + v) + v)
      BY <1>8, <1>10, <2>2, <2>3
    <3>. QED BY <1>1, <1>9, <2>1, <3>1
  <2>5. a \in Bound(i + 1) .. Bound((i + 1) + 1) - 1
    BY <1>1, <1>9, <1>13, <2>2, <2>4
  <2>. QED BY <1>3, <2>2, <2>5
<1>. QED BY <1>12, <1>13

(* The shards' widths differ by one at most. *)
LEMMA WidthsAreEven ==
  ASSUME net \in Nets, NEW i \in 0 .. net.shards - 1, NEW j \in 0 .. net.shards - 1
  PROVE  /\ Bound(i + 1) - Bound(i) \in Nat
         /\ (Bound(i + 1) - Bound(i)) - (Bound(j + 1) - Bound(j)) <= 1
<1>. DEFINE v == net.vocab
            s == net.shards
<1>1. v \in Nat /\ s \in Nat \ {0} /\ i \in 0 .. s - 1 /\ j \in 0 .. s - 1
  BY NetTypes
<1>2. ASSUME NEW k \in 0 .. s
      PROVE  /\ Bound(k) \in Nat /\ s * Bound(k) <= k * v
             /\ k * v < s * Bound(k) + s
                  \/ (k * v = s * Bound(k) + s /\ \A t \in Int : s * t # v)
  BY BoundIs, LowIs
<1>3. \A k \in 0 .. s : \A h \in 0 .. s : k <= h => Bound(k) <= Bound(h)
  BY BoundsMeet
<1>. HIDE DEF v, s
<1>. DEFINE a == Bound(i)
            b == Bound(i + 1)
            c == Bound(j)
            d == Bound(j + 1)
            Uneven == \A t \in Int : s * t # v
<1>4. i \in 0 .. s /\ i + 1 \in 0 .. s /\ j \in 0 .. s /\ j + 1 \in 0 .. s
  BY <1>1
<1>5. /\ a \in Nat /\ b \in Nat /\ c \in Nat /\ d \in Nat /\ a <= b
      /\ s * a <= i * v /\ s * b <= (i + 1) * v /\ s * c <= j * v
      /\ i * v < s * a + s \/ (i * v = s * a + s /\ Uneven)
      /\ (j + 1) * v < s * d + s \/ ((j + 1) * v = s * d + s /\ Uneven)
  <2>1. b \in Nat /\ s * b <= (i + 1) * v /\ c \in Nat /\ s * c <= j * v
    BY <1>2, <1>4
  <2>2. /\ a \in Nat /\ s * a <= i * v
        /\ i * v < s * a + s \/ (i * v = s * a + s /\ Uneven)
    BY <1>2, <1>4
  <2>3. d \in Nat /\ ((j + 1) * v < s * d + s \/ ((j + 1) * v = s * d + s /\ Uneven))
    BY <1>2, <1>4
  <2>4. a <= b
    BY <1>1, <1>3, <1>4
  <2>. QED BY <2>1, <2>2, <2>3, <2>4
<1>6. /\ (i + 1) * v = i * v + v /\ (j + 1) * v = j * v + v
      /\ i * v \in Nat /\ j * v \in Nat
  BY <1>1
<1>. HIDE DEF a, b, c, d
<1>. DEFINE w == b - a
            z == d - c
<1>7. /\ s * w = s * b - s * a /\ s * z = s * d - s * c
      /\ s * a \in Nat /\ s * b \in Nat /\ s * c \in Nat /\ s * d \in Nat
      /\ w \in Nat /\ z \in Int
  BY <1>1, <1>5
<1>. HIDE DEF w, z
<1>10. s * w - s = s * (w - 1) /\ s * z + s = s * (z + 1) /\ w - 1 \in Int /\ z + 1 \in Int
  BY <1>1, <1>7
<1>11. Uneven => s * w - s # v /\ s * z + s # v
  BY <1>10
<1>. HIDE DEF Uneven
<1>12. /\ s * w \in Int /\ s * z \in Int
  BY <1>1, <1>7
<1>8. s * w < v + s /\ v < s * z + s
  <2>1. s * w < v + s
    BY <1>1, <1>5, <1>6, <1>7, <1>11, <1>12
  <2>2. v < s * z + s
    BY <1>1, <1>5, <1>6, <1>7, <1>11, <1>12
  <2>. QED BY <2>1, <2>2
<1>9. w - z <= 1
  <2>1. CASE w - z >= 2
    <3>1. s * (w - z) >= s * 2 /\ s * (w - z) = s * w - s * z /\ s * 2 = s + s
      BY <1>1, <1>7, <2>1
    <3>. QED BY <1>1, <1>8, <1>12, <3>1
  <2>. QED BY <1>7, <2>1
<1>. QED BY <1>7, <1>9 DEF a, b, c, d, w, z

(* The width of a range. *)
LEMMA WidthOfRange ==
  ASSUME NEW a \in Nat, NEW b \in Nat, a <= b
  PROVE  Cardinality(a .. b - 1) = b - a
<1>. DEFINE c == b - 1
<1>1. a \in Int /\ c \in Int
  OBVIOUS
<1>. HIDE DEF c
<1>2. Cardinality(a .. c) = IF a > c THEN 0 ELSE c - a + 1
  BY ONLY <1>1, FS_Interval
<1>. QED BY <1>2 DEF c

(* The columns under the names of the order: the whole vocabulary when     *)
(* there is one shard, the ranges between the bounds when there are more.  *)
LEMMA ColumnsInOrder ==
  ASSUME SurgeryInv, pc = "saved"
  PROVE  \/ order = <<LmHead>> /\ layers[LmHead].cols = 0 .. net.vocab - 1
         \/ /\ DOMAIN order = 1 .. net.shards
            /\ \A k \in 1 .. net.shards : layers[order[k]].cols = Bound(k - 1) .. Bound(k) - 1
<1>1. /\ InSave /\ net \in Nets
      /\ \A x \in DOMAIN layers : x[1] = "lm_head" => layers[x].cols = Columns(net, x)
  BY DEF SurgeryInv, LayersInv, PlaceInv, InRope, InMask, InCollect, InSplit, InSave
<1>2. LmHead \in Heads(net) /\ LmHead \in Kept(net) /\ LmHead \in Names(net) /\ LmHead[1] = "lm_head"
  <2>1. LmHead[1] = "lm_head"
    BY DEF LmHead
  <2>. QED BY <1>1, <2>1, HeadsAreKept
<1>3. CASE order = <<LmHead>> /\ DOMAIN layers = Kept(net)
  <2>1. layers[LmHead].cols = Columns(net, LmHead)
    BY <1>1, <1>2, <1>3
  <2>. QED BY <1>3, <2>1 DEF Columns
<1>4. CASE /\ order = [ k \in 1 .. net.shards |-> Copy(LmHead, k - 1) ]
           /\ DOMAIN layers = (Kept(net) \ Heads(net)) \cup Split(net, 0 .. net.shards - 1)
  <2>1. net.shards \in Nat
    BY <1>1, NetTypes
  <2>2. ASSUME NEW k \in 1 .. net.shards
        PROVE  layers[order[k]].cols = Bound(k - 1) .. Bound(k) - 1
    <3>. DEFINE s == k - 1
                H == Copy(LmHead, s)
    <3>1. order[k] = H /\ s \in 0 .. net.shards - 1 /\ s + 1 = k
      BY <1>4, <2>1
    <3>. HIDE DEF s
    <3>2. H[1] = "lm_head" /\ H[3] = s /\ H \notin Names(net)
      BY <1>2, CopiesAre
    <3>3. H \in DOMAIN layers
      BY <1>2, <1>4, <3>1 DEF Split
    <3>4. layers[H].cols = Columns(net, H) /\ H # LmHead
      BY <1>1, <1>2, <3>2, <3>3
    <3>. HIDE DEF H
    <3>5. layers[H].cols = Bound(s) .. Bound(s + 1) - 1
      BY <3>2, <3>4 DEF Columns
    <3>. QED BY <3>1, <3>5 DEF s
  <2>. QED BY <1>4, <2>2
<1>. QED BY <1>1, <1>3, <1>4 DEF InSave

(* The outputs, in the order step 3 records, are the logits of the whole   *)
(* vocabulary, each once and in its place, in blocks that differ by one at *)
(* most (lm_head_split and main's output_layers_order).                    *)
THEOREM SurgeryOrdersLogits == Spec => []LogitsInOrder
<1>1. SurgeryInv => LogitsInOrder
  <2>. SUFFICES ASSUME SurgeryInv, pc = "saved" PROVE LogitsInOrder
    BY DEF LogitsInOrder
  <2>. DEFINE cols(k) == layers[order[k]].cols
              width(k) == Cardinality(cols(k))
              Good == /\ UNION { cols(k) : k \in DOMAIN order } = 0 .. net.vocab - 1
                      /\ \A j, k \in DOMAIN order :
                           /\ j < k => \A a \in cols(j), b \in cols(k) : a < b
                           /\ width(j) - width(k) <= 1
  <2>. SUFFICES Good
    BY DEF LogitsInOrder
  <2>1. net \in Nets
    BY DEF SurgeryInv, LayersInv
  <2>2. net.vocab \in Nat /\ net.shards \in Nat \ {0}
    BY <2>1, NetTypes
  <2>3. CASE order = <<LmHead>> /\ layers[LmHead].cols = 0 .. net.vocab - 1
    <3>1. DOMAIN order = {1} /\ cols(1) = 0 .. net.vocab - 1
      <4>1. DOMAIN order = 1 .. 1 /\ order[1] = LmHead
        BY <2>3
      <4>. QED BY <2>3, <4>1
    <3>2. width(1) \in Nat
      <4>1. Cardinality(0 .. net.vocab - 1) = net.vocab - 0
        BY <2>2, WidthOfRange
      <4>. QED BY <2>2, <3>1, <4>1
    <3>. HIDE DEF cols, width
    <3>3. UNION { cols(k) : k \in DOMAIN order } = 0 .. net.vocab - 1
      BY <3>1
    <3>4. width(1) - width(1) <= 1 /\ ~ (1 < 1)
      BY <3>2
    <3>. QED BY <3>1, <3>3, <3>4
  <2>4. CASE /\ DOMAIN order = 1 .. net.shards
             /\ \A k \in 1 .. net.shards : cols(k) = Bound(k - 1) .. Bound(k) - 1
    <3>. DEFINE s == net.shards
    <3>1. /\ Bound(0) = 0 /\ Bound(s) = net.vocab
          /\ \A i \in 0 .. s : Bound(i) \in Nat
          /\ \A i \in 0 .. s : \A j \in 0 .. s : i <= j => Bound(i) <= Bound(j)
      BY <2>1, BoundsMeet, BoundIs
    <3>2. DOMAIN order = 1 .. s /\ \A k \in 1 .. s : cols(k) = Bound(k - 1) .. Bound(k) - 1
      BY <2>4
    <3>3. \A a \in 0 .. net.vocab - 1 : \E i \in 0 .. s - 1 : a \in Bound(i) .. Bound(i + 1) - 1
      BY <2>1, ColumnHasShard
    <3>4. \A i \in 0 .. s - 1 : \A j \in 0 .. s - 1 :
            /\ Bound(i + 1) - Bound(i) \in Nat
            /\ (Bound(i + 1) - Bound(i)) - (Bound(j + 1) - Bound(j)) <= 1
      BY <2>1, WidthsAreEven
    <3>. HIDE DEF cols, s
    <3>5. s \in Nat \ {0} /\ net.vocab \in Nat
      BY <2>2 DEF s
    <3>6. UNION { cols(k) : k \in DOMAIN order } = 0 .. net.vocab - 1
      <4>1. ASSUME NEW k \in 1 .. s, NEW a \in cols(k) PROVE a \in 0 .. net.vocab - 1
        <5>1. /\ k - 1 \in 0 .. s /\ k \in 0 .. s /\ s \in 0 .. s
          BY <3>5
        <5>2. a \in Bound(k - 1) .. Bound(k) - 1 /\ Bound(k - 1) \in Nat /\ Bound(k) \in Nat
              /\ Bound(k) <= net.vocab
          BY <3>1, <3>2, <5>1
        <5>. QED BY <3>5, <5>2
      <4>2. ASSUME NEW a \in 0 .. net.vocab - 1 PROVE \E k \in 1 .. s : a \in cols(k)
        <5>1. PICK i \in 0 .. s - 1 : a \in Bound(i) .. Bound(i + 1) - 1
          BY <3>3
        <5>2. i + 1 \in 1 .. s /\ (i + 1) - 1 = i
          BY <3>5
        <5>3. a \in cols(i + 1)
          BY <3>2, <5>1, <5>2
        <5>. QED BY <5>2, <5>3
      <4>. QED BY <3>2, <4>1, <4>2
    <3>7. ASSUME NEW j \in 1 .. s, NEW k \in 1 .. s, j < k, NEW a \in cols(j), NEW b \in cols(k)
          PROVE  a < b
      <4>1. j \in 0 .. s /\ k - 1 \in 0 .. s /\ j - 1 \in 0 .. s /\ k \in 0 .. s /\ j <= k - 1
        BY <3>5, <3>7
      <4>2. /\ a \in Bound(j - 1) .. Bound(j) - 1 /\ b \in Bound(k - 1) .. Bound(k) - 1
            /\ Bound(j) <= Bound(k - 1) /\ Bound(j) \in Nat /\ Bound(k - 1) \in Nat
            /\ Bound(j - 1) \in Nat /\ Bound(k) \in Nat
        BY <3>1, <3>2, <4>1
      <4>. QED BY <4>2
    <3>8. ASSUME NEW k \in 1 .. s PROVE width(k) = Bound(k) - Bound(k - 1)
      <4>. DEFINE lo == Bound(k - 1)
                  hi == Bound(k)
      <4>1. k - 1 \in 0 .. s /\ k \in 0 .. s /\ k - 1 <= k
        BY <3>5
      <4>2. lo \in Nat /\ hi \in Nat /\ lo <= hi /\ cols(k) = lo .. hi - 1
        BY <3>1, <3>2, <4>1
      <4>. HIDE DEF lo, hi
      <4>3. Cardinality(lo .. hi - 1) = hi - lo
        BY ONLY <4>2, WidthOfRange
      <4>. QED BY <4>2, <4>3 DEF lo, hi
    <3>9. ASSUME NEW j \in 1 .. s, NEW k \in 1 .. s PROVE width(j) - width(k) <= 1
      <4>1. j - 1 \in 0 .. s - 1 /\ k - 1 \in 0 .. s - 1 /\ (j - 1) + 1 = j /\ (k - 1) + 1 = k
        BY <3>5
      <4>. QED BY <3>4, <3>8, <4>1
    <3>. HIDE DEF width
    <3>. QED BY <3>2, <3>6, <3>7, <3>9
  <2>. HIDE DEF Good
  <2>. QED BY <2>3, <2>4, ColumnsInOrder
<1>. QED BY SurgeryInvariant, <1>1, PTL

-----------------------------------------------------------------------------
(* The graph that step 3 leaves, kind by kind. *)

(* The invariant, where the archive is written. *)
LEMMA SavedIs ==
  ASSUME SurgeryInv, pc = "saved"
  PROVE  /\ InSave /\ net \in Nets /\ net.blocks \in Nat \ {0}
         /\ Linked(layers) /\ DOMAIN layers \subseteq AllNames(net)
         /\ \A x \in DOMAIN layers :
              /\ layers[x].in = Operands(net, DOMAIN layers, x)
              /\ layers[x].type = Type(net, Base(x))
              /\ layers[x].out = { b \in DOMAIN layers : Reads(layers, b, x) }
         /\ Kept(net) \ Heads(net) \subseteq DOMAIN layers
         /\ \/ DOMAIN layers = Kept(net)
            \/ DOMAIN layers = (Kept(net) \ Heads(net)) \cup Split(net, 0 .. net.shards - 1)
<1>1. InSave /\ LayersInv /\ Linked(layers)
  BY DEF SurgeryInv, GraphInv, PlaceInv, InRope, InMask, InCollect, InSplit, InSave
<1>2. net \in Nets
  BY <1>1 DEF LayersInv
<1>3. net.blocks \in Nat \ {0}
  BY <1>2, NetTypes
<1>4. /\ \A x \in DOMAIN layers :
           /\ layers[x].in = Operands(net, DOMAIN layers, x)
           /\ layers[x].type = Type(net, Base(x))
           /\ layers[x].out = { b \in DOMAIN layers : Reads(layers, b, x) }
      /\ DOMAIN layers \subseteq AllNames(net)
  BY <1>1 DEF LayersInv, Linked
<1>. QED BY <1>1, <1>2, <1>3, <1>4 DEF InSave

(* What is in it. *)
LEMMA SavedNames ==
  ASSUME SurgeryInv, pc = "saved", NEW x \in DOMAIN layers
  PROVE  \/ \E kind \in DOMAIN BlockTypes, b \in 1 .. net.blocks : x = <<kind, b>>
         \/ x = Norm
         \/ \E i \in 1 .. 6 : x = Input(i)
         \/ Base(x) \in Heads(net)
<1>1. net \in Nets /\ x \in Kept(net) \cup Split(net, 0 .. net.shards - 1)
  BY SavedIs
<1>2. CASE x \in Kept(net)
  <2>1. x \in Names(net) /\ x \notin Ropes /\ x \notin Slices(net)
    BY <1>2 DEF Kept
  <2>2. x = Base(x)
    BY <2>1, NamesArePairs
  <2>. QED BY <2>1, <2>2, NamesAre
<1>3. CASE x \in Split(net, 0 .. net.shards - 1)
  <2>1. PICK z \in Heads(net), s \in 0 .. net.shards - 1 : x = Copy(z, s)
    BY <1>3 DEF Split
  <2>. QED BY <2>1, CopiesAre
<1>. QED BY <1>1, <1>2, <1>3

(* The kinds that read a RoPE input or the mask. *)
Fed == RopeMults \cup {"ew_add"}

(* A layer of a block. *)
LEMMA SavedBlock ==
  ASSUME SurgeryInv, pc = "saved", NEW kind \in DOMAIN BlockTypes, NEW b \in 1 .. net.blocks
  PROVE  /\ <<kind, b>> \in DOMAIN layers /\ layers[<<kind, b>>].type = BlockTypes[kind]
         /\ kind \notin Fed => layers[<<kind, b>>].in = BlockInputs(net, b)[kind]
<1>. DEFINE x == <<kind, b>>
            D == DOMAIN layers
<1>1. /\ net \in Nets /\ net.blocks \in Nat /\ Kept(net) \ Heads(net) \subseteq D
      /\ \A y \in D : layers[y].in = Operands(net, D, y) /\ layers[y].type = Type(net, Base(y))
  BY SavedIs
<1>2. ASSUME NEW other \in DOMAIN BlockTypes, NEW c \in 1 .. net.blocks
      PROVE  <<other, c>> \in D /\ <<other, c>> \in Names(net)
  <2>1. <<other, c>> \in Names(net)
    BY NamesAre
  <2>2. <<other, c>> \notin Ropes \cup Slices(net) \cup Heads(net)
    BY BlockKinds DEF Ropes, Conv, Slices, Heads, Chains, Chain, LmHead, Logits
  <2>. QED BY <1>1, <2>1, <2>2 DEF Kept
<1>3. x \in D /\ x \in Names(net) /\ Base(x) = x
  <2>1. x \in D /\ x \in Names(net)
    BY <1>2
  <2>. QED BY <2>1, NamesArePairs
<1>4. layers[x].type = BlockTypes[kind]
  BY <1>1, <1>3, TypesAre
<1>5. ASSUME kind \notin Fed
      PROVE  layers[x].in = BlockInputs(net, b)[kind]
  <2>1. Inputs(net, x) = BlockInputs(net, b)[kind] /\ Inputs(net, x) \in Seq(Names(net))
    BY <1>1, <1>3, InputsAre, InputsAreSequences
  <2>2. Input(1) \in D
    <3>1. Input(1) \in Names(net)
      BY NamesAre
    <3>2. Input(1) \notin Ropes \cup Slices(net) \cup Heads(net)
      BY DEF Input, Ropes, Conv, Slices, Heads, Chains, Chain, LmHead, Logits
    <3>. QED BY <1>1, <3>1, <3>2 DEF Kept
  <2>3. Before(b) \in D
    BY <1>1, <1>2, <2>2, BlockKinds DEF Before
  <2>4. ASSUME NEW k \in DOMAIN Inputs(net, x) PROVE StandIn(D, Inputs(net, x)[k]) = Inputs(net, x)[k]
    <3>1. Inputs(net, x)[k] \in D
      BY <1>2, <1>5, <2>1, <2>3, BlockOperands DEF Fed
    <3>. QED BY <3>1 DEF StandIn
  <2>5. layers[x].in = [ k \in DOMAIN Inputs(net, x) |-> StandIn(D, Inputs(net, x)[k]) ]
    BY <1>1, <1>3 DEF Operands
  <2>6. layers[x].in = [ k \in DOMAIN Inputs(net, x) |-> Inputs(net, x)[k] ]
    BY <2>4, <2>5
  <2>7. Inputs(net, x) = [ k \in DOMAIN Inputs(net, x) |-> Inputs(net, x)[k] ]
    BY <2>1
  <2>. QED BY <2>1, <2>6, <2>7
<1>. QED BY <1>3, <1>4, <1>5

(* The shared norm. *)
LEMMA SavedNorm ==
  ASSUME SurgeryInv, pc = "saved"
  PROVE  /\ Norm \in DOMAIN layers /\ layers[Norm].type = "layer_normalization"
         /\ layers[Norm].in = <<<<"mlp_add", net.blocks>>>>
<1>. DEFINE D == DOMAIN layers
            last == <<"mlp_add", net.blocks>>
<1>1. /\ net \in Nets /\ net.blocks \in Nat \ {0} /\ Kept(net) \ Heads(net) \subseteq D
      /\ \A y \in D : layers[y].in = Operands(net, D, y) /\ layers[y].type = Type(net, Base(y))
  BY SavedIs
<1>2. Norm \in D /\ Norm \in Names(net) /\ Base(Norm) = Norm
  BY <1>1, HeadsAreKept, NamesArePairs
<1>3. layers[Norm].type = "layer_normalization"
  BY <1>1, <1>2, TypesAre
<1>4. Inputs(net, Norm) = <<last>> /\ last \in D
  <2>1. "mlp_add" \in DOMAIN BlockTypes /\ net.blocks \in 1 .. net.blocks
    BY <1>1, BlockKinds
  <2>2. last \in D
    BY <2>1, SavedBlock
  <2>. QED BY <2>2, InputsAre
<1>5. layers[Norm].in = [ k \in 1 .. 1 |-> StandIn(D, Inputs(net, Norm)[k]) ]
  <2>1. layers[Norm].in = [ k \in DOMAIN Inputs(net, Norm) |-> StandIn(D, Inputs(net, Norm)[k]) ]
    BY <1>1, <1>2 DEF Operands
  <2>. QED BY <1>4, <2>1
<1>6. StandIn(D, last) = last
  BY <1>4 DEF StandIn
<1>. HIDE DEF last
<1>7. layers[Norm].in = <<last>>
  BY <1>4, <1>5, <1>6
<1>. QED BY <1>2, <1>3, <1>7 DEF last

(* The layers of the head, shards and copies among them.                   *)
LEMMA SavedHead ==
  ASSUME SurgeryInv, pc = "saved", NEW x \in DOMAIN layers, Base(x) \in Heads(net)
  PROVE  /\ x[1] \in {"chain", "lm_head", "output_layer"}
         /\ x[1] = "chain" => layers[x].type \in {"slice", "normalization"}
         /\ x[1] = "lm_head" =>
              /\ layers[x].type = "conv"
              /\ \E y \in DOMAIN layers : layers[x].in = <<y>> /\ Base(y) \in Heads(net) /\ y[1] = "chain"
              /\ \E y \in DOMAIN layers : layers[y].in = <<x>> /\ layers[y].type = "output_layer"
         /\ x[1] = "output_layer" =>
              /\ layers[x].type = "output_layer"
              /\ \E y \in DOMAIN layers : layers[x].in = <<y>> /\ Base(y) \in Heads(net) /\ y[1] = "lm_head"
<1>. DEFINE D == DOMAIN layers
<1>1. /\ net \in Nets
      /\ \A y \in D : layers[y].in = Operands(net, D, y) /\ layers[y].type = Type(net, Base(y))
      /\ \/ D = Kept(net)
         \/ D = (Kept(net) \ Heads(net)) \cup Split(net, 0 .. net.shards - 1)
  BY SavedIs
<1>2. /\ Heads(net) \subseteq Kept(net) /\ Kept(net) \subseteq Names(net)
      /\ Chain(1) \in Heads(net) /\ LmHead \in Heads(net) /\ Logits \in Heads(net)
      /\ \A z \in Heads(net) : Base(z) = z
      /\ Norm \notin Heads(net)
  BY <1>1, HeadsAreKept, NamesArePairs
<1>3. /\ Chain(1)[1] = "chain" /\ LmHead[1] = "lm_head" /\ Logits[1] = "output_layer"
      /\ \A z \in Heads(net) : \/ z \in Chains(net) /\ z[1] = "chain"
                               \/ z = LmHead \/ z = Logits
  BY DEF Heads, Chains, Chain, LmHead, Logits
<1>4. /\ Type(net, LmHead) = "conv" /\ Type(net, Logits) = "output_layer"
      /\ \A z \in Chains(net) : Type(net, z) \in {"slice", "normalization"}
  BY <1>1, TypesAre, NetTypes DEF Chains
<1>5. /\ layers[x].type = Type(net, Base(x)) /\ x[1] = Base(x)[1]
      /\ x[1] = "chain" => Base(x) \in Chains(net)
      /\ x[1] = "lm_head" => Base(x) = LmHead
      /\ x[1] = "output_layer" => Base(x) = Logits
  BY <1>1, <1>3 DEF Base
<1>6. CASE D = Kept(net)
  <2>1. x \in Heads(net) /\ x = Base(x)
    BY <1>2, <1>6, NamesArePairs
  <2>2. layers[LmHead].in = <<Chain(1)>> /\ layers[Logits].in = <<LmHead>>
    BY <1>1, <1>2, <1>6, HeadOperands
  <2>3. layers[Logits].type = "output_layer" /\ LmHead \in D /\ Logits \in D /\ Chain(1) \in D
    BY <1>1, <1>2, <1>4, <1>6
  <2>. QED BY <1>2, <1>3, <1>4, <1>5, <2>1, <2>2, <2>3
<1>7. CASE D = (Kept(net) \ Heads(net)) \cup Split(net, 0 .. net.shards - 1)
  <2>1. PICK z \in Heads(net), s \in 0 .. net.shards - 1 : x = Copy(z, s)
    <3>1. x \notin Kept(net) \ Heads(net)
      BY <1>2, NamesArePairs
    <3>. QED BY <1>7, <3>1 DEF Split
  <2>2. z = Base(x)
    BY <2>1, CopiesAre
  <2>3. ASSUME NEW y \in Heads(net)
        PROVE  /\ Copy(y, s) \in D /\ Base(Copy(y, s)) = y /\ Copy(y, s)[3] = s /\ Copy(y, s)[1] = y[1]
               /\ Copy(y, s) \notin Names(net) /\ CopyIn(y, s) = Copy(y, s)
    BY <1>2, <1>7, <2>1, CopiesAre DEF Split, CopyIn
  <2>4. ASSUME NEW y \in Heads(net), NEW w \in Heads(net), Inputs(net, y) = <<w>>
        PROVE  layers[Copy(y, s)].in = <<Copy(w, s)>>
    <3>1. layers[Copy(y, s)].in = [ k \in DOMAIN Inputs(net, y) |-> CopyIn(Inputs(net, y)[k], s) ]
      BY <1>1, <2>3 DEF Operands
    <3>2. layers[Copy(y, s)].in = [ k \in 1 .. 1 |-> CopyIn(w, s) ]
      BY <2>4, <3>1
    <3>. QED BY <2>3, <3>2
  <2>5. layers[Copy(LmHead, s)].in = <<Copy(Chain(1), s)>> /\ layers[Copy(Logits, s)].in = <<Copy(LmHead, s)>>
    BY <1>2, <2>4, InputsAre
  <2>6. layers[Copy(Logits, s)].type = "output_layer"
    BY <1>1, <1>2, <1>4, <2>3
  <2>7. ASSUME x[1] = "lm_head"
        PROVE  /\ layers[x].type = "conv"
               /\ \E y \in D : layers[x].in = <<y>> /\ Base(y) \in Heads(net) /\ y[1] = "chain"
               /\ \E y \in D : layers[y].in = <<x>> /\ layers[y].type = "output_layer"
    <3>1. x = Copy(LmHead, s) /\ layers[x].type = "conv"
      BY <1>4, <1>5, <2>1, <2>2, <2>7
    <3>2. Copy(Chain(1), s) \in D /\ Base(Copy(Chain(1), s)) \in Heads(net) /\ Copy(Chain(1), s)[1] = "chain"
      BY <1>2, <1>3, <2>3
    <3>3. Copy(Logits, s) \in D
      BY <1>2, <2>3
    <3>. QED BY <2>5, <2>6, <3>1, <3>2, <3>3
  <2>8. ASSUME x[1] = "output_layer"
        PROVE  /\ layers[x].type = "output_layer"
               /\ \E y \in D : layers[x].in = <<y>> /\ Base(y) \in Heads(net) /\ y[1] = "lm_head"
    <3>1. x = Copy(Logits, s)
      BY <1>5, <2>1, <2>2, <2>8
    <3>2. Copy(LmHead, s) \in D /\ Base(Copy(LmHead, s)) \in Heads(net) /\ Copy(LmHead, s)[1] = "lm_head"
      BY <1>2, <1>3, <2>3
    <3>. QED BY <2>5, <2>6, <3>1, <3>2
  <2>9. x[1] \in {"chain", "lm_head", "output_layer"}
    BY <1>3, <1>5
  <2>10. x[1] = "chain" => layers[x].type \in {"slice", "normalization"}
    BY <1>4, <1>5
  <2>. QED BY <2>7, <2>8, <2>9, <2>10
<1>. QED BY <1>1, <1>6, <1>7

ConvKinds == {"q_proj", "k_proj", "v_proj", "q_rotate", "k_rotate", "repeat_k", "repeat_v",
              "o_proj", "gate", "up", "down"}
SumKinds == {"q_rope", "k_rope", "ew_add", "attn_add", "mlp_add"}

(* The definition, one field at a time. *)
LEMMA BlockTypesAre ==
  /\ \A kind \in ConvKinds : BlockTypes[kind] = "conv"
  /\ \A kind \in {"attn_norm", "mlp_norm"} : BlockTypes[kind] = "layer_normalization"
  /\ \A kind \in {"attn_scale", "mlp_scale"} : BlockTypes[kind] = "normalization"
  /\ \A kind \in RopeMults \cup {"swiglu"} : BlockTypes[kind] = "ew_mult"
  /\ \A kind \in SumKinds : BlockTypes[kind] = "ew_add"
  /\ \A kind \in {"qk", "av"} : BlockTypes[kind] = "matmul"
  /\ BlockTypes["softmax"] = "softmax"
BY DEF BlockTypes, ConvKinds, SumKinds, RopeMults

(* Every kind is of one of these. *)
LEMMA KindsByType ==
  DOMAIN BlockTypes = ConvKinds \cup {"attn_norm", "mlp_norm"} \cup {"attn_scale", "mlp_scale"}
                        \cup RopeMults \cup {"swiglu"} \cup SumKinds \cup {"qk", "av"} \cup {"softmax"}
BY BlockKinds DEF ConvKinds, SumKinds, RopeMults

InBlock(x, kinds) == \E kind \in kinds, b \in 1 .. net.blocks : x = <<kind, b>>
InHead(x, kind) == Base(x) \in Heads(net) /\ x[1] = kind

(* Which layers have a type. *)
LEMMA SavedOfType ==
  ASSUME SurgeryInv, pc = "saved", NEW x \in DOMAIN layers
  PROVE  /\ layers[x].type = "conv" =>
              \/ InBlock(x, ConvKinds)
              \/ InHead(x, "lm_head")
         /\ layers[x].type = "layer_normalization" => x = Norm \/ InBlock(x, {"attn_norm", "mlp_norm"})
         /\ layers[x].type = "ew_mult" => InBlock(x, RopeMults \cup {"swiglu"})
         /\ layers[x].type = "ew_add" => InBlock(x, SumKinds)
         /\ layers[x].type = "matmul" => InBlock(x, {"qk", "av"})
         /\ layers[x].type = "softmax" => InBlock(x, {"softmax"})
         /\ layers[x].type = "slice" => InHead(x, "chain")
         /\ layers[x].type = "output_layer" => InHead(x, "output_layer")
<1>1. CASE \E kind \in DOMAIN BlockTypes, b \in 1 .. net.blocks : x = <<kind, b>>
  <2>1. PICK kind \in DOMAIN BlockTypes, b \in 1 .. net.blocks : x = <<kind, b>>
    BY <1>1
  <2>2. layers[x].type = BlockTypes[kind]
    BY <2>1, SavedBlock
  <2>3. \A kinds : kind \in kinds => InBlock(x, kinds)
    BY <2>1 DEF InBlock
  <2>4. /\ BlockTypes[kind] = "conv" => kind \in ConvKinds
        /\ BlockTypes[kind] = "layer_normalization" => kind \in {"attn_norm", "mlp_norm"}
        /\ BlockTypes[kind] = "ew_mult" => kind \in RopeMults \cup {"swiglu"}
        /\ BlockTypes[kind] = "ew_add" => kind \in SumKinds
        /\ BlockTypes[kind] = "matmul" => kind \in {"qk", "av"}
        /\ BlockTypes[kind] = "softmax" => kind \in {"softmax"}
        /\ BlockTypes[kind] \notin {"slice", "output_layer"}
    BY ONLY kind \in DOMAIN BlockTypes, KindsByType, BlockTypesAre
  <2>. QED BY <2>2, <2>3, <2>4
<1>2. CASE x = Norm
  BY <1>2, SavedNorm
<1>3. CASE \E i \in 1 .. 6 : x = Input(i)
  <2>1. layers[x].type = "input_layer"
    BY <1>3, SavedIs, TypesAre DEF Base, Input
  <2>. QED BY <2>1
<1>4. CASE Base(x) \in Heads(net)
  BY <1>4, SavedHead DEF InHead
<1>. QED BY <1>1, <1>2, <1>3, <1>4, SavedNames

(* What the layers of a block read, those without a RoPE or mask input.    *)
LEMMA SavedBlockReads ==
  ASSUME SurgeryInv, pc = "saved", NEW b \in 1 .. net.blocks, NEW a
  PROVE  /\ Reads(layers, <<"attn_norm", b>>, a) <=> a = Before(b)
         /\ Reads(layers, <<"q_proj", b>>, a) <=> a = <<"attn_scale", b>>
         /\ Reads(layers, <<"k_proj", b>>, a) <=> a = <<"attn_scale", b>>
         /\ Reads(layers, <<"v_proj", b>>, a) <=> a = <<"attn_scale", b>>
         /\ Reads(layers, <<"q_rotate", b>>, a) <=> a = <<"q_proj", b>>
         /\ Reads(layers, <<"k_rotate", b>>, a) <=> a = <<"k_proj", b>>
         /\ Reads(layers, <<"repeat_k", b>>, a) <=> a = <<"k_rope", b>>
         /\ Reads(layers, <<"repeat_v", b>>, a) <=> a = <<"v_proj", b>>
         /\ Reads(layers, <<"o_proj", b>>, a) <=> a = <<"av", b>>
         /\ Reads(layers, <<"mlp_norm", b>>, a) <=> a = <<"attn_add", b>>
         /\ Reads(layers, <<"gate", b>>, a) <=> a = <<"mlp_scale", b>>
         /\ Reads(layers, <<"up", b>>, a) <=> a = <<"mlp_scale", b>>
         /\ Reads(layers, <<"down", b>>, a) <=> a = <<"swiglu", b>>
         /\ Reads(layers, <<"qk", b>>, a) <=> a \in {<<"q_rope", b>>, <<"repeat_k", b>>}
         /\ Reads(layers, <<"av", b>>, a) <=> a \in {<<"softmax", b>>, <<"repeat_v", b>>}
         /\ Reads(layers, <<"swiglu", b>>, a) <=> a \in {<<"gate", b>>, <<"up", b>>}
<1>1. ASSUME NEW x, NEW y, layers[x].in = <<y>> PROVE Reads(layers, x, a) <=> a = y
  BY <1>1 DEF Reads
<1>2. ASSUME NEW x, NEW y, NEW z, layers[x].in = <<y, z>> PROVE Reads(layers, x, a) <=> a \in {y, z}
  BY <1>2 DEF Reads
<1>3. ASSUME NEW kind \in DOMAIN BlockTypes \ Fed
      PROVE  layers[<<kind, b>>].in = BlockInputs(net, b)[kind]
  BY SavedBlock
<1>4. /\ layers[<<"attn_norm", b>>].in = <<Before(b)>>
      /\ layers[<<"q_proj", b>>].in = <<<<"attn_scale", b>>>>
      /\ layers[<<"k_proj", b>>].in = <<<<"attn_scale", b>>>>
      /\ layers[<<"v_proj", b>>].in = <<<<"attn_scale", b>>>>
      /\ layers[<<"q_rotate", b>>].in = <<<<"q_proj", b>>>>
      /\ layers[<<"k_rotate", b>>].in = <<<<"k_proj", b>>>>
      /\ layers[<<"repeat_k", b>>].in = <<<<"k_rope", b>>>>
      /\ layers[<<"repeat_v", b>>].in = <<<<"v_proj", b>>>>
  BY <1>3, BlockKinds, BlockInputsAre DEF Fed, RopeMults
<1>5. /\ layers[<<"o_proj", b>>].in = <<<<"av", b>>>>
      /\ layers[<<"mlp_norm", b>>].in = <<<<"attn_add", b>>>>
      /\ layers[<<"gate", b>>].in = <<<<"mlp_scale", b>>>>
      /\ layers[<<"up", b>>].in = <<<<"mlp_scale", b>>>>
      /\ layers[<<"down", b>>].in = <<<<"swiglu", b>>>>
  BY <1>3, BlockKinds, BlockInputsAre DEF Fed, RopeMults
<1>6. /\ layers[<<"qk", b>>].in = <<<<"q_rope", b>>, <<"repeat_k", b>>>>
      /\ layers[<<"av", b>>].in = <<<<"softmax", b>>, <<"repeat_v", b>>>>
      /\ layers[<<"swiglu", b>>].in = <<<<"gate", b>>, <<"up", b>>>>
  BY <1>3, BlockKinds, BlockInputsAre DEF Fed, RopeMults
<1>. QED BY <1>1, <1>2, <1>4, <1>5, <1>6

(* What a conv may read. *)
LEMMA SavedConvReads ==
  ASSUME SurgeryInv, pc = "saved", NEW x \in DOMAIN layers, layers[x].type = "conv",
         NEW a, Reads(layers, x, a)
  PROVE  \/ \E b \in 1 .. net.blocks :
              \/ x \in {<<"q_proj", b>>, <<"k_proj", b>>, <<"v_proj", b>>} /\ a = <<"attn_scale", b>>
              \/ x = <<"q_rotate", b>> /\ a = <<"q_proj", b>>
              \/ x = <<"k_rotate", b>> /\ a = <<"k_proj", b>>
              \/ x = <<"repeat_k", b>> /\ a = <<"k_rope", b>>
              \/ x = <<"repeat_v", b>> /\ a = <<"v_proj", b>>
              \/ x = <<"o_proj", b>> /\ a = <<"av", b>>
              \/ x \in {<<"gate", b>>, <<"up", b>>} /\ a = <<"mlp_scale", b>>
              \/ x = <<"down", b>> /\ a = <<"swiglu", b>>
         \/ InHead(x, "lm_head") /\ InHead(a, "chain") /\ a \in DOMAIN layers
<1>1. CASE InBlock(x, ConvKinds)
  <2>1. PICK kind \in ConvKinds, b \in 1 .. net.blocks : x = <<kind, b>>
    BY <1>1 DEF InBlock
  <2>. QED BY <2>1, SavedBlockReads DEF ConvKinds
<1>2. CASE InHead(x, "lm_head")
  <2>1. PICK y \in DOMAIN layers : layers[x].in = <<y>> /\ Base(y) \in Heads(net) /\ y[1] = "chain"
    BY <1>2, SavedHead DEF InHead
  <2>2. a = y
    BY <2>1 DEF Reads
  <2>. QED BY <1>2, <2>1, <2>2 DEF InHead
<1>. QED BY <1>1, <1>2, SavedOfType

(* What a layer_normalization may read. *)
LEMMA SavedNormReads ==
  ASSUME SurgeryInv, pc = "saved", NEW x \in DOMAIN layers, layers[x].type = "layer_normalization",
         NEW a, Reads(layers, x, a)
  PROVE  \E b \in 1 .. net.blocks :
           \/ x = <<"attn_norm", b>> /\ a = Before(b)
           \/ x = <<"mlp_norm", b>> /\ a = <<"attn_add", b>>
           \/ x = Norm /\ a = <<"mlp_add", b>>
<1>1. CASE InBlock(x, {"attn_norm", "mlp_norm"})
  <2>1. PICK kind \in {"attn_norm", "mlp_norm"}, b \in 1 .. net.blocks : x = <<kind, b>>
    BY <1>1 DEF InBlock
  <2>. QED BY <2>1, SavedBlockReads
<1>2. CASE x = Norm
  <2>1. a = <<"mlp_add", net.blocks>> /\ net.blocks \in 1 .. net.blocks
    BY <1>2, SavedNorm, SavedIs DEF Reads
  <2>. QED BY <1>2, <2>1
<1>. QED BY <1>1, <1>2, SavedOfType

(* The neighbours of a layer, by type. *)
LEMMA Neighbours ==
  ASSUME SurgeryInv, pc = "saved", NEW x \in DOMAIN layers, NEW type
  PROVE  /\ type \in Succ(x) <=> \E b \in DOMAIN layers : Reads(layers, b, x) /\ layers[b].type = type
         /\ type \in Pred(x) <=> \E a \in DOMAIN layers : Reads(layers, x, a) /\ layers[a].type = type
<1>1. /\ layers[x].out = { b \in DOMAIN layers : Reads(layers, b, x) }
      /\ \A k \in DOMAIN layers[x].in : layers[x].in[k] \in DOMAIN layers
  BY SavedIs DEF Linked
<1>2. type \in Succ(x) <=> \E b \in DOMAIN layers : Reads(layers, b, x) /\ layers[b].type = type
  BY <1>1 DEF Succ
<1>3. type \in Pred(x) <=> \E a \in DOMAIN layers : Reads(layers, x, a) /\ layers[a].type = type
  BY <1>1 DEF Pred, Reads
<1>. QED BY <1>2, <1>3

Of(kinds) == kinds \X (1 .. net.blocks)

(* swiglu_mults: the products that feed a conv. *)
LEMMA SwigluMultsAre ==
  ASSUME SurgeryInv, pc = "saved"
  PROVE  SwigluMults = Of({"swiglu"})
<1>1. ASSUME NEW m \in SwigluMults PROVE m \in Of({"swiglu"})
  <2>1. m \in DOMAIN layers /\ layers[m].type = "ew_mult" /\ "conv" \in Succ(m)
    BY DEF SwigluMults, OfType
  <2>2. PICK x \in DOMAIN layers : Reads(layers, x, m) /\ layers[x].type = "conv"
    BY <2>1, Neighbours
  <2>3. PICK kind \in RopeMults \cup {"swiglu"}, b \in 1 .. net.blocks : m = <<kind, b>>
    BY <2>1, SavedOfType DEF InBlock
  <2>4. kind = "swiglu"
    BY <2>2, <2>3, SavedConvReads DEF InHead, RopeMults
  <2>. QED BY <2>3, <2>4 DEF Of
<1>2. ASSUME NEW b \in 1 .. net.blocks PROVE <<"swiglu", b>> \in SwigluMults
  <2>1. /\ <<"swiglu", b>> \in DOMAIN layers /\ layers[<<"swiglu", b>>].type = "ew_mult"
        /\ <<"down", b>> \in DOMAIN layers /\ layers[<<"down", b>>].type = "conv"
    BY SavedBlock, BlockKinds, BlockTypesAre DEF ConvKinds, SumKinds
  <2>2. Reads(layers, <<"down", b>>, <<"swiglu", b>>)
    BY SavedBlockReads
  <2>3. "conv" \in Succ(<<"swiglu", b>>)
    BY <2>1, <2>2, Neighbours
  <2>. QED BY <2>1, <2>3 DEF SwigluMults, OfType
<1>. QED BY <1>1, <1>2 DEF Of

(* down_proj: the convs they feed. *)
LEMMA DownProjAre ==
  ASSUME SurgeryInv, pc = "saved"
  PROVE  FindRoles.down_proj = Of({"down"})
<1>. DEFINE R == { c \in UNION { layers[m].out : m \in SwigluMults } : layers[c].type = "conv" }
<1>1. ASSUME NEW c \in R PROVE c \in Of({"down"})
  <2>1. PICK m \in SwigluMults : c \in layers[m].out
    OBVIOUS
  <2>2. PICK b \in 1 .. net.blocks : m = <<"swiglu", b>>
    BY SwigluMultsAre DEF Of
  <2>3. m \in DOMAIN layers
    BY DEF SwigluMults, OfType
  <2>4. c \in DOMAIN layers /\ Reads(layers, c, m) /\ layers[c].type = "conv"
    BY <2>1, <2>3, SavedIs
  <2>5. c = <<"down", b>>
    BY <2>2, <2>4, SavedConvReads DEF InHead
  <2>. QED BY <2>5 DEF Of
<1>2. ASSUME NEW b \in 1 .. net.blocks PROVE <<"down", b>> \in R
  <2>1. /\ <<"swiglu", b>> \in DOMAIN layers /\ <<"swiglu", b>> \in SwigluMults
        /\ <<"down", b>> \in DOMAIN layers /\ layers[<<"down", b>>].type = "conv"
    BY SavedBlock, BlockKinds, BlockTypesAre, SwigluMultsAre DEF Of, ConvKinds
  <2>2. Reads(layers, <<"down", b>>, <<"swiglu", b>>)
    BY SavedBlockReads
  <2>3. <<"down", b>> \in layers[<<"swiglu", b>>].out
    BY <2>1, <2>2, SavedIs
  <2>. QED BY <2>1, <2>3
<1>. HIDE DEF R
<1>3. R = Of({"down"})
  BY <1>1, <1>2 DEF Of
<1>. QED BY <1>3 DEF R, FindRoles

(* up_proj: the linear convs that feed them. *)
LEMMA UpProjAre ==
  ASSUME SurgeryInv, pc = "saved"
  PROVE  FindRoles.up_proj = Of({"up"})
<1>. DEFINE R == { c \in OfType("conv") : layers[c].out \cap SwigluMults # {} /\ Linear(c) }
<1>1. ASSUME NEW c \in R PROVE c \in Of({"up"})
  <2>1. c \in DOMAIN layers /\ Linear(c)
    BY DEF OfType
  <2>2. PICK m \in SwigluMults : m \in layers[c].out
    OBVIOUS
  <2>3. PICK b \in 1 .. net.blocks : m = <<"swiglu", b>>
    BY SwigluMultsAre DEF Of
  <2>4. Reads(layers, m, c)
    BY <2>1, <2>2, SavedIs
  <2>5. c \in {<<"gate", b>>, <<"up", b>>}
    BY <2>3, <2>4, SavedBlockReads
  <2>. QED BY <2>1, <2>5 DEF Linear, Of
<1>2. ASSUME NEW b \in 1 .. net.blocks PROVE <<"up", b>> \in R
  <2>1. /\ <<"swiglu", b>> \in DOMAIN layers /\ <<"swiglu", b>> \in SwigluMults
        /\ <<"up", b>> \in DOMAIN layers /\ layers[<<"up", b>>].type = "conv"
    BY SavedBlock, BlockKinds, BlockTypesAre, SwigluMultsAre DEF Of, ConvKinds
  <2>2. Reads(layers, <<"swiglu", b>>, <<"up", b>>)
    BY SavedBlockReads
  <2>3. <<"swiglu", b>> \in layers[<<"up", b>>].out
    BY <2>1, <2>2, SavedIs
  <2>. QED BY <2>1, <2>3 DEF OfType, Linear
<1>. HIDE DEF R
<1>3. R = Of({"up"})
  BY <1>1, <1>2 DEF Of
<1>. QED BY <1>3 DEF R, FindRoles

(* o_proj: the convs that read a matmul. *)
LEMMA OProjAre ==
  ASSUME SurgeryInv, pc = "saved"
  PROVE  FindRoles.o_proj = Of({"o_proj"})
<1>. DEFINE R == { c \in OfType("conv") : "matmul" \in Pred(c) }
<1>1. ASSUME NEW c \in R PROVE c \in Of({"o_proj"})
  <2>1. c \in DOMAIN layers /\ layers[c].type = "conv" /\ "matmul" \in Pred(c)
    BY DEF OfType
  <2>2. PICK a \in DOMAIN layers : Reads(layers, c, a) /\ layers[a].type = "matmul"
    BY <2>1, Neighbours
  <2>3. PICK kind \in {"qk", "av"}, i \in 1 .. net.blocks : a = <<kind, i>>
    BY <2>2, SavedOfType DEF InBlock
  <2>4. \E b \in 1 .. net.blocks : c = <<"o_proj", b>>
    BY <2>1, <2>2, <2>3, SavedConvReads DEF InHead
  <2>. QED BY <2>4 DEF Of
<1>2. ASSUME NEW b \in 1 .. net.blocks PROVE <<"o_proj", b>> \in R
  <2>1. /\ <<"av", b>> \in DOMAIN layers /\ layers[<<"av", b>>].type = "matmul"
        /\ <<"o_proj", b>> \in DOMAIN layers /\ layers[<<"o_proj", b>>].type = "conv"
    BY SavedBlock, BlockKinds, BlockTypesAre DEF ConvKinds, SumKinds
  <2>2. Reads(layers, <<"o_proj", b>>, <<"av", b>>)
    BY SavedBlockReads
  <2>3. "matmul" \in Pred(<<"o_proj", b>>)
    BY <2>1, <2>2, Neighbours
  <2>. QED BY <2>1, <2>3 DEF OfType
<1>. HIDE DEF R
<1>3. R = Of({"o_proj"})
  BY <1>1, <1>2 DEF Of
<1>. QED BY <1>3 DEF R, FindRoles

(* qk_matmuls: the matmuls that read no softmax. *)
LEMMA QkMatmulsAre ==
  ASSUME SurgeryInv, pc = "saved"
  PROVE  FindRoles.qk_matmuls = Of({"qk"})
<1>. DEFINE R == { m \in OfType("matmul") : "softmax" \notin Pred(m) }
<1>1. ASSUME NEW m \in R PROVE m \in Of({"qk"})
  <2>1. m \in DOMAIN layers /\ layers[m].type = "matmul" /\ "softmax" \notin Pred(m)
    BY DEF OfType
  <2>2. PICK kind \in {"qk", "av"}, b \in 1 .. net.blocks : m = <<kind, b>>
    BY <2>1, SavedOfType DEF InBlock
  <2>3. <<"softmax", b>> \in DOMAIN layers /\ layers[<<"softmax", b>>].type = "softmax"
    BY SavedBlock, BlockKinds, BlockTypesAre DEF ConvKinds, SumKinds
  <2>4. Reads(layers, <<"av", b>>, <<"softmax", b>>)
    BY SavedBlockReads
  <2>5. kind # "av"
    BY <2>1, <2>2, <2>3, <2>4, Neighbours
  <2>. QED BY <2>2, <2>5 DEF Of
<1>2. ASSUME NEW b \in 1 .. net.blocks PROVE <<"qk", b>> \in R
  <2>1. /\ <<"qk", b>> \in DOMAIN layers /\ layers[<<"qk", b>>].type = "matmul"
        /\ layers[<<"q_rope", b>>].type = "ew_add" /\ layers[<<"repeat_k", b>>].type = "conv"
    BY SavedBlock, BlockKinds, BlockTypesAre DEF SumKinds, ConvKinds
  <2>2. \A a : Reads(layers, <<"qk", b>>, a) => layers[a].type # "softmax"
    BY <2>1, SavedBlockReads
  <2>3. "softmax" \notin Pred(<<"qk", b>>)
    BY <2>1, <2>2, Neighbours
  <2>. QED BY <2>1, <2>3 DEF OfType
<1>. HIDE DEF R
<1>3. R = Of({"qk"})
  BY <1>1, <1>2 DEF Of
<1>. QED BY <1>3 DEF R, FindRoles

(* residual_adds: the sums that feed a norm. *)
LEMMA ResidualAddsAre ==
  ASSUME SurgeryInv, pc = "saved"
  PROVE  FindRoles.residual_adds = Of({"attn_add", "mlp_add"})
<1>. DEFINE R == { a \in OfType("ew_add") : "layer_normalization" \in Succ(a) }
<1>1. ASSUME NEW a \in R PROVE a \in Of({"attn_add", "mlp_add"})
  <2>1. a \in DOMAIN layers /\ layers[a].type = "ew_add" /\ "layer_normalization" \in Succ(a)
    BY DEF OfType
  <2>2. PICK x \in DOMAIN layers : Reads(layers, x, a) /\ layers[x].type = "layer_normalization"
    BY <2>1, Neighbours
  <2>3. PICK kind \in SumKinds, i \in 1 .. net.blocks : a = <<kind, i>>
    BY <2>1, SavedOfType DEF InBlock
  <2>4. PICK b \in 1 .. net.blocks : a \in {Before(b), <<"attn_add", b>>, <<"mlp_add", b>>}
    BY <2>2, SavedNormReads
  <2>5. kind \in {"attn_add", "mlp_add"}
    BY <2>3, <2>4 DEF Before, Input, SumKinds
  <2>. QED BY <2>3, <2>5 DEF Of
<1>2. ASSUME NEW b \in 1 .. net.blocks, NEW kind \in {"attn_add", "mlp_add"} PROVE <<kind, b>> \in R
  <2>1. <<kind, b>> \in DOMAIN layers /\ layers[<<kind, b>>].type = "ew_add"
    BY SavedBlock, BlockKinds, BlockTypesAre DEF ConvKinds, SumKinds
  <2>2. \E x \in DOMAIN layers : Reads(layers, x, <<kind, b>>) /\ layers[x].type = "layer_normalization"
    <3>1. CASE kind = "attn_add"
      <4>1. <<"mlp_norm", b>> \in DOMAIN layers /\ layers[<<"mlp_norm", b>>].type = "layer_normalization"
        BY SavedBlock, BlockKinds, BlockTypesAre DEF ConvKinds, SumKinds
      <4>2. Reads(layers, <<"mlp_norm", b>>, <<"attn_add", b>>)
        BY SavedBlockReads
      <4>. QED BY <3>1, <4>1, <4>2
    <3>2. CASE kind = "mlp_add" /\ b = net.blocks
      <4>1. Reads(layers, Norm, <<"mlp_add", b>>)
        BY <3>2, SavedNorm DEF Reads
      <4>. QED BY <3>2, <4>1, SavedNorm
    <3>3. CASE kind = "mlp_add" /\ b # net.blocks
      <4>1. b + 1 \in 1 .. net.blocks /\ Before(b + 1) = <<"mlp_add", b>>
        BY <3>3, SavedIs DEF Before
      <4>2. /\ <<"attn_norm", b + 1>> \in DOMAIN layers
            /\ layers[<<"attn_norm", b + 1>>].type = "layer_normalization"
        BY <4>1, SavedBlock, BlockKinds, BlockTypesAre
      <4>3. Reads(layers, <<"attn_norm", b + 1>>, <<"mlp_add", b>>)
        BY <4>1, SavedBlockReads
      <4>. QED BY <3>3, <4>2, <4>3
    <3>. QED BY <3>1, <3>2, <3>3
  <2>3. "layer_normalization" \in Succ(<<kind, b>>)
    BY <2>1, <2>2, Neighbours
  <2>. QED BY <2>1, <2>3 DEF OfType
<1>. HIDE DEF R
<1>3. R = Of({"attn_add", "mlp_add"})
  <2>1. ASSUME NEW a \in Of({"attn_add", "mlp_add"}) PROVE a \in R
    <3>1. PICK kind \in {"attn_add", "mlp_add"}, b \in 1 .. net.blocks : a = <<kind, b>>
      BY DEF Of
    <3>. QED BY <1>2, <3>1
  <2>. QED BY <1>1, <2>1
<1>. QED BY <1>3 DEF R, FindRoles

(* The lm_heads are the convs that feed an output, and they are wide enough. *)
LEMMA LmHeadsAre ==
  ASSUME SurgeryInv, pc = "saved", arch \in Archs
  PROVE  /\ LmHeads = { x \in DOMAIN layers : x[1] = "lm_head" }
         /\ { x \in OfType("conv") : "output_layer" \in Succ(x) } = LmHeads
<1>1. ASSUME NEW x \in DOMAIN layers, x[1] = "lm_head" PROVE x \in LmHeads
  <2>1. InHead(x, "lm_head")
    BY <1>1, SavedNames, BlockKinds DEF InHead, Norm, Input
  <2>2. PICK y \in DOMAIN layers : layers[y].in = <<x>> /\ layers[y].type = "output_layer"
    BY <2>1, SavedHead DEF InHead
  <2>3. "output_layer" \in Succ(x)
    <3>1. Reads(layers, y, x)
      BY <2>2 DEF Reads
    <3>. QED BY <2>2, <3>1, Neighbours
  <2>4. layers[x].type = "conv"
    BY <2>1, SavedHead DEF InHead
  <2>5. ~ Sparse(x) /\ InWidth(x) > arch.hd
    BY <1>1, ArchsAssumption DEF Sparse, InWidth
  <2>. QED BY <2>3, <2>4, <2>5 DEF LmHeads, CompressibleConvs, OfType
<1>2. ASSUME NEW x \in OfType("conv"), "output_layer" \in Succ(x) PROVE x[1] = "lm_head"
  <2>1. x \in DOMAIN layers /\ layers[x].type = "conv"
    BY DEF OfType
  <2>2. PICK y \in DOMAIN layers : Reads(layers, y, x) /\ layers[y].type = "output_layer"
    BY <1>2, <2>1, Neighbours
  <2>3. InHead(y, "output_layer")
    BY <2>2, SavedOfType
  <2>4. PICK z \in DOMAIN layers : layers[y].in = <<z>> /\ z[1] = "lm_head"
    BY <2>3, SavedHead DEF InHead
  <2>. QED BY <2>2, <2>4 DEF Reads
<1>3. \A x \in LmHeads : x \in DOMAIN layers /\ x \in OfType("conv") /\ "output_layer" \in Succ(x)
  BY DEF LmHeads, CompressibleConvs, OfType
<1>. QED BY <1>1, <1>2, <1>3 DEF OfType

(* find_roles finds the layers of every role, and no others: of a graph    *)
(* with any number of blocks, whatever is above its lm_head, and however   *)
(* many shards that is split into.                                         *)
LEMMA RolesAreFound ==
  SurgeryInv /\ arch \in Archs => RolesNameTheirLayers
<1>. SUFFICES ASSUME SurgeryInv, arch \in Archs, pc = "saved"
              PROVE  /\ FindRoles.swiglu_mults = Of({"swiglu"})
                     /\ FindRoles.down_proj = Of({"down"}) /\ FindRoles.up_proj = Of({"up"})
                     /\ FindRoles.o_proj = Of({"o_proj"}) /\ FindRoles.qk_matmuls = Of({"qk"})
                     /\ FindRoles.residual_adds = Of({"attn_add", "mlp_add"})
                     /\ FindRoles.lm_head = { n \in DOMAIN layers : n[1] = "lm_head" }
                     /\ \A n \in FindRoles.final_slice : n[1] = "chain"
  BY DEF RolesNameTheirLayers, Of
<1>1. FindRoles.swiglu_mults = Of({"swiglu"})
  BY SwigluMultsAre DEF FindRoles
<1>2. FindRoles.lm_head = { n \in DOMAIN layers : n[1] = "lm_head" }
  BY LmHeadsAre DEF FindRoles
<1>3. \A n \in FindRoles.final_slice : n[1] = "chain"
  BY SavedOfType DEF FindRoles, OfType, InHead
<1>. QED BY <1>1, <1>2, <1>3, DownProjAre, UpProjAre, OProjAre, QkMatmulsAre, ResidualAddsAre

-----------------------------------------------------------------------------
(* Scripts. *)

InputNames == { Input(i) : i \in 1 .. 6 }

(* The roles a recipe may ask for: with a split lm_head, all but           *)
(* {compressible_convs} if none of its lines does.                         *)
AsksUnsplit(lines) ==
  \E k \in DOMAIN lines : ~ lines[k].comment /\ "compressible_convs" \in lines[k].roles

Asked(lines) ==
  IF Splits(lines) > 1 /\ ~ AsksUnsplit(lines) THEN RoleNames \ {"compressible_convs"}
  ELSE RoleNames

(* The layers its script may name. *)
Nameable(roles, lines) == InputNames \cup UNION { roles[r] : r \in Asked(lines) }

Given(line, cmd) == line.cmd = cmd /\ ~ line.comment

(* A script, with the first done lines of the recipe read.                 *)
HalfScript(roles, builtin, lines, body, done) ==
  /\ body \in Seq({ Fill(roles, lines[k]) : k \in DOMAIN lines })
  /\ \A k \in DOMAIN body : \E j \in 1 .. done : body[k] = Fill(roles, lines[j])
  /\ \A j \in 1 .. done :
       Applies(roles, lines[j]) => \E k \in DOMAIN body : body[k] = Fill(roles, lines[j])
  /\ \A j, k \in DOMAIN body : Given(body[j], KvCommand) /\ Given(body[k], KvCommand) => j = k
  /\ lines = DefaultRecipe => Len(body) = done /\ \A k \in 1 .. done : body[k] = builtin[k]

(* A complete one. *)
WholeScript(roles, builtin, lines, body) ==
  /\ \A k \in DOMAIN body : body[k].comment \/ body[k].names \subseteq Nameable(roles, lines)
  /\ \A cmd \in {"llm_modifications", "set_input_mask_to_softmax"} : Active(body, cmd) = Active(lines, cmd)
  /\ \E k \in DOMAIN body :
       /\ body[k] = Command(KvCommand, "run")
       /\ \A j \in DOMAIN body \ {k} : ~ Given(body[j], KvCommand)
  /\ lines = DefaultRecipe => body = builtin

(* The assumption on a recipe, line by line. *)
LEMMA RecipeLines ==
  ASSUME NEW lines \in Recipes
  PROVE  /\ Len(lines) \in Nat /\ DOMAIN lines = 1 .. Len(lines)
         /\ \A k \in 1 .. Len(lines) : IsLine(lines[k])
         /\ \A j, k \in 1 .. Len(lines) :
              Given(lines[j], KvCommand) /\ Given(lines[k], KvCommand) => j = k
<1>1. Len(lines) \in Nat /\ DOMAIN lines = 1 .. Len(lines)
  BY RecipesAssumption, LenProperties
<1>. QED BY <1>1, RecipesAssumption DEF Given

(* What filling a line leaves. *)
LEMMA FillIs ==
  ASSUME NEW roles, NEW l, IsLine(l)
  PROVE  /\ Fill(roles, l).cmd = l.cmd /\ Fill(roles, l).comment = l.comment
         /\ l.comment => Fill(roles, l) = l
         /\ ~ l.comment =>
              /\ Fill(roles, l).names = l.names \cup UNION { roles[r] : r \in l.roles }
              /\ Fill(roles, l).setting = l.setting
         /\ l.cmd \in NetworkCommands => Fill(roles, l) = l /\ Applies(roles, l)
<1>1. l = [cmd |-> l.cmd, setting |-> l.setting, roles |-> l.roles, names |-> l.names, comment |-> l.comment]
  BY DEF IsLine
<1>2. CASE l.comment
  BY <1>2 DEF Fill, Applies
<1>3. CASE ~ l.comment
  <2>. DEFINE asked == UNION { roles[r] : r \in l.roles }
  <2>1. Fill(roles, l) = Line(l.cmd, l.setting, {}, l.names \cup asked)
    BY <1>3 DEF Fill
  <2>2. l.comment = FALSE
    BY <1>3 DEF IsLine
  <2>3. l.cmd \in NetworkCommands => l.roles = {} /\ l.names = {} /\ asked = {}
    BY DEF IsLine
  <2>4. l.cmd \in NetworkCommands => Applies(roles, l)
    BY <2>3 DEF Applies
  <2>. HIDE DEF asked
  <2>5. l.cmd \in NetworkCommands => Fill(roles, l) = l
    BY <1>1, <2>1, <2>2, <2>3 DEF Line
  <2>6. Fill(roles, l).comment = FALSE
    BY <2>1 DEF Line
  <2>7. /\ Fill(roles, l).cmd = l.cmd /\ Fill(roles, l).setting = l.setting
        /\ Fill(roles, l).names = l.names \cup asked
    BY <2>1 DEF Line
  <2>. QED BY <1>3, <2>2, <2>4, <2>5, <2>6, <2>7 DEF asked
<1>. QED BY <1>2, <1>3

(* The lines default.alls and the built-in script have in common.          *)
CommonLines(lines) ==
  /\ lines[1] = Command("ew_add_fusing", "disabled")
  /\ lines[2] = Command(KvCommand, "run")
  /\ lines[3] = Command("multiproc_policy", "disabled")
  /\ lines[4] = Command("calibration", "calibset_size")
  /\ lines[5] = Command("model_optimization_flavor", "level 4")
  /\ lines[6] = Command("bias_correction", "enabled")
  /\ lines[7] = Command("adaround", "disabled")
  /\ lines[8] = Command("finetune", "disabled")
  /\ lines[9] = Line("quantization_param", "a16_w16", {}, {Input(1)})

(* A line that stays as it is. *)
Plain(roles, l, cmd) ==
  l.cmd = cmd /\ l.comment = FALSE /\ l.roles = {} /\ l.names \subseteq InputNames /\ Fill(roles, l) = l

(* A line without roles. *)
LEMMA PlainLine ==
  ASSUME NEW roles, NEW cmd, NEW setting, NEW names \in SUBSET InputNames
  PROVE  Plain(roles, Line(cmd, setting, {}, names), cmd)
<1>1. UNION { roles[r] : r \in {} } = {}
  OBVIOUS
<1>2. Fill(roles, Line(cmd, setting, {}, names)) = Line(cmd, setting, {}, names)
  BY <1>1 DEF Fill, Line
<1>. QED BY <1>2 DEF Plain, Line

(* None of them has a role, and one sets the cache sizes. *)
LEMMA CommonLinesArePlain ==
  ASSUME NEW lines, CommonLines(lines), NEW roles, NEW k \in 1 .. 9
  PROVE  /\ \E cmd : Plain(roles, lines[k], cmd)
         /\ lines[k].cmd \notin {"llm_modifications", "set_input_mask_to_softmax"}
         /\ k # 2 => lines[k].cmd # KvCommand
<1>1. {} \in SUBSET InputNames /\ {Input(1)} \in SUBSET InputNames
  BY DEF InputNames
<1>2. /\ Plain(roles, lines[1], "ew_add_fusing") /\ Plain(roles, lines[2], KvCommand)
      /\ Plain(roles, lines[3], "multiproc_policy") /\ Plain(roles, lines[4], "calibration")
      /\ Plain(roles, lines[5], "model_optimization_flavor")
      /\ Plain(roles, lines[6], "bias_correction") /\ Plain(roles, lines[7], "adaround")
      /\ Plain(roles, lines[8], "finetune") /\ Plain(roles, lines[9], "quantization_param")
  BY <1>1, PlainLine DEF CommonLines, Command
<1>3. \E cmd \in {"ew_add_fusing", KvCommand, "multiproc_policy", "calibration",
                  "model_optimization_flavor", "bias_correction", "adaround", "finetune",
                  "quantization_param"} :
        Plain(roles, lines[k], cmd) /\ (k # 2 => cmd # KvCommand)
  BY <1>2 DEF KvCommand
<1>. QED BY <1>3 DEF Plain, KvCommand

(* default.alls, line by line. *)
LEMMA DefaultLines ==
  /\ Len(DefaultRecipe) = 10 /\ DOMAIN DefaultRecipe = 1 .. 10
  /\ CommonLines(DefaultRecipe)
  /\ DefaultRecipe[10] = Precision("a8_w4", {"compressible_convs"})
  /\ Splits(DefaultRecipe) = 0
<1>1. Len(DefaultRecipe) = 10 /\ DOMAIN DefaultRecipe = 1 .. 10
  BY DEF DefaultRecipe
<1>2. CommonLines(DefaultRecipe)
  BY DEF DefaultRecipe, CommonLines
<1>3. DefaultRecipe[10] = Precision("a8_w4", {"compressible_convs"})
  BY DEF DefaultRecipe
<1>4. \A k \in 1 .. 10 : DefaultRecipe[k].cmd # "llm_modifications"
  BY <1>2, <1>3, CommonLinesArePlain DEF Precision, Line
<1>5. Active(DefaultRecipe, "llm_modifications") = {}
  BY <1>1, <1>4 DEF Active
<1>6. Splits(DefaultRecipe) = 0
  BY <1>5, Zenon DEF Splits
<1>. QED BY <1>1, <1>2, <1>3, <1>6

(* The built-in script, line by line. *)
LEMMA BuiltInLines ==
  /\ Len(BuiltIn) = 10 /\ DOMAIN BuiltIn = 1 .. 10
  /\ CommonLines(BuiltIn)
  /\ BuiltIn[10] = Line("quantization_param", "a8_w4", {}, CompressibleConvs)
  /\ BuiltIn = [ k \in 1 .. 10 |-> BuiltIn[k] ]
<1>1. Len(BuiltIn) = 10 /\ DOMAIN BuiltIn = 1 .. 10
  BY DEF BuiltIn
<1>2. CommonLines(BuiltIn)
  BY DEF BuiltIn, CommonLines
<1>3. BuiltIn[10] = Line("quantization_param", "a8_w4", {}, CompressibleConvs)
  BY DEF BuiltIn
<1>4. BuiltIn = [ k \in 1 .. 10 |-> BuiltIn[k] ]
  BY DEF BuiltIn
<1>. QED BY <1>1, <1>2, <1>3, <1>4

(* default.alls, filled, is the built-in script. *)
Matches(roles, builtin) ==
  /\ Len(builtin) = 10 /\ builtin = [ k \in 1 .. 10 |-> builtin[k] ]
  /\ \A k \in 1 .. 10 :
       /\ Applies(roles, DefaultRecipe[k]) /\ Fill(roles, DefaultRecipe[k]) = builtin[k]
       /\ Sized(builtin[k]) = builtin[k]

(* Before the first line. *)
LEMMA HalfBegins ==
  ASSUME NEW lines, NEW roles, NEW builtin
  PROVE  HalfScript(roles, builtin, lines, << >>, 0)
<1>1. << >> \in Seq({ Fill(roles, lines[k]) : k \in DOMAIN lines }) /\ Len(<< >>) = 0
  OBVIOUS
<1>. QED BY <1>1 DEF HalfScript

(* A turn of the loop. *)
LEMMA HalfGoesOn ==
  ASSUME NEW lines \in Recipes, NEW roles, NEW builtin, NEW body, NEW done \in Nat,
         done < Len(lines), HalfScript(roles, builtin, lines, body, done),
         lines = DefaultRecipe => Matches(roles, builtin)
  PROVE  LET line == lines[done + 1]
         IN  HalfScript(roles, builtin, lines,
               IF Applies(roles, line) THEN Append(body, Fill(roles, line)) ELSE body, done + 1)
<1>. DEFINE line == lines[done + 1]
            filled == Fill(roles, line)
            S == { Fill(roles, lines[k]) : k \in DOMAIN lines }
<1>1. /\ done + 1 \in DOMAIN lines /\ Len(lines) \in Nat /\ IsLine(line)
      /\ \A j \in 1 .. done : j \in DOMAIN lines /\ IsLine(lines[j])
  BY RecipeLines
<1>2. body \in Seq(S) /\ filled \in S
  BY <1>1 DEF HalfScript
<1>3. \A j \in 1 .. done + 1 : j \in 1 .. done \/ j = done + 1
  OBVIOUS
<1>4. CASE ~ Applies(roles, line)
  <2>1. lines # DefaultRecipe
    BY <1>1, <1>4, DefaultLines DEF Matches
  <2>2. \A j \in 1 .. done : j \in 1 .. done + 1
    OBVIOUS
  <2>. QED BY <1>2, <1>3, <1>4, <2>1, <2>2 DEF HalfScript
<1>5. CASE Applies(roles, line)
  <2>. DEFINE more == Append(body, filled)
              n == Len(body)
  <2>1. /\ n \in Nat /\ more \in Seq(S) /\ Len(more) = n + 1
        /\ more[n + 1] = filled /\ \A k \in 1 .. n : more[k] = body[k]
        /\ DOMAIN more = 1 .. n + 1 /\ DOMAIN body = 1 .. n
    BY <1>2
  <2>2. \A k \in 1 .. n + 1 : k \in 1 .. n \/ k = n + 1
    BY <2>1
  <2>3. 1 .. n \subseteq 1 .. n + 1 /\ n + 1 \in 1 .. n + 1 /\ 1 .. done \subseteq 1 .. done + 1
    BY <2>1
  <2>. HIDE DEF S, more, n, filled, line
  <2>4. \A k \in DOMAIN more : \E j \in 1 .. done + 1 : more[k] = Fill(roles, lines[j])
    BY <2>1, <2>2, <2>3 DEF HalfScript, filled, line
  <2>5. \A j \in 1 .. done + 1 :
          Applies(roles, lines[j]) => \E k \in DOMAIN more : more[k] = Fill(roles, lines[j])
    BY <1>3, <2>1, <2>3 DEF HalfScript, filled, line
  <2>6. \A k \in 1 .. n : ~ (Given(body[k], KvCommand) /\ Given(filled, KvCommand))
    <3>1. SUFFICES ASSUME NEW k \in 1 .. n, Given(body[k], KvCommand), Given(filled, KvCommand)
                   PROVE  FALSE
      OBVIOUS
    <3>2. PICK j \in 1 .. done : body[k] = Fill(roles, lines[j])
      BY <2>1 DEF HalfScript
    <3>3. Given(lines[j], KvCommand) /\ Given(lines[done + 1], KvCommand)
      BY <1>1, <3>1, <3>2, FillIs DEF Given, filled, line
    <3>4. j \in 1 .. Len(lines) /\ done + 1 \in 1 .. Len(lines) /\ j # done + 1
      BY <1>1
    <3>. QED BY <3>3, <3>4, RecipeLines
  <2>7. \A j, k \in DOMAIN more : Given(more[j], KvCommand) /\ Given(more[k], KvCommand) => j = k
    BY <2>1, <2>2, <2>6 DEF HalfScript
  <2>8. lines = DefaultRecipe => Len(more) = done + 1 /\ \A k \in 1 .. done + 1 : more[k] = builtin[k]
    <3>. SUFFICES ASSUME lines = DefaultRecipe
                  PROVE  Len(more) = done + 1 /\ \A k \in 1 .. done + 1 : more[k] = builtin[k]
      OBVIOUS
    <3>1. n = done /\ \A k \in 1 .. n : body[k] = builtin[k]
      BY DEF HalfScript, n
    <3>2. filled = builtin[done + 1]
      BY <1>1, DefaultLines DEF Matches, filled, line
    <3>. QED BY <1>3, <2>1, <3>1, <3>2
  <2>9. HalfScript(roles, builtin, lines, more, done + 1)
    BY <2>1, <2>4, <2>5, <2>7, <2>8 DEF HalfScript, S
  <2>. QED BY <1>5, <2>9 DEF more, filled, line
<1>. QED BY <1>4, <1>5

(* What giving a line the sizes of the run leaves. *)
LEMMA SizedIs ==
  ASSUME NEW roles, NEW l, IsLine(l)
  PROVE  LET b == Fill(roles, l)
         IN  /\ Sized(b).cmd = b.cmd /\ Sized(b).comment = b.comment /\ Sized(b).names = b.names
             /\ b.cmd # KvCommand => Sized(b) = b
             /\ Given(b, KvCommand) => Sized(b) = Command(KvCommand, "run")
<1>. DEFINE b == Fill(roles, l)
<1>1. CASE b.cmd # KvCommand
  BY <1>1 DEF Sized, Given
<1>2. CASE b.cmd = KvCommand
  <2>1. l.cmd = KvCommand /\ b = l /\ l.roles = {} /\ l.names = {}
    BY <1>2, FillIs DEF IsLine, NetworkCommands
  <2>2. l = [cmd |-> l.cmd, setting |-> l.setting, roles |-> l.roles, names |-> l.names,
             comment |-> l.comment]
    BY DEF IsLine
  <2>3. [l EXCEPT !.setting = "run"] =
          [cmd |-> l.cmd, setting |-> "run", roles |-> l.roles, names |-> l.names, comment |-> l.comment]
    BY <2>2
  <2>4. Sized(b) = [cmd |-> l.cmd, setting |-> "run", roles |-> l.roles, names |-> l.names,
                    comment |-> l.comment]
    BY <1>2, <2>1, <2>3 DEF Sized
  <2>. HIDE DEF b
  <2>5. Sized(b).cmd = b.cmd /\ Sized(b).comment = b.comment /\ Sized(b).names = b.names
    BY <2>1, <2>4
  <2>6. Given(b, KvCommand) => Sized(b) = Command(KvCommand, "run")
    <3>. SUFFICES ASSUME Given(b, KvCommand)
                  PROVE  Sized(b) = Command(KvCommand, "run")
      OBVIOUS
    <3>1. l.comment = FALSE
      BY <2>1 DEF Given, IsLine
    <3>. QED BY <2>1, <2>4, <3>1 DEF Command, Line
  <2>. QED BY <1>2, <2>5, <2>6 DEF b
<1>. QED BY <1>1, <1>2

(* After the loop. *)
LEMMA HalfEnds ==
  ASSUME NEW lines \in Recipes, NEW roles, NEW builtin, NEW body,
         HalfScript(roles, builtin, lines, body, Len(lines)),
         lines = DefaultRecipe => Matches(roles, builtin)
  PROVE  WholeScript(roles, builtin, lines, WithSizes(lines, body))
<1>. DEFINE n == Len(body)
            S == { Fill(roles, lines[k]) : k \in DOMAIN lines }
            whole == WithSizes(lines, body)
            run == Command(KvCommand, "run")
            of(k) == CHOOSE j \in DOMAIN lines : body[k] = Fill(roles, lines[j])
<1>1. n \in Nat /\ body \in Seq(S) /\ DOMAIN body = 1 .. n
  BY DEF HalfScript
<1>2. DOMAIN lines = 1 .. Len(lines) /\ Len(lines) \in Nat /\ \A j \in DOMAIN lines : IsLine(lines[j])
  BY RecipeLines
<1>3. \A k \in 1 .. n : of(k) \in DOMAIN lines /\ body[k] = Fill(roles, lines[of(k)])
  BY <1>1, <1>2 DEF HalfScript
<1>. HIDE DEF of, n, S
<1>4. run.cmd = KvCommand /\ ~ run.comment /\ run.names = {} /\ run.comment = FALSE
  BY DEF Command, Line
<1>5. /\ \A k \in DOMAIN whole :
           whole[k] = run \/ \E j \in 1 .. n : whole[k] = body[j] \/ whole[k] = Sized(body[j])
      /\ \A k \in 1 .. n : body[k].cmd # KvCommand => \E j \in DOMAIN whole : whole[j] = body[k]
      /\ \E k \in DOMAIN whole :
           whole[k] = run /\ \A j \in DOMAIN whole \ {k} : ~ Given(whole[j], KvCommand)
  <2>1. CASE Active(lines, KvCommand) # {}
    <3>1. whole = [ k \in 1 .. n |-> Sized(body[k]) ]
      BY <1>1, <2>1 DEF WithSizes
    <3>. HIDE DEF whole
    <3>2. PICK i \in DOMAIN lines : Given(lines[i], KvCommand)
      BY <2>1 DEF Active, Given
    <3>3. Fill(roles, lines[i]) = lines[i] /\ Applies(roles, lines[i])
      BY <1>2, <3>2, FillIs DEF Given, NetworkCommands
    <3>4. PICK k \in 1 .. n : body[k] = Fill(roles, lines[i])
      BY <1>1, <1>2, <3>3 DEF HalfScript
    <3>5. Given(body[k], KvCommand) /\ whole[k] = run
      BY <1>2, <3>1, <3>2, <3>3, <3>4, SizedIs
    <3>6. \A j \in 1 .. n : Given(whole[j], KvCommand) => Given(body[j], KvCommand)
      BY <1>2, <1>3, <3>1, SizedIs DEF Given
    <3>7. \A j \in 1 .. n : body[j].cmd # KvCommand => whole[j] = body[j]
      BY <1>2, <1>3, <3>1, SizedIs
    <3>8. DOMAIN whole = 1 .. n /\ \A j \in 1 .. n : whole[j] = Sized(body[j])
      BY <3>1
    <3>9. \A j \in DOMAIN whole \ {k} : ~ Given(whole[j], KvCommand)
      BY <1>1, <3>5, <3>6, <3>8 DEF HalfScript
    <3>10. whole[k] = run /\ k \in DOMAIN whole
      BY <3>5, <3>8
    <3>11. \A i1 \in DOMAIN whole :
             whole[i1] = run \/ \E j \in 1 .. n : whole[i1] = body[j] \/ whole[i1] = Sized(body[j])
      BY <3>8
    <3>12. \A i1 \in 1 .. n : body[i1].cmd # KvCommand => \E j \in DOMAIN whole : whole[j] = body[i1]
      BY <3>7, <3>8
    <3>. HIDE DEF run
    <3>. QED BY <3>9, <3>10, <3>11, <3>12
  <2>2. CASE Active(lines, KvCommand) = {}
    <3>1. whole = <<run>> \o body
      BY <2>2 DEF WithSizes
    <3>2. /\ DOMAIN whole = 1 .. n + 1 /\ whole[1] = run
          /\ \A k \in 1 .. n : k + 1 \in 1 .. n + 1 /\ whole[k + 1] = body[k]
          /\ \A k \in 1 .. n + 1 : k = 1 \/ (k - 1 \in 1 .. n /\ whole[k] = body[k - 1])
      BY <1>1, <3>1 DEF n
    <3>. HIDE DEF whole
    <3>3. ASSUME NEW k \in 1 .. n
          PROVE  ~ Given(body[k], KvCommand)
      <4>1. of(k) \in DOMAIN lines /\ body[k] = Fill(roles, lines[of(k)]) /\ IsLine(lines[of(k)])
        BY <1>2, <1>3
      <4>2. body[k].cmd = lines[of(k)].cmd /\ body[k].comment = lines[of(k)].comment
        BY <4>1, FillIs
      <4>3. \A j \in DOMAIN lines : ~ Given(lines[j], KvCommand)
        BY <2>2 DEF Active, Given
      <4>. QED BY <4>1, <4>2, <4>3 DEF Given
    <3>4. \A j \in DOMAIN whole \ {1} : ~ Given(whole[j], KvCommand)
      BY <3>2, <3>3
    <3>5. \A k \in DOMAIN whole :
            whole[k] = run \/ \E j \in 1 .. n : whole[k] = body[j] \/ whole[k] = Sized(body[j])
      BY <3>2
    <3>6. \A k \in 1 .. n : \E j \in DOMAIN whole : whole[j] = body[k]
      BY <3>2
    <3>7. 1 \in DOMAIN whole
      BY <1>1, <3>2
    <3>. QED BY <3>2, <3>4, <3>5, <3>6, <3>7
  <2>. QED BY <2>1, <2>2
<1>. HIDE DEF whole
<1>6. ASSUME NEW k \in DOMAIN whole
      PROVE  whole[k].comment \/ whole[k].names \subseteq Nameable(roles, lines)
  <2>1. CASE whole[k] = run
    BY <1>4, <2>1
  <2>2. CASE \E j \in 1 .. n : whole[k] = body[j] \/ whole[k] = Sized(body[j])
    <3>1. PICK j \in 1 .. n : whole[k] = body[j] \/ whole[k] = Sized(body[j])
      BY <2>2
    <3>. DEFINE line == lines[of(j)]
    <3>2. /\ of(j) \in 1 .. Len(lines) /\ IsLine(line) /\ body[j] = Fill(roles, line)
          /\ whole[k].comment = line.comment /\ whole[k].names = body[j].names
      BY <1>2, <1>3, <3>1, FillIs, SizedIs
    <3>3. SUFFICES ASSUME ~ line.comment
                   PROVE  whole[k].names \subseteq Nameable(roles, lines)
      BY <3>2
    <3>4. whole[k].names = line.names \cup UNION { roles[r] : r \in line.roles }
      BY <3>2, <3>3, FillIs
    <3>5. line.names \subseteq InputNames /\ line.roles \subseteq RoleNames
      BY <3>2 DEF IsLine, InputNames
    <3>6. ~ AsksUnsplit(lines) => "compressible_convs" \notin line.roles
      BY <1>2, <3>2, <3>3, RecipeLines DEF AsksUnsplit
    <3>7. line.roles \subseteq Asked(lines)
      BY <3>5, <3>6 DEF Asked
    <3>. QED BY <3>4, <3>5, <3>7 DEF Nameable
  <2>. QED BY <1>5, <2>1, <2>2
<1>7. ASSUME NEW cmd \in {"llm_modifications", "set_input_mask_to_softmax"}
      PROVE  Active(whole, cmd) = Active(lines, cmd)
  <2>1. cmd \in NetworkCommands /\ cmd # KvCommand
    BY DEF NetworkCommands, KvCommand
  <2>2. ASSUME NEW k \in DOMAIN whole, Given(whole[k], cmd)
        PROVE  whole[k] \in Active(lines, cmd)
    <3>1. PICK j \in 1 .. n : whole[k] = body[j] \/ whole[k] = Sized(body[j])
      BY <1>4, <1>5, <2>1, <2>2 DEF Given
    <3>2. body[j] = Fill(roles, lines[of(j)]) /\ IsLine(lines[of(j)]) /\ of(j) \in DOMAIN lines
      BY <1>2, <1>3
    <3>3. body[j].cmd = cmd /\ whole[k] = body[j]
      BY <2>1, <2>2, <3>1, <3>2, SizedIs DEF Given
    <3>4. whole[k] = lines[of(j)]
      BY <2>1, <3>2, <3>3, FillIs
    <3>. QED BY <2>2, <3>2, <3>4 DEF Active, Given
  <2>3. ASSUME NEW i \in DOMAIN lines, Given(lines[i], cmd)
        PROVE  lines[i] \in Active(whole, cmd)
    <3>1. Fill(roles, lines[i]) = lines[i] /\ Applies(roles, lines[i])
      BY <1>2, <2>1, <2>3, FillIs DEF Given
    <3>2. PICK k \in 1 .. n : body[k] = lines[i]
      BY <1>1, <1>2, <3>1 DEF HalfScript
    <3>3. PICK j \in DOMAIN whole : whole[j] = lines[i]
      BY <1>5, <2>1, <2>3, <3>2 DEF Given
    <3>. QED BY <2>3, <3>3 DEF Active, Given
  <2>. QED BY <2>2, <2>3 DEF Active, Given
<1>8. ASSUME lines = DefaultRecipe
      PROVE  whole = builtin
  <2>1. /\ Matches(roles, builtin) /\ Len(lines) = 10 /\ n = 10
        /\ \A k \in 1 .. 10 : body[k] = builtin[k]
    BY <1>8, DefaultLines DEF HalfScript, n
  <2>2. Active(lines, KvCommand) # {}
    <3>. HIDE DEF run
    <3>1. DefaultRecipe[2] = run
      BY DefaultLines DEF CommonLines, run
    <3>2. 2 \in DOMAIN DefaultRecipe
      BY DefaultLines
    <3>3. 2 \in DOMAIN lines /\ lines[2] = run
      BY <1>8, <3>1, <3>2, Zenon
    <3>. QED BY <1>4, <3>3 DEF Active
  <2>3. whole = [ k \in 1 .. 10 |-> Sized(body[k]) ]
    BY <1>1, <2>1, <2>2 DEF WithSizes, whole
  <2>4. \A k \in 1 .. 10 : Sized(body[k]) = builtin[k]
    BY <2>1 DEF Matches
  <2>5. whole = [ k \in 1 .. 10 |-> builtin[k] ]
    BY <2>3, <2>4
  <2>. QED BY <2>1, <2>5 DEF Matches
<1>. QED
  <2>1. WholeScript(roles, builtin, lines, whole)
    BY <1>5, <1>6, <1>7, <1>8 DEF WholeScript
  <2>. QED BY <2>1 DEF whole

(* There is something to compress: the export's first q_proj at least.     *)
LEMMA SomethingCompressible ==
  ASSUME SurgeryInv, arch \in Archs, pc = "saved"
  PROVE  CompressibleConvs # {}
<1>. DEFINE q == <<"q_proj", 1>>
<1>1. 1 \in 1 .. net.blocks /\ "q_proj" \in DOMAIN BlockTypes
  BY SavedIs, BlockKinds
<1>2. q \in DOMAIN layers /\ layers[q].type = "conv"
  BY <1>1, SavedBlock, BlockTypesAre DEF ConvKinds
<1>3. InWidth(q) > arch.hd /\ ~ Sparse(q)
  BY ArchsAssumption DEF InWidth, Sparse
<1>. QED BY <1>2, <1>3 DEF CompressibleConvs, OfType

(* The lines of default.alls resolve to the built-in script's. *)
LEMMA DefaultMatches ==
  ASSUME SurgeryInv, arch \in Archs, pc = "saved"
  PROVE  Roles(DefaultRecipe) = FindRoles /\ Matches(FindRoles, BuiltIn)
<1>1. Roles(DefaultRecipe) = FindRoles
  BY DefaultLines DEF Roles
<1>2. ASSUME NEW k \in 1 .. 9
      PROVE  /\ Applies(FindRoles, DefaultRecipe[k]) /\ Fill(FindRoles, DefaultRecipe[k]) = BuiltIn[k]
             /\ Sized(BuiltIn[k]) = BuiltIn[k]
  <2>1. DefaultRecipe[k] = BuiltIn[k]
    <3>1. CommonLines(DefaultRecipe) /\ CommonLines(BuiltIn)
      BY DefaultLines, BuiltInLines
    <3>2. /\ DefaultRecipe[1] = BuiltIn[1] /\ DefaultRecipe[2] = BuiltIn[2]
          /\ DefaultRecipe[3] = BuiltIn[3] /\ DefaultRecipe[4] = BuiltIn[4]
          /\ DefaultRecipe[5] = BuiltIn[5] /\ DefaultRecipe[6] = BuiltIn[6]
          /\ DefaultRecipe[7] = BuiltIn[7] /\ DefaultRecipe[8] = BuiltIn[8]
          /\ DefaultRecipe[9] = BuiltIn[9]
      BY ONLY <3>1, Zenon DEF CommonLines
    <3>. QED BY <3>2
  <2>2. PICK cmd : Plain(FindRoles, DefaultRecipe[k], cmd)
    BY DefaultLines, CommonLinesArePlain
  <2>3. CASE k = 2
    <3>1. BuiltIn[k] = Line(KvCommand, "run", {}, {})
      BY <2>3, BuiltInLines DEF CommonLines, Command
    <3>2. Sized(Line(KvCommand, "run", {}, {})) = Line(KvCommand, "run", {}, {})
      BY DEF Sized, Line
    <3>. QED BY <2>1, <2>2, <3>1, <3>2 DEF Plain, Applies
  <2>4. CASE k # 2
    <3>1. BuiltIn[k].cmd # KvCommand
      BY <2>4, BuiltInLines, CommonLinesArePlain
    <3>. QED BY <2>1, <2>2, <3>1 DEF Plain, Applies, Sized
  <2>. QED BY <2>3, <2>4
<1>3. /\ Applies(FindRoles, DefaultRecipe[10]) /\ Fill(FindRoles, DefaultRecipe[10]) = BuiltIn[10]
      /\ Sized(BuiltIn[10]) = BuiltIn[10]
  <2>. DEFINE asked == UNION { FindRoles[r] : r \in {"compressible_convs"} }
  <2>1. FindRoles["compressible_convs"] = CompressibleConvs /\ asked = CompressibleConvs
    BY DEF FindRoles
  <2>2. DefaultRecipe[10] = Line("quantization_param", "a8_w4", {"compressible_convs"}, {})
    BY DefaultLines DEF Precision
  <2>3. BuiltIn[10] = Line("quantization_param", "a8_w4", {}, CompressibleConvs)
    BY BuiltInLines
  <2>4. Applies(FindRoles, DefaultRecipe[10])
    BY <2>1, <2>2, SomethingCompressible DEF Applies, Line
  <2>5. Fill(FindRoles, DefaultRecipe[10]) = Line("quantization_param", "a8_w4", {}, {} \cup asked)
    BY <2>2 DEF Fill, Line
  <2>6. Sized(BuiltIn[10]) = BuiltIn[10]
    BY <2>3 DEF Sized, Line, KvCommand
  <2>. QED BY <2>1, <2>3, <2>4, <2>5, <2>6
<1>4. \A k \in 1 .. 10 : k \in 1 .. 9 \/ k = 10
  OBVIOUS
<1>. QED BY <1>1, <1>2, <1>3, <1>4, BuiltInLines DEF Matches

(* Without a recipe. *)
LEMMA BuiltInIsWhole ==
  WholeScript(Roles(NoRecipe), BuiltIn, NoRecipe, BuiltIn)
<1>1. \A cmd : Active(NoRecipe, cmd) = {}
  BY DEF Active, NoRecipe
<1>2. Splits(NoRecipe) = 0
  BY <1>1, Zenon DEF Splits
<1>3. Asked(NoRecipe) = RoleNames /\ Roles(NoRecipe) = FindRoles
  BY <1>2, SMT DEF Asked, Roles
<1>4. CompressibleConvs \subseteq Nameable(FindRoles, NoRecipe) /\ InputNames \subseteq Nameable(FindRoles, NoRecipe)
  <2>1. FindRoles["compressible_convs"] = CompressibleConvs /\ "compressible_convs" \in RoleNames
    BY DEF FindRoles, RoleNames
  <2>. QED BY <1>3, <2>1 DEF Nameable
<1>5. BuiltIn[10].names = CompressibleConvs /\ BuiltIn[10].cmd = "quantization_param"
  BY BuiltInLines DEF Line
<1>6. \A k \in 1 .. 10 : k \in 1 .. 9 \/ k = 10
  OBVIOUS
<1>7. \A k \in 1 .. 9 : BuiltIn[k].names \subseteq InputNames
  BY BuiltInLines, CommonLinesArePlain DEF Plain
<1>8. \A k \in 1 .. 10 : BuiltIn[k].names \subseteq Nameable(FindRoles, NoRecipe)
  BY <1>4, <1>5, <1>6, <1>7
<1>9. \A k \in 1 .. 10 : BuiltIn[k].cmd \notin {"llm_modifications", "set_input_mask_to_softmax"}
  BY <1>5, <1>6, BuiltInLines, CommonLinesArePlain
<1>10. \A cmd \in {"llm_modifications", "set_input_mask_to_softmax"} : Active(BuiltIn, cmd) = {}
  BY <1>9, BuiltInLines DEF Active
<1>11. \A k \in 1 .. 10 : k # 2 => BuiltIn[k].cmd # KvCommand
  BY <1>5, <1>6, BuiltInLines, CommonLinesArePlain DEF KvCommand
<1>12. BuiltIn[2] = Command(KvCommand, "run")
  BY BuiltInLines DEF CommonLines
<1>13. 2 \in DOMAIN BuiltIn /\ DOMAIN BuiltIn = 1 .. 10
  BY BuiltInLines
<1>. QED BY <1>1, <1>3, <1>8, <1>10, <1>11, <1>12, <1>13 DEF WholeScript, Given

-----------------------------------------------------------------------------
(* Step 4, stage by stage. *)

HasScript == { "resolved", "printed", "calibrated", "optimized" }

StageInv ==
  /\ arch \in Archs
  /\ stage \in { "idle", "refused", "resolving" } \cup HasScript
  /\ stage # "idle" => pc = "saved"
  /\ stage = "idle" => lineno = 1 /\ script = << >>
  /\ stage = "resolving" =>
       /\ recipe \in Recipes /\ lineno \in 1 .. Len(recipe) + 1
       /\ HalfScript(Roles(recipe), BuiltIn, recipe, script, lineno - 1)
  /\ stage \in HasScript =>
       recipe \in Recipes \cup {NoRecipe} /\ WholeScript(Roles(recipe), BuiltIn, recipe, script)
  /\ stage \in { "calibrated", "optimized" } =>
       calib = IF FusedMask(recipe) THEN "multiplicative" ELSE "additive"
  /\ stage = "optimized" => scope = Rewritten(script)

(* The roles are those of a graph and a checkpoint. *)
LEMMA SameRoles ==
  ASSUME UNCHANGED <<layers, arch>>
  PROVE  FindRoles' = FindRoles /\ BuiltIn' = BuiltIn
<1>1. (CompressibleConvs)' = CompressibleConvs
  BY DEF CompressibleConvs, OfType, Sparse, InWidth
<1>2. LmHeads' = LmHeads
  BY <1>1 DEF LmHeads, Succ
<1>3. BlockConvs' = BlockConvs
  BY <1>1, <1>2 DEF BlockConvs
<1>4. SwigluMults' = SwigluMults
  BY DEF SwigluMults, OfType, Succ
<1>5. FindRoles' = FindRoles
  BY <1>1, <1>2, <1>3, <1>4 DEF FindRoles, InWidth, OfType, Succ, Pred, Linear
<1>6. BuiltIn' = BuiltIn
  BY <1>1 DEF BuiltIn
<1>. QED BY <1>5, <1>6

(* While none of it changes, neither does what is known. *)
LEMMA SameRecipe ==
  ASSUME UNCHANGED <<layers, arch, recipe>>
  PROVE  /\ Roles(recipe)' = Roles(recipe) /\ BuiltIn' = BuiltIn
         /\ FusedMask(recipe)' = FusedMask(recipe)
<1>1. Roles(recipe)' = Roles(recipe)
  BY SameRoles DEF Roles
<1>2. FusedMask(recipe)' = FusedMask(recipe)
  BY DEF FusedMask
<1>. QED BY <1>1, <1>2, SameRoles

(* Nothing of step 3 follows its last step. *)
LEMMA SurgeryIsOver ==
  ASSUME pc = "saved"
  PROVE  ~ Next
BY DEF Next, RopeStep, MaskStart, MaskStep, MaskEnd, CollectStep, CollectEnd, SplitStep,
       SplitEnd, Save

(* The invariant holds initially. *)
LEMMA Step4Starts == RecipeInit => StageInv
BY DEF RecipeInit, StageInv, HasScript

(* A step of step 3, and a stutter. *)
LEMMA SurgeryStage ==
  ASSUME StageInv, Surgery \/ UNCHANGED <<vars, step4>>
  PROVE  StageInv'
<1>1. UNCHANGED <<stage, arch, recipe, lineno, script, calib, scope>>
  BY DEF Surgery, step4
<1>2. CASE stage = "idle"
  BY <1>1, <1>2 DEF StageInv, HasScript
<1>3. CASE stage # "idle"
  <2>1. UNCHANGED <<layers, pc>>
    BY <1>3, SurgeryIsOver DEF StageInv, Surgery, vars
  <2>2. Rewritten(script)' = Rewritten(script)
    BY <1>1, <2>1 DEF Rewritten, OfType, Succ
  <2>. QED BY <1>1, <2>1, <2>2, SameRecipe DEF StageInv
<1>. QED BY <1>2, <1>3

(* The action Resolve. *)
LEMMA ResolveStage ==
  ASSUME StageInv, Resolve
  PROVE  StageInv'
<1>1. /\ pc' = "saved" /\ UNCHANGED <<layers, arch, lineno>> /\ lineno = 1 /\ script = << >>
      /\ arch \in Archs
  BY DEF Resolve, StageInv, vars
<1>2. CASE stage' = "refused"
  BY <1>1, <1>2 DEF StageInv, HasScript
<1>3. CASE stage' = "resolving"
  <2>1. recipe' \in Recipes /\ script' = << >>
    BY <1>1, <1>3 DEF Resolve
  <2>2. lineno' \in 1 .. Len(recipe') + 1 /\ lineno' - 1 = 0
    BY <1>1, <2>1, RecipeLines
  <2>3. HalfScript(Roles(recipe)', BuiltIn', recipe', << >>, 0)
    BY HalfBegins
  <2>. QED BY <1>1, <1>3, <2>1, <2>2, <2>3 DEF StageInv, HasScript
<1>4. CASE stage' \in {"resolved", "printed"}
  <2>1. recipe' = NoRecipe /\ script' = BuiltIn
    BY <1>4 DEF Resolve
  <2>2. Roles(recipe)' = Roles(NoRecipe) /\ BuiltIn' = BuiltIn
    BY <1>1, <2>1, SameRoles DEF Roles
  <2>3. WholeScript(Roles(recipe)', BuiltIn', recipe', script')
    BY <2>1, <2>2, BuiltInIsWhole
  <2>. QED BY <1>1, <1>4, <2>1, <2>3 DEF StageInv, HasScript
<1>5. stage' \in {"refused", "resolving", "resolved", "printed"}
  BY DEF Resolve
<1>. QED BY <1>2, <1>3, <1>4, <1>5

(* So does the recipe that is read, if it is the default. *)
LEMMA DefaultIsMatched ==
  ASSUME SurgeryInv, StageInv, pc = "saved"
  PROVE  recipe = DefaultRecipe => Matches(Roles(recipe), BuiltIn)
BY DefaultMatches DEF StageInv

(* The action ResolveLine. *)
LEMMA ResolveLineStage ==
  ASSUME SurgeryInv, StageInv, ResolveLine
  PROVE  StageInv'
<1>. DEFINE roles == Roles(recipe)
            line == recipe[lineno]
            done == lineno - 1
<1>1. /\ stage = "resolving" /\ lineno <= Len(recipe) /\ lineno' = lineno + 1 /\ pc = "saved"
      /\ UNCHANGED <<layers, pc, stage, arch, recipe>> /\ recipe \in Recipes
      /\ lineno \in 1 .. Len(recipe) + 1 /\ HalfScript(roles, BuiltIn, recipe, script, done)
      /\ arch \in Archs
      /\ script' = IF Applies(roles, line) THEN Append(script, Fill(roles, line)) ELSE script
  BY DEF ResolveLine, StageInv, vars
<1>2. /\ Len(recipe) \in Nat /\ done \in Nat /\ done < Len(recipe) /\ done + 1 = lineno
      /\ lineno' \in 1 .. Len(recipe) + 1 /\ lineno' - 1 = done + 1
  BY <1>1, RecipeLines
<1>3. HalfScript(roles, BuiltIn, recipe, script', done + 1)
  BY <1>1, <1>2, DefaultIsMatched, HalfGoesOn
<1>4. HalfScript(Roles(recipe)', BuiltIn', recipe', script', lineno' - 1)
  BY <1>1, <1>2, <1>3, SameRecipe
<1>. QED BY <1>1, <1>2, <1>4 DEF StageInv, HasScript

(* The action ResolveEnd. *)
LEMMA ResolveEndStage ==
  ASSUME SurgeryInv, StageInv, ResolveEnd
  PROVE  StageInv'
<1>. DEFINE roles == Roles(recipe)
<1>1. /\ stage = "resolving" /\ lineno > Len(recipe) /\ pc = "saved"
      /\ UNCHANGED <<layers, pc, arch, recipe>> /\ recipe \in Recipes
      /\ lineno \in 1 .. Len(recipe) + 1 /\ HalfScript(roles, BuiltIn, recipe, script, lineno - 1)
      /\ arch \in Archs /\ script' = WithSizes(recipe, script) /\ stage' \in {"resolved", "printed"}
  BY DEF ResolveEnd, StageInv, vars
<1>2. lineno - 1 = Len(recipe)
  BY <1>1, RecipeLines
<1>3. WholeScript(roles, BuiltIn, recipe, script')
  BY <1>1, <1>2, DefaultIsMatched, HalfEnds
<1>4. WholeScript(Roles(recipe)', BuiltIn', recipe', script')
  BY <1>1, <1>3, SameRecipe
<1>. QED BY <1>1, <1>4 DEF StageInv, HasScript

(* The action BuildCalibration. *)
LEMMA BuildCalibrationStage ==
  ASSUME StageInv, BuildCalibration
  PROVE  StageInv'
<1>1. /\ stage = "resolved" /\ stage' = "calibrated" /\ pc = "saved" /\ arch \in Archs
      /\ UNCHANGED <<layers, pc, arch, recipe, script>> /\ recipe \in Recipes \cup {NoRecipe}
      /\ WholeScript(Roles(recipe), BuiltIn, recipe, script)
      /\ calib' = IF FusedMask(recipe) THEN "multiplicative" ELSE "additive"
  BY DEF BuildCalibration, StageInv, HasScript, vars
<1>2. WholeScript(Roles(recipe)', BuiltIn', recipe', script') /\ FusedMask(recipe)' = FusedMask(recipe)
  BY <1>1, SameRecipe
<1>. QED BY <1>1, <1>2 DEF StageInv, HasScript

(* The action Optimize. *)
LEMMA OptimizeStage ==
  ASSUME StageInv, Optimize
  PROVE  StageInv'
<1>1. /\ stage = "calibrated" /\ stage' = "optimized" /\ pc = "saved" /\ arch \in Archs
      /\ UNCHANGED <<layers, pc, arch, recipe, script, calib>> /\ recipe \in Recipes \cup {NoRecipe}
      /\ WholeScript(Roles(recipe), BuiltIn, recipe, script)
      /\ calib = IF FusedMask(recipe) THEN "multiplicative" ELSE "additive"
      /\ scope' = Rewritten(script)
  BY DEF Optimize, StageInv, HasScript, vars
<1>2. WholeScript(Roles(recipe)', BuiltIn', recipe', script') /\ FusedMask(recipe)' = FusedMask(recipe)
  BY <1>1, SameRecipe
<1>3. Rewritten(script)' = Rewritten(script)
  BY <1>1 DEF Rewritten, OfType, Succ
<1>. QED BY <1>1, <1>2, <1>3 DEF StageInv, HasScript

(* Step 4 over any graph that step 3 leaves. *)
THEOREM RecipeInvariant == RecipeSpec => [](SurgeryInv /\ StageInv)
<1>1. RecipeInit => SurgeryInv /\ StageInv
  BY SurgeryStarts, Step4Starts DEF RecipeInit
<1>2. SurgeryInv /\ StageInv /\ [RecipeNext]_<<vars, step4>> => (SurgeryInv /\ StageInv)'
  <2>. SUFFICES ASSUME SurgeryInv, StageInv, [RecipeNext]_<<vars, step4>>
                PROVE  SurgeryInv' /\ StageInv'
    OBVIOUS
  <2>1. SurgeryInv'
    <3>1. Next \/ UNCHANGED vars
      BY DEF RecipeNext, Surgery, Resolve, ResolveLine, ResolveEnd, BuildCalibration, Optimize
    <3>. QED BY <3>1, SurgeryGoesOn
  <2>2. StageInv'
    BY SurgeryStage, ResolveStage, ResolveLineStage, ResolveEndStage, BuildCalibrationStage,
       OptimizeStage DEF RecipeNext
  <2>. QED BY <2>1, <2>2
<1>. QED BY <1>1, <1>2, PTL DEF RecipeSpec

-----------------------------------------------------------------------------
(* The properties of step 4. *)

(* Every role is held by layers of the graph; which may be moved or split. *)
LEMMA RolesAreInGraph ==
  ASSUME SurgeryInv, pc = "saved", arch \in Archs, NEW r \in RoleNames, NEW x \in FindRoles[r]
  PROVE  /\ x \in DOMAIN layers
         /\ layers[x].type = "slice" <=> r = "final_slice"
         /\ x \in LmHeads => r \in {"compressible_convs", "lm_head"}
<1>. DEFINE Holds(role) == /\ x \in DOMAIN layers
                           /\ layers[x].type = "slice" <=> role = "final_slice"
                           /\ x \in LmHeads => role \in {"compressible_convs", "lm_head"}
<1>1. \A h \in LmHeads : h \in DOMAIN layers /\ layers[h].type = "conv" /\ h[1] = "lm_head"
  BY LmHeadsAre DEF LmHeads, CompressibleConvs, OfType
<1>2. CASE r \in {"compressible_convs", "block_convs", "block_convs_g128", "lm_head"}
  <2>1. /\ r \in {"block_convs", "block_convs_g128"} => x \in BlockConvs
        /\ r = "compressible_convs" => x \in CompressibleConvs
        /\ r = "lm_head" => x \in LmHeads
    BY <1>2 DEF FindRoles
  <2>2. x \in CompressibleConvs /\ (r \in {"block_convs", "block_convs_g128"} => x \notin LmHeads)
    BY <1>2, <2>1 DEF BlockConvs, LmHeads
  <2>. QED BY <1>2, <2>2 DEF CompressibleConvs, OfType
<1>3. CASE r = "final_slice"
  BY <1>1, <1>3 DEF FindRoles, OfType
<1>4. CASE r \in {"down_proj", "up_proj", "o_proj"}
  <2>1. x \in Of({"down"}) \/ x \in Of({"up"}) \/ x \in Of({"o_proj"})
    BY <1>4, DownProjAre, UpProjAre, OProjAre DEF FindRoles
  <2>2. PICK kind \in {"down", "up", "o_proj"}, b \in 1 .. net.blocks : x = <<kind, b>>
    BY <2>1 DEF Of
  <2>3. x \in DOMAIN layers /\ layers[x].type = "conv"
    BY <2>2, SavedBlock, BlockTypesAre, BlockKinds DEF ConvKinds
  <2>4. x[1] # "lm_head"
    BY <2>2
  <2>. QED BY <1>1, <1>4, <2>3, <2>4
<1>5. CASE r \in {"swiglu_mults", "residual_adds", "qk_matmuls"}
  <2>1. x \in OfType("ew_mult") \/ x \in OfType("ew_add") \/ x \in OfType("matmul")
    BY <1>5 DEF FindRoles, SwigluMults
  <2>. QED BY <1>1, <1>5, <2>1 DEF OfType
<1>. QED BY <1>2, <1>3, <1>4, <1>5 DEF RoleNames

(* The surgery leaves the inputs. *)
LEMMA InputsAreInGraph ==
  ASSUME SurgeryInv, pc = "saved", NEW x \in InputNames
  PROVE  x \in DOMAIN layers /\ layers[x].type = "input_layer"
<1>1. PICK i \in 1 .. 6 : x = Input(i)
  BY DEF InputNames
<1>2. Input(i) \in Names(net) /\ Base(Input(i)) = Input(i)
  BY SavedIs, NamesAre DEF Base, Input
<1>3. Input(i) \notin Ropes \cup Slices(net) \cup Heads(net)
  BY DEF Input, Ropes, Conv, Slices, Heads, Chains, Chain, LmHead, Logits
<1>4. Input(i) \in DOMAIN layers
  BY <1>2, <1>3, SavedIs DEF Kept
<1>. QED BY <1>1, <1>2, <1>4, SavedIs, TypesAre

(* conv_splits is a number. *)
LEMMA SplitsIsNat ==
  ASSUME NEW lines \in Recipes \cup {NoRecipe}
  PROVE  Splits(lines) \in Nat
<1>1. CASE Active(lines, "llm_modifications") = {}
  BY <1>1, Zenon DEF Splits
<1>2. CASE Active(lines, "llm_modifications") # {}
  <2>1. lines \in Recipes
    BY <1>2 DEF Active, NoRecipe
  <2>2. \A l \in Active(lines, "llm_modifications") : l.setting \in Nat
    BY <2>1, RecipeLines DEF Active, IsLine
  <2>. QED BY <1>2, <2>2 DEF Splits
<1>. QED BY <1>1, <1>2

(* What a script may name is in the graph as the SDK rewrites it, but for  *)
(* a split lm_head under its old name.                                     *)
LEMMA NameableIsInScope ==
  ASSUME SurgeryInv, pc = "saved", arch \in Archs, NEW lines \in Recipes \cup {NoRecipe},
         NEW body, Splits(body) = Splits(lines)
  PROVE  Nameable(Roles(lines), lines) \subseteq Rewritten(body) \cup Unsplit(lines)
<1>. DEFINE n == Splits(lines)
            slices == OfType("slice")
            D == DOMAIN layers
<1>1. n \in Nat
  BY SplitsIsNat
<1>2. \A x \in InputNames : x \in D /\ layers[x].type = "input_layer"
  BY InputsAreInGraph
<1>3. \A x \in LmHeads : x \in D /\ layers[x].type = "conv"
  BY DEF LmHeads, CompressibleConvs, OfType
<1>4. CASE n = 0
  <2>1. Roles(lines) = FindRoles /\ Rewritten(body) = D /\ Asked(lines) = RoleNames
    BY <1>4, SMT DEF Roles, Rewritten, Asked
  <2>. QED BY <1>2, <2>1, RolesAreInGraph DEF Nameable
<1>5. CASE n # 0
  <2>1. Rewritten(body) = (D \ (slices \cup (IF n > 1 THEN LmHeads ELSE {})))
                            \cup { Moved(x) : x \in slices }
                            \cup (IF n > 1 THEN Pieces(LmHeads, n) ELSE {})
    BY <1>5, LmHeadsAre DEF Rewritten
  <2>2. Roles(lines) = [FindRoles EXCEPT
                          !.final_slice = { Moved(x) : x \in FindRoles.final_slice },
                          !.lm_head = IF n > 1 THEN Pieces(FindRoles.lm_head, n) ELSE FindRoles.lm_head]
    BY <1>5 DEF Roles
  <2>3. DOMAIN FindRoles = RoleNames /\ FindRoles.final_slice = slices /\ FindRoles.lm_head = LmHeads
    BY DEF FindRoles, RoleNames
  <2>4. ASSUME NEW r \in RoleNames
        PROVE  Roles(lines)[r] =
                 IF r = "lm_head" THEN IF n > 1 THEN Pieces(LmHeads, n) ELSE LmHeads
                 ELSE IF r = "final_slice" THEN { Moved(x) : x \in slices }
                 ELSE FindRoles[r]
    BY <2>2, <2>3, Zenon
  <2>5. ASSUME NEW x \in InputNames PROVE x \in Rewritten(body)
    BY <1>2, <1>3, <2>1 DEF OfType
  <2>7. n > 1 /\ AsksUnsplit(lines) => Unsplit(lines) = LmHeads
    BY DEF Unsplit, AsksUnsplit
  <2>6. ASSUME NEW r \in Asked(lines), NEW x \in Roles(lines)[r], x \notin Unsplit(lines)
        PROVE  x \in Rewritten(body)
    <3>1. r \in RoleNames /\ (n > 1 => r # "compressible_convs" \/ x \notin LmHeads)
      BY <2>6, <2>7 DEF Asked
    <3>2. CASE r = "lm_head" \/ r = "final_slice"
      BY <1>3, <2>1, <2>4, <3>1, <3>2 DEF OfType
    <3>3. CASE r # "lm_head" /\ r # "final_slice"
      <4>1. x \in FindRoles[r]
        BY <2>4, <3>1, <3>3
      <4>2. x \in D /\ layers[x].type # "slice" /\ (n > 1 => x \notin LmHeads)
        BY <3>1, <3>3, <4>1, RolesAreInGraph
      <4>. QED BY <2>1, <4>2 DEF OfType
    <3>. QED BY <3>2, <3>3
  <2>. QED BY <2>5, <2>6 DEF Nameable
<1>. QED BY <1>4, <1>5

(* find_roles tells the layers apart by their neighbours alone, and finds  *)
(* the layers of every role and no others: in a graph of any number of     *)
(* blocks, whatever is above its lm_head and however it is split.          *)
THEOREM RolesAreRight == RecipeSpec => []RolesNameTheirLayers
<1>1. SurgeryInv /\ StageInv => RolesNameTheirLayers
  BY RolesAreFound DEF StageInv
<1>. QED BY RecipeInvariant, <1>1, PTL

(* Without --recipe step 4 applies what default.alls says, filled from the *)
(* same graph (main's built-in script, resolve_recipe).                    *)
THEOREM BuiltInIsDefault == RecipeSpec => []DefaultRecipeIsBuiltIn
<1>1. StageInv => DefaultRecipeIsBuiltIn
  BY DEF StageInv, HasScript, WholeScript, DefaultRecipeIsBuiltIn
<1>. QED BY RecipeInvariant, <1>1, PTL

(* The mask is calibrated as the loaded script makes the softmax use it,   *)
(* and the script gives the cache sizes of the run once, for any recipe    *)
(* (resolve_recipe, main).                                                 *)
THEOREM CalibrationIsTheScripts == RecipeSpec => []CalibrationFollowsScript
<1>1. ASSUME StageInv, stage \in {"calibrated", "optimized"}
      PROVE  CalibrationFollowsScript
  <2>. DEFINE mask == "set_input_mask_to_softmax"
  <2>1. /\ WholeScript(Roles(recipe), BuiltIn, recipe, script)
        /\ calib = IF Active(recipe, mask) # {} THEN "multiplicative" ELSE "additive"
    BY <1>1 DEF StageInv, HasScript, FusedMask
  <2>2. Active(script, mask) = Active(recipe, mask)
    BY <2>1 DEF WholeScript
  <2>3. Active(script, mask) # {} <=> \E k \in DOMAIN script : script[k].cmd = mask /\ ~ script[k].comment
    BY DEF Active
  <2>4. calib = IF \E k \in DOMAIN script : script[k].cmd = mask /\ ~ script[k].comment
                THEN "multiplicative" ELSE "additive"
    BY <2>1, <2>2, <2>3
  <2>5. \E k \in DOMAIN script :
          /\ script[k] = Command(KvCommand, "run")
          /\ \A j \in DOMAIN script \ {k} : script[j].cmd = KvCommand => script[j].comment
    BY <2>1 DEF WholeScript, Given
  <2>. QED BY <2>4, <2>5 DEF CalibrationFollowsScript
<1>2. StageInv => CalibrationFollowsScript
  BY <1>1 DEF CalibrationFollowsScript
<1>. QED BY RecipeInvariant, <1>2, PTL

(* Every layer a command of the script names is there when the SDK applies *)
(* it: llm_modifications moves and splits layers first, and the roles are  *)
(* resolved to the names it gives them (resolve_recipe, find_roles).  Any  *)
(* recipe is allowed; what is missing, if anything is, is a split lm_head, *)
(* and only where the recipe asks for {compressible_convs}.                *)
THEOREM NamedLayersExist == RecipeSpec => []NamesExist
<1>1. ASSUME SurgeryInv, StageInv, stage = "optimized"
      PROVE  NamesExist
  <2>1. /\ recipe \in Recipes \cup {NoRecipe} /\ scope = Rewritten(script)
        /\ WholeScript(Roles(recipe), BuiltIn, recipe, script) /\ pc = "saved" /\ arch \in Archs
    BY <1>1 DEF StageInv, HasScript
  <2>2. Splits(script) = Splits(recipe)
    <3>1. Active(script, "llm_modifications") = Active(recipe, "llm_modifications")
      BY <2>1 DEF WholeScript
    <3>. DEFINE of(llm) == IF llm = {} THEN 0 ELSE (CHOOSE line \in llm : TRUE).setting
    <3>2. \A lines : Splits(lines) = of(Active(lines, "llm_modifications"))
      BY DEF Splits
    <3>. HIDE DEF of
    <3>. QED BY <3>1, <3>2
  <2>3. Nameable(Roles(recipe), recipe) \subseteq scope \cup Unsplit(recipe)
    BY <1>1, <2>1, <2>2, NameableIsInScope
  <2>4. \A k \in DOMAIN script :
          script[k].comment \/ script[k].names \subseteq Nameable(Roles(recipe), recipe)
    BY <2>1 DEF WholeScript
  <2>. QED BY <2>3, <2>4 DEF NamesExist
<1>2. SurgeryInv /\ StageInv => NamesExist
  BY <1>1 DEF NamesExist
<1>. QED BY RecipeInvariant, <1>2, PTL

(* Step 4 reads the graph step 3 leaves and never changes it: all that is  *)
(* shown of the surgery holds with step 4 after it.                        *)
THEOREM RecipeRunsSurgery == RecipeSpec => Spec
<1>1. RecipeInit => Init
  BY DEF RecipeInit
<1>2. [RecipeNext]_<<vars, step4>> => [Next]_vars
  BY DEF RecipeNext, Surgery, Resolve, ResolveLine, ResolveEnd, BuildCalibration, Optimize
<1>. QED BY <1>1, <1>2, PTL DEF RecipeSpec, Spec
=============================================================================
