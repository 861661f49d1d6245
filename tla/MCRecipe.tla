------------------------------ MODULE MCRecipe ------------------------------
(* Steps 3 and 4 on graphs of up to MaxBlocks transformer layers: every    *)
(* kind of chain the export leaves above the lm_head where the config fits *)
(* the graph, and every way in which it does not.                          *)
EXTENDS Recipe

CONSTANTS MaxBlocks, MaxShards, Vocabs

MCChains == { <<"slice">>, <<"normalization", "slice">>, <<"slice", "normalization">>,
              <<"slice", "normalization", "slice">> }

MCNets ==
  { n \in [blocks : 1 .. MaxBlocks, slices : 1 .. MaxBlocks, nlayers : 1 .. MaxBlocks,
           width : {TRUE}, chain : MCChains, vocab : Vocabs, shards : 1 .. MaxShards,
           low : SUBSET (1 .. MaxShards - 1)] :
      /\ n.slices = n.blocks /\ n.nlayers = n.blocks
      /\ \A i \in n.low : /\ i < n.shards /\ (i * n.vocab) % n.shards = 0
                          /\ n.vocab % n.shards # 0 }
  \cup
  { n \in [blocks : 1 .. MaxBlocks, slices : 0 .. MaxBlocks, nlayers : 1 .. MaxBlocks,
           width : BOOLEAN, chain : {<<"slice">>}, vocab : Vocabs, shards : {1},
           low : {{}}] :
      n.slices <= n.blocks }

(* A width that 128 divides and one it does not. *)
MCArchs == { [hidden |-> 256, queries |-> 256, keys |-> 128, mlp |-> 640, hd |-> 64],
             [hidden |-> 192, queries |-> 256, keys |-> 64, mlp |-> 512, hd |-> 64] }

WithoutLine(lines, cmd) == SelectSeq(lines, LAMBDA l : l.cmd # cmd)

(* The shipped recipes, and what a user may make of them: the stages       *)
(* commented out, one split, the default with the lm_head split, other     *)
(* cache sizes or none.                                                    *)
MCRecipes ==
  { DefaultRecipe, HailoLlm,
    <<Command("llm_modifications", 1)>> \o Tail(HailoLlm),
    <<Commented(HailoLlm[1]), Commented(HailoLlm[3])>> \o DefaultRecipe,
    <<Commented(HailoLlm[1])>> \o Tail(HailoLlm),
    WithoutLine(HailoLlm, KvCommand),
    <<Command("llm_modifications", 4)>> \o DefaultRecipe,
    <<Commented(Command(KvCommand, "96, 2048"))>> \o WithoutLine(HailoLlm, KvCommand),
    <<Command(KvCommand, "96, 2048")>> \o WithoutLine(DefaultRecipe, KvCommand) }
=============================================================================
