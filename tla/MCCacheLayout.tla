--------------------------- MODULE MCCacheLayout ---------------------------
(* CacheLayout with one attention layer: a K and a V cache in each group,  *)
(* the ordinary inputs beside them, and the unduplicated base scope.       *)
EXTENDS CacheLayout

CONSTANTS MaxSeq, MaxPrefill, MaxNewTokens, Modes

MCArgs == [seq : 1 .. MaxSeq, prefill : 1 .. MaxPrefill,
           newTokens : 0 .. MaxNewTokens, maskMode : Modes]

MCPrompts == UNION { [1 .. n -> Vocab] : n \in 1 .. MaxPrefill }

MCLayers ==
  [group : Groups, type : {"input_layer", "output_layer"}, cache : {"k", "v"}]
    \cup [group : Groups \cup {"base"}, type : {"input_layer", "output_layer", "other"},
          cache : {"none"}]
=============================================================================
