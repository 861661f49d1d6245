--------------------------- MODULE RuntimeInputs ---------------------------
(***************************************************************************)
(* The host-side inputs of one run of a network group, as                  *)
(* runtime/diagnostics/runtime_inputs.py builds them: the block-structured *)
(* attention mask, and the pairing of a token with the position its rotary *)
(* embedding is computed for.  A mask is the set of <<row, column>> pairs  *)
(* that are allowed (0 / 255 on the wire); every other pair is blocked     *)
(* (-100 / 0).  Head tiling repeats the same mask and is left out.         *)
(***************************************************************************)
EXTENDS Integers

Smaller(a, b) == IF a < b THEN a ELSE b
Larger(a, b)  == IF a < b THEN b ELSE a

(***************************************************************************)
(* build_mask(layer_input_tokens_size, mask_cache_usage, cache_size).      *)
(* Block 1 rows see every column.  Block 2 rows see the mid columns        *)
(* (already cached) and a causal triangle in the rightmost columns.        *)
(***************************************************************************)
BuildMask(inputTokens, usage, cacheSize) ==
  LET block1 == Larger(inputTokens - usage, 0)
      block2 == Smaller(usage, inputTokens)
      unused == cacheSize - usage
      right  == unused + (usage - block2)
  IN  { cell \in (0 .. inputTokens - 1) \X (0 .. cacheSize - 1) :
          \/ cell[1] < block1
          \/ /\ cell[1] >= block1
             /\ \/ unused <= cell[2] /\ cell[2] < right
                \/ right <= cell[2] /\ cell[2] - right <= cell[1] - block1 }

(* kv_greedy --mask-mode self: the one row sees only the last column.      *)
SelfMask(cacheSize) == { <<0, cacheSize - 1>> }

(* What one row of a run contributes to the cache: K/V of token tok, with  *)
(* the rotary embedding of position pos.                                   *)
Entry(pos, tok) == [pos |-> pos, tok |-> tok]
=============================================================================
