---------------------------- MODULE MCBaseScope ----------------------------
(* BaseScope for every size up to MaxSeq and every prompt up to MaxPrompt. *)
EXTENDS BaseScope

CONSTANTS MaxSeq, MaxPrompt

MCSizes == 0 .. MaxSeq
MCPrompts == UNION { [1 .. n -> Vocab] : n \in 1 .. MaxPrompt }
=============================================================================
