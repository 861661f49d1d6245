----------------------------- MODULE BaseScope -----------------------------
(***************************************************************************)
(* Greedy generation without a cache: the loop of                          *)
(* runtime/diagnostics/generate_base_scope.py over the base network group. *)
(* Every step runs all seq rows again, the real tokens right-aligned under *)
(* padding rows, with the mask and the positions rebuilt for the new       *)
(* length.                                                                 *)
(***************************************************************************)
EXTENDS RuntimeInputs, Sequences

CONSTANTS Vocab,     \* token ids
          Prompts,   \* what --prompt-ids may be
          Sizes,     \* what --seq may be
          Eos,       \* --eos-token-id
          Padding    \* the zero embedding of a padding row

ASSUME PromptsAssumption == Prompts \subseteq Seq(Vocab) \ {<< >>}
ASSUME SizesAssumption == Sizes \subseteq Nat
ASSUME PaddingAssumption == Padding \notin Vocab

VARIABLES seq,       \* --seq: the rows of the base scope
          pc,        \* where main() is
          tokens,    \* prompt and generated tokens
          maxNew,    \* steps of the for loop, fixed before it starts
          step,      \* the loop's step
          attended   \* position -> the <<column, entry>> pairs its row saw,
                     \* in the latest run

vars == <<seq, pc, tokens, maxNew, step, attended>>

(* The padding rows above the real tokens. *)
PadRows == seq - Len(tokens)

(* Variant for checking: positions counted from the first row.             *)
RowAtItsIndex(r) ==
  IF r < PadRows THEN Entry(0, Padding) ELSE Entry(r, tokens[r - PadRows + 1])

(* What a row of the run holds: padding rows are all at position 0.        *)
Row(r) ==
  IF r < PadRows THEN Entry(0, Padding) ELSE Entry(r - PadRows, tokens[r - PadRows + 1])

(* Variant for checking: the padding rows count as context.                *)
MaskOverPadding == BuildMask(seq, seq, seq)

Mask == BuildMask(seq, Len(tokens), seq)

(* Without a cache the columns of the mask are the run's own rows.         *)
Attended ==
  [ pos \in 0 .. Len(tokens) - 1 |->
      { <<col, Row(col)>> :
          col \in { c \in 0 .. seq - 1 : <<PadRows + pos, c>> \in Mask } } ]

-----------------------------------------------------------------------------

Init ==
  /\ seq \in Sizes
  /\ tokens \in Prompts
  /\ pc = "start"
  /\ maxNew = 0
  /\ step = 0
  /\ attended = << >>

(* Variant for checking: one step too many.                                *)
StartOneMore ==
  /\ pc = "start"
  /\ IF Len(tokens) <= seq
     THEN /\ maxNew' = seq - Len(tokens) + 1
          /\ pc' = "loop"
     ELSE /\ pc' = "rejected"
          /\ UNCHANGED maxNew
  /\ UNCHANGED <<seq, tokens, step, attended>>

(* The assertion, then the number of steps. *)
Start ==
  /\ pc = "start"
  /\ IF Len(tokens) <= seq
     THEN /\ maxNew' = seq - Len(tokens)
          /\ pc' = "loop"
     ELSE /\ pc' = "rejected"
          /\ UNCHANGED maxNew
  /\ UNCHANGED <<seq, tokens, step, attended>>

(* Variant for checking: the loop breaks before it appends.                *)
GenerateBreaksFirst ==
  /\ pc = "loop"
  /\ step < maxNew
  /\ attended' = Attended
  /\ step' = step + 1
  /\ \E tok \in Vocab :
       /\ tokens' = IF tok = Eos THEN tokens ELSE Append(tokens, tok)
       /\ pc' = IF tok = Eos THEN "done" ELSE "loop"
  /\ UNCHANGED <<seq, maxNew>>

(* One step of the loop: run everything, take the argmax of the last row.  *)
Generate ==
  /\ pc = "loop"
  /\ step < maxNew
  /\ attended' = Attended
  /\ step' = step + 1
  /\ \E tok \in Vocab :
       /\ tokens' = Append(tokens, tok)
       /\ pc' = IF tok = Eos THEN "done" ELSE "loop"
  /\ UNCHANGED <<seq, maxNew>>

(* The run may raise (10 s). *)
RunRaises ==
  /\ pc = "loop"
  /\ step < maxNew
  /\ pc' = "raised"
  /\ UNCHANGED <<seq, tokens, maxNew, step, attended>>

Exhausted ==
  /\ pc = "loop"
  /\ step >= maxNew
  /\ pc' = "done"
  /\ UNCHANGED <<seq, tokens, maxNew, step, attended>>

Next == Start \/ Generate \/ RunRaises \/ Exhausted

Spec == Init /\ [][Next]_vars

-----------------------------------------------------------------------------

(* The state of main() keeps its types, and the latest run had a row for   *)
(* every token before the newest.                                          *)
TypeOK ==
  /\ seq \in Sizes
  /\ pc \in {"start", "rejected", "loop", "raised", "done"}
  /\ tokens \in Seq(Vocab)
  /\ maxNew \in Nat /\ step \in Nat
  /\ step > 0 => DOMAIN attended = 0 .. Len(tokens) - 2

(* The hidden state of a real row of one layer feeds the rows below it in  *)
(* the next, so every real row, not only the last, has to see exactly the  *)
(* real tokens up to itself and never a padding row: the promise of the    *)
(* right-aligned layout (generate_base_scope.py main, build_mask).         *)
RealRowsExact ==
  \A pos \in DOMAIN attended :
    /\ { seen[2] : seen \in attended[pos] } = { Entry(p, tokens[p + 1]) : p \in 0 .. pos }
    /\ \A a, b \in attended[pos] : a[2] = b[2] => a[1] = b[1]

(* A script that ends by itself ends at the end-of-sequence token or with  *)
(* every row of the base scope in use, never past it.                      *)
StopsAtEosOrFull ==
  /\ pc \in {"loop", "done", "raised"} => Len(tokens) <= seq
  /\ pc = "done" => Len(tokens) = seq \/ tokens[Len(tokens)] = Eos

Promise == INSTANCE Decoder WITH
  context <- tokens,
  shown   <- IF step = 0 THEN {} ELSE { seen[2] : seen \in attended[Len(tokens) - 2] },
  halted  <- pc \in {"rejected", "raised", "done"}

(* Regenerating from scratch at every step keeps the promise of plain      *)
(* generation: each token is drawn from the whole context                  *)
(* (generate_base_scope.py main).                                          *)
ImplementsDecoder == Promise!Spec
=============================================================================
