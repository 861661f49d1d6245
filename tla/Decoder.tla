------------------------------ MODULE Decoder ------------------------------
(***************************************************************************)
(* What greedy generation promises, whatever the way attention is          *)
(* computed: every new token is drawn from logits that saw each token of   *)
(* the context so far, at its own position, and nothing else.  Neither the *)
(* KV-cache nor the padding of the base scope is visible here.             *)
(***************************************************************************)
EXTENDS RuntimeInputs, Sequences

CONSTANTS Vocab,      \* token ids
          Prompts     \* prompts a run may be started with

VARIABLES context,    \* the prompt and every token generated so far
          shown,      \* the entries the newest token was computed from
          halted      \* the script has ended, normally or not

vars == <<context, shown, halted>>

Prefix(ctx) == { Entry(i - 1, ctx[i]) : i \in 1 .. Len(ctx) }

Init ==
  /\ context \in Prompts
  /\ shown = {}
  /\ halted = FALSE

(* The newest token may be the one generation stops at. *)
Emit ==
  /\ ~halted
  /\ \E tok \in Vocab : context' = Append(context, tok)
  /\ shown' = Prefix(context)
  /\ halted' \in BOOLEAN

Halt ==
  /\ ~halted
  /\ halted' = TRUE
  /\ UNCHANGED <<context, shown>>

Next == Emit \/ Halt

Spec == Init /\ [][Next]_vars
=============================================================================
