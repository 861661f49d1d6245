--------------------------- MODULE ServerResources ---------------------------
(***************************************************************************)
(* What step 3 (pipeline/s3_surgery_and_resources.py) puts in a HEF for    *)
(* the genai server: the tokenizer, adapted to how the server uses it, and *)
(* hailo-config.json.                                                      *)
(*                                                                         *)
(* A component of tokenizer.json is a record: its type, the parts of a     *)
(* Sequence, and the `single` template of a TemplateProcessing, where "$A" *)
(* stands for the text.                                                    *)
(***************************************************************************)
EXTENDS Naturals, Sequences, SequencesExt

Part(type) == [type |-> type, of |-> << >>, single |-> << >>]
Chain(parts) == [Part("Sequence") EXCEPT !.of = parts]
Template(single) == [Part("TemplateProcessing") EXCEPT !.single = single]
Null == Part("null")

(* post.get("processors", [post]) when it is a Sequence, else [post].      *)
Parts(component) == IF component.type = "Sequence" THEN component.of ELSE <<component>>

NoText == ""

(* The special token that opens the first template, NoText without one.    *)
BosText(post) ==
  LET templates == SelectSeq(Parts(post), LAMBDA p : p.type = "TemplateProcessing" /\ p.single # << >>)
  IN  IF templates = << >> \/ templates[1].single[1] = "$A"
        THEN NoText
        ELSE templates[1].single[1]

(* Variant for checking: a Strip inside a Sequence overlooked.             *)
WithoutLoneStrip(decoder) == IF decoder.type = "Strip" THEN Null ELSE decoder

(* The decoder without its Strip.                                          *)
WithoutStrip(decoder) ==
  IF decoder.type = "Sequence"
    THEN Chain(SelectSeq(decoder.of, LAMBDA d : d.type # "Strip"))
  ELSE IF decoder.type = "Strip" THEN Null
  ELSE decoder

(* server_tokenizer: the tokenizer the HEF gets; its BOS goes elsewhere.   *)
ServerTokenizer(tok) == [tok EXCEPT !.decoder = WithoutStrip(tok.decoder)]

Missing == 0  \* a key of pre_process_params the config does not have

(* build_hailo_config, what the server reads of it.  size is the key an    *)
(* earlier draft wrote for count.                                          *)
BuildHailoConfig(bos, prefill, cache) ==
  [kind |-> "config", bos |-> bos, count |-> prefill, size |-> Missing, cache |-> cache]

-----------------------------------------------------------------------------

(* The server, as the docstrings of server_tokenizer and                   *)
(* build_hailo_config describe it.                                         *)

DefaultPrefill == 96

ServerPrefill(cfg) == IF cfg.count = Missing THEN DefaultPrefill ELSE cfg.count

(* The chat template's own text, then the prompt; no post-processor.       *)
ServerPrompt(cfg, prompt) == (IF cfg.bos = NoText THEN << >> ELSE <<cfg.bos>>) \o prompt

(* A word's token is its space and its letters; Strip takes the space.    *)
Detokenize(decoder, token) ==
  IF \E i \in DOMAIN Parts(decoder) : Parts(decoder)[i].type = "Strip"
    THEN SelectSeq(token, LAMBDA c : c # " ")
    ELSE token

(* One token at a time.                                                    *)
ServerText(tok, tokens) ==
  FlattenSeq([i \in DOMAIN tokens |-> Detokenize(tok.decoder, tokens[i])])

(* What the checkpoint was trained on: every post-processor applied.       *)
Opening(post) ==
  FlattenSeq([i \in DOMAIN Parts(post) |->
                SelectSeq(Parts(post)[i].single, LAMBDA t : t # "$A")])

TrainedPrompt(post, prompt) == Opening(post) \o prompt
=============================================================================
