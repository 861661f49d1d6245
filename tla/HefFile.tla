------------------------------- MODULE HefFile -------------------------------
(***************************************************************************)
(* The external resources of a compiled HEF, the script that patches its   *)
(* hailo-config.json (runtime/diagnostics/hotpatch_hailo_config.py), and   *)
(* the readers of the result: the genai server and hef_audit.py.           *)
(*                                                                         *)
(* A HEF is a header, a protobuf with one descriptor per resource, padding *)
(* (version 3), the CCWs, and the additional information where the bytes   *)
(* of the resources lie, one after the other.                              *)
(***************************************************************************)
EXTENDS ServerResources, FiniteSets

CONSTANTS Paths,       \* where HEFs are
          Versions,    \* of the HEF format
          Tokenizers,  \* the checkpoints' tokenizers
          Built,       \* the sizes the network is compiled for
          Asked,       \* the sizes patches ask for
          CcwsSize,    \* bytes before the additional information
          MaxPatches   \* bound: patches in a behaviour

Sizes == [prefill : Nat \ {0}, cache : Nat \ {0}]

ASSUME HefAssumption ==
  /\ Versions \subseteq 1 .. 3
  /\ Built \in Sizes /\ Asked \subseteq Sizes
  /\ CcwsSize \in Nat /\ MaxPatches \in Nat

VARIABLES file,      \* Paths -> a HEF, Torn, or Absent
          tok,       \* the checkpoint's tokenizer
          patch,     \* the script that runs, or Idle
          verified,  \* Paths -> the sizes a patch confirmed it has, or none
          patches    \* patches so far (bounded)

vars == <<file, tok, patch, verified, patches>>

Torn   == [kind |-> "torn"]
Absent == [kind |-> "absent"]
Idle   == [at |-> "idle"]
None   == [prefill |-> 0, cache |-> 0]

-----------------------------------------------------------------------------

(* A document's bytes.  They tell documents apart, and stand for their own *)
(* xxhash.  A configuration's length depends on its keys and their digits. *)
Digits(n) == IF n = Missing THEN 0 ELSE IF n < 10 THEN 1 ELSE IF n < 100 THEN 2 ELSE 3

Length(doc) ==
  IF doc.kind = "config" THEN 1 + Digits(doc.count) + Digits(doc.size) + Digits(doc.cache) ELSE 3

Bytes(doc) == [i \in 1 .. Length(doc) |-> <<doc, i>>]

(* json.loads, of bytes that are a document's.                             *)
Decoded(bytes) == bytes[1][1]

Whole(path) == file[path].kind = "hef"

(* A HEF that holds three documents under names, one after the other.      *)
Hef(version, names, docs) ==
  LET start == <<0, Length(docs[1]), Length(docs[1]) + Length(docs[2])>>
  IN  [ kind |-> "hef", version |-> version,
        info |-> Bytes(docs[1]) \o Bytes(docs[2]) \o Bytes(docs[3]),
        res |-> [ i \in 1 .. 3 |->
                    [name |-> names[i], offset |-> CcwsSize + start[i],
                     size |-> Length(docs[i]), signature |-> Bytes(docs[i])] ] ]

(* The files step 3 attaches, and the embeddings.                          *)
TokenizerDoc(t) == [kind |-> "tokenizer", tok |-> ServerTokenizer(t)]
Embeddings == [kind |-> "embeddings"]
Config(t) == BuildHailoConfig(BosText(t.post), Built.prefill, Built.cache)

(* An earlier draft's, with the key the server ignores.                    *)
DraftConfig(t) == [Config(t) EXCEPT !.count = Missing, !.size = Built.prefill]

Names == <<"tokenizer.json", "hailo-config.json", "embeddings.bin">>

(* HEFs of step 6, of an earlier draft, and one with two configurations,   *)
(* which find_config_resource refuses.                                     *)
Hefs(version, t) ==
  { Hef(version, Names, <<TokenizerDoc(t), Config(t), Embeddings>>),
    Hef(version, Names, <<TokenizerDoc(t), DraftConfig(t), Embeddings>>),
    Hef(version, <<"hailo-config.json", "hailo_config.json", "tokenizer.json">>,
        <<Config(t), DraftConfig(t), TokenizerDoc(t)>>) }

-----------------------------------------------------------------------------

(* HefWrapper's resources named like a configuration.                      *)
Matches(h) == { i \in DOMAIN h.res : h.res[i].name \in {"hailo-config.json", "hailo_config.json"} }

(* main's loop keeps the last of them.                                     *)
Target(h) == CHOOSE i \in Matches(h) : \A j \in Matches(h) : j <= i

(* read_config_bytes *)
ConfigBytes(h, r) == SubSeq(h.info, r.offset - CcwsSize + 1, r.offset - CcwsSize + r.size)

NewConfig(old, sizes) ==
  [old EXCEPT !.size = Missing, !.count = sizes.prefill, !.cache = sizes.cache]

(* Variant for checking: the new bytes written over the old ones.          *)
PatchedInPlace(h, sizes) ==
  LET t == Target(h)
      r == h.res[t]
      new == NewConfig(Decoded(ConfigBytes(h, r)), sizes)
      start == r.offset - CcwsSize
  IN  [ h EXCEPT !.info = SubSeq(@, 1, start) \o Bytes(new)
                            \o SubSeq(@, start + Length(new) + 1, Len(@)),
                 !.res[t].size = Length(new), !.res[t].signature = Bytes(new) ]

(* New bytes at the end, the descriptor pointed at them.                   *)
Patched(h, sizes) ==
  LET t == Target(h)
      new == NewConfig(Decoded(ConfigBytes(h, h.res[t])), sizes)
  IN  [ h EXCEPT !.info = @ \o Bytes(new),
                 !.res[t] = [ @ EXCEPT !.offset = CcwsSize + Len(h.info),
                                       !.size = Length(new), !.signature = Bytes(new) ] ]

(* main up to hef.save.                                                    *)
Load(in, out, sizes) ==
  /\ patches < MaxPatches
  /\ patches' = patches + 1
  /\ patch.at = "idle"
  /\ Whole(in) /\ Matches(file[in]) # {}
  /\ patch' = [at |-> "loaded", out |-> out, sizes |-> sizes, hef |-> Patched(file[in], sizes)]
  /\ UNCHANGED <<file, tok, verified>>

(* hef.save, which may write over the file that was read.                  *)
SaveOpen ==
  /\ patch.at = "loaded"
  /\ file' = [file EXCEPT ![patch.out] = Torn]
  /\ verified' = [verified EXCEPT ![patch.out] = None]
  /\ patch' = [patch EXCEPT !.at = "saving"]
  /\ UNCHANGED <<tok, patches>>

SaveDone ==
  /\ patch.at = "saving"
  /\ file' = [file EXCEPT ![patch.out] = patch.hef]
  /\ patch' = [at |-> "saved", out |-> patch.out, sizes |-> patch.sizes]
  /\ UNCHANGED <<tok, verified, patches>>

(* Variant for checking: the descriptor that was patched, not the only one.*)
ChecksTheTarget(h, sizes) ==
  LET r == h.res[Target(h)]
      cfg == Decoded(ConfigBytes(h, r))
  IN  cfg.count = sizes.prefill /\ cfg.cache = sizes.cache /\ r.signature = ConfigBytes(h, r)

(* The assertions of the round trip, find_config_resource's among them.    *)
Checks(h, sizes) ==
  /\ Cardinality(Matches(h)) <= 1
  /\ \A i \in Matches(h) :
       LET r == h.res[i]
           cfg == Decoded(ConfigBytes(h, r))
       IN  cfg.count = sizes.prefill /\ cfg.cache = sizes.cache /\ r.signature = ConfigBytes(h, r)

(* "[OK] round-trip verified", or an assertion fails.                      *)
Verify ==
  /\ patch.at = "saved"
  /\ verified' = IF Checks(file[patch.out], patch.sizes)
                   THEN [verified EXCEPT ![patch.out] = patch.sizes]
                   ELSE verified
  /\ patch' = Idle
  /\ UNCHANGED <<file, tok, patches>>

(* The script is killed. *)
Kill ==
  /\ patch.at # "idle"
  /\ patch' = Idle
  /\ UNCHANGED <<file, tok, verified, patches>>

-----------------------------------------------------------------------------

(* Where the file's parts lie.  A descriptor's offset is a varint, so the  *)
(* protobuf grows when a patch points it further; version 3 pads it.       *)
VarintSize(n) == IF n < 128 THEN 1 ELSE 2
ProtoSize(h) ==
  LET descriptor(r) == VarintSize(r.offset) + VarintSize(r.size)
  IN  100 + descriptor(h.res[1]) + descriptor(h.res[2]) + descriptor(h.res[3])
HeaderSize(version) == 12 + <<16, 32, 44>>[version]
PaddingSize(h) == IF h.version = 3 THEN (8 - ((HeaderSize(3) + ProtoSize(h)) % 8)) % 8 ELSE 0

(* The byte of the file at an address; "other" outside the resources.      *)
ByteAt(h, address) ==
  LET i == address - (HeaderSize(h.version) + ProtoSize(h) + PaddingSize(h) + CcwsSize)
  IN  IF i \in 0 .. Len(h.info) - 1 THEN h.info[i + 1] ELSE <<[kind |-> "other"], 0>>

(* Variant for checking: the padding forgotten.                            *)
ZeroPointUnpadded(h) == HeaderSize(h.version) + ProtoSize(h)

(* read_external_resources_index: what a descriptor's offset is relative to. *)
ZeroPoint(h) ==
  IF h.version = 3
    THEN HeaderSize(3) + ProtoSize(h) + PaddingSize(h)
    ELSE HeaderSize(h.version) + ProtoSize(h)

(* read_resource_bytes *)
AuditBytes(h, r) == [i \in 1 .. r.size |-> ByteAt(h, ZeroPoint(h) + r.offset + i - 1)]

(* The server looks hailo-config.json up by its name.                      *)
ServerConfig(h) ==
  Decoded(ConfigBytes(h, h.res[CHOOSE i \in DOMAIN h.res : h.res[i].name = "hailo-config.json"]))

ServerTokenizerDoc(h) ==
  Decoded(ConfigBytes(h, h.res[CHOOSE i \in DOMAIN h.res : h.res[i].name = "tokenizer.json"])).tok

-----------------------------------------------------------------------------

(* One HEF, and nothing at the other paths.                                *)
Init ==
  /\ tok \in Tokenizers
  /\ \E in \in Paths, v \in Versions : \E h \in Hefs(v, tok) :
       file = [p \in Paths |-> IF p = in THEN h ELSE Absent]
  /\ patch = Idle
  /\ verified = [p \in Paths |-> None]
  /\ patches = 0

Next ==
  \/ \E in, out \in Paths, sizes \in Asked : Load(in, out, sizes)
  \/ SaveOpen \/ SaveDone \/ Verify \/ Kill

Spec == Init /\ [][Next]_vars

-----------------------------------------------------------------------------

(* After a patch has reported OK, the server runs with the sizes it was    *)
(* asked for, whatever was patched, killed or refused before: it neither   *)
(* finds another configuration nor falls back to its default.              *)
ServedAsVerified ==
  \A p \in Paths : verified[p] # None =>
    /\ Whole(p)
    /\ ServerPrefill(ServerConfig(file[p])) = verified[p].prefill
    /\ ServerConfig(file[p]).cache = verified[p].cache

(* However often a HEF is patched, in place or to another file, every      *)
(* resource but the configuration that is patched reads as it was built    *)
(* (main appends, so the offsets of the others stay good).                 *)
OthersUntouched ==
  \A p \in Paths : Whole(p) =>
    \A i \in DOMAIN file[p].res \ {Target(file[p])} :
      \E doc \in {TokenizerDoc(tok), Embeddings, Config(tok)} :
        /\ ConfigBytes(file[p], file[p].res[i]) = Bytes(doc)
        /\ doc.kind = "config" => Cardinality(Matches(file[p])) = 2

(* hef_audit.py, which parses the file itself, reads in every version and  *)
(* after every patch the bytes whose signature the descriptor carries.     *)
AuditReadsWhatIsSigned ==
  \A p \in Paths : Whole(p) =>
    \A i \in DOMAIN file[p].res : AuditBytes(file[p], file[p].res[i]) = file[p].res[i].signature

Prompt == <<"a", "b">>
Words == << <<" ", "o", "n">>, <<" ", "i", "t">> >>

(* The server, without the post-processor and with one token at a time,    *)
(* gives the model the ids it was trained on (its BOS once, and none for a *)
(* tokenizer that adds none) and the user the spaces between words; a      *)
(* patch changes neither.                                                  *)
ServerTokenizesAlike ==
  \A p \in Paths : Whole(p) =>
    /\ ServerPrompt(ServerConfig(file[p]), Prompt) = TrainedPrompt(tok.post, Prompt)
    /\ ServerText(ServerTokenizerDoc(file[p]), Words) = FlattenSeq(Words)
=============================================================================
