------------------------------ MODULE MCHefFile ------------------------------
(* A HEF of every version and kind, with LLaMA's tokenizers and GPT-like   *)
(* ones, patched three times, in place or to another file.                 *)
EXTENDS HefFile

MCPosts ==
  { Null, Part("ByteLevel"), Template(<<"<s>", "$A">>), Template(<<"$A">>),
    Chain(<<Part("ByteLevel"), Template(<<"<s>", "$A">>)>>) }

MCDecoders ==
  { Part("ByteLevel"), Part("Strip"), Null,
    Chain(<<Part("Replace"), Part("ByteFallback"), Part("Fuse"), Part("Strip")>>) }

MCTokenizers == [post : MCPosts, decoder : MCDecoders]

MCBuilt == [prefill |-> 8, cache |-> 32]
MCAsked == { [prefill |-> 16, cache |-> 64], [prefill |-> 96, cache |-> 128] }
=============================================================================
