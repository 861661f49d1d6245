---------------------------- MODULE CacheLayout ----------------------------
(***************************************************************************)
(* The memory under the ring of KvCache, and the layout conversions        *)
(* pipeline/s6_compile_hef.py puts on the cache edges so that both network *)
(* groups agree on it.                                                     *)
(*                                                                         *)
(* The device rotates each cache one entry of Features cells at a time; a  *)
(* run writes and reads tensors of several tokens.  An edge with a         *)
(* conversion lays a tensor out token by token; one without keeps the      *)
(* core's native layout, here feature by feature                           *)
(* (docs/findings/tbt-cache-read.md, "Root cause").                        *)
(***************************************************************************)
EXTENDS KvCache

CONSTANTS Features,  \* cells of one ring entry
          Layers     \* the layers of the HN that s6 finds in the HAR

ASSUME FeaturesAssumption == Features \in Nat \ {0}

Groups == {"prefill", "tbt"}

(* A layer: its group, whether it is a network input or output (or         *)
(* neither), and the cache it belongs to, if io_type is "cache".           *)
ASSUME LayersAssumption ==
  Layers \subseteq [group : Groups \cup {"base"},
                    type  : {"input_layer", "output_layer", "other"},
                    cache : {"k", "v", "none"}]

VARIABLE mem   \* cache -> address -> <<entry, feature>>

Caches == { layer.cache : layer \in Layers } \ {"none"}

-----------------------------------------------------------------------------
(* cache_layout_conversions(runner, groups): one format_conversion line    *)
(* for each cache input and each cache output of the groups.               *)
CacheLayoutConversions(groups) ==
  { [layer |-> layer,
     kind  |-> IF layer.type = "input_layer" THEN "tf_rgb_to_hailo_rgb"
                                             ELSE "hailo_rgb_to_tf_rgb"] :
      layer \in { l \in Layers :
                    /\ l.group \in groups
                    /\ l.cache # "none"
                    /\ l.type \in {"input_layer", "output_layer"} } }

(* Variant for checking: conversions on the prefill group only.            *)
ConversionsOfOneGroup == CacheLayoutConversions({"prefill"})

(* main() compiles with the conversions of both groups. *)
Conversions == CacheLayoutConversions({"prefill", "tbt"})

(* Where cell (token, feature) of a tensor of n tokens lies on an edge. *)
Offset(group, type, cache, n, token, feature) ==
  IF \E conv \in Conversions :
       conv.layer = [group |-> group, type |-> type, cache |-> cache]
  THEN token * Features + feature
  ELSE feature * n + token

(* An address of the ring, from a cell count that may run past its end. *)
Address(cell) == cell % (args.seq * Features)

Group == IF generated = << >> THEN "prefill" ELSE "tbt"

(* The cells the run reads from a cache, as tensor elements. *)
ReadCell(cache, token, feature) ==
  mem[cache][Address(offset * Features
    + Offset(Group, "input_layer", cache, args.seq - req.rows, token, feature))]

(* The memory after the run's own entries went out through its edges. *)
WrittenTo(cache) ==
  LET base == (offset + (args.seq - req.rows)) * Features
      at(row, feature) ==
        Address(base + Offset(Group, "output_layer", cache, req.rows, row, feature))
      cells == Rows \X (0 .. Features - 1)
  IN  [ a \in DOMAIN mem[cache] |->
          IF \E c \in cells : at(c[1], c[2]) = a
          THEN LET c == CHOOSE d \in cells : at(d[1], d[2]) = a
               IN  <<Fresh(c[1]), c[2]>>
          ELSE mem[cache][a] ]

layoutVars == <<vars, mem>>

LayoutInit ==
  /\ Init
  /\ mem = [ c \in Caches |-> [ a \in 0 .. args.seq * Features - 1 |-> Unwritten ] ]

(* The run of KvCache, its entries stored through the cache edges. *)
LayoutInfer ==
  /\ Infer
  /\ mem' = [ c \in Caches |-> WrittenTo(c) ]

LayoutHost ==
  /\ CheckArgs \/ Prefill \/ Tbt \/ AdvanceOffset \/ RunRaises \/ Finish
  /\ UNCHANGED mem

LayoutNext == LayoutInfer \/ LayoutHost

LayoutSpec == LayoutInit /\ [][LayoutNext]_layoutVars

-----------------------------------------------------------------------------

(* Whatever group runs, each ring entry it reads is one token's K/V, whole *)
(* and in its place: the writer's and the reader's layout agree through    *)
(* every rotation of the ring (cache_layout_conversions, and the finding   *)
(* that either group alone is not enough).                                 *)
EntriesReadWhole ==
  pc = "infer" =>
    \A cache \in Caches, token \in 0 .. args.seq - req.rows - 1,
       feature \in 0 .. Features - 1 :
      LET entry == ring[Slot(offset + token)]
      IN  ReadCell(cache, token, feature) =
            IF entry = Unwritten THEN Unwritten ELSE <<entry, feature>>
=============================================================================
