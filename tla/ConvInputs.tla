----------------------------- MODULE ConvInputs -----------------------------
(***************************************************************************)
(* The repair of conv inputs in pipeline/s5_fix_convolutions.py: where the *)
(* widths of the layers a conv names do not match its input_shapes, its    *)
(* inputs are reordered, greedily, until they do.                          *)
(***************************************************************************)
EXTENDS Integers, Sequences, FiniteSets, SequencesExt

CONSTANTS Feat,  \* name -> width of the layer's output, 0 if it has none
          Nets   \* the layers of the quantized HAR, in their order

(* A layer: its type, the names and the declared widths of its inputs.     *)
ASSUME NetsAssumption ==
  \A net \in Nets :
    /\ net \in Seq([type : STRING, input : Seq(DOMAIN Feat), want : Seq(Nat \ {0})])
    /\ \A k \in DOMAIN net : Len(net[k].input) = Len(net[k].want)

VARIABLES parsed,  \* the layers as they were read
          layers,  \* the layers now
          at,      \* the layer the loop is at
          pool,    \* its inputs not placed yet
          placed,  \* those in their new order
          fixed,   \* convs repaired so far
          pc

repairVars == <<parsed, layers, at, pool, placed, fixed, pc>>

Layer == layers[at]
WidthsOf(names) == [ k \in DOMAIN names |-> Feat[names[k]] ]

-----------------------------------------------------------------------------

(* What the loop looks at: convs of two inputs or more whose inputs do not *)
(* have the declared widths.                                               *)
Misaligned(layer) ==
  /\ layer.type = "conv"
  /\ Len(layer.input) >= 2
  /\ WidthsOf(layer.input) # layer.want

Skip ==
  /\ pc = "scan" /\ at \in DOMAIN layers
  /\ ~ Misaligned(Layer)
  /\ at' = at + 1
  /\ UNCHANGED <<parsed, layers, pool, placed, fixed, pc>>

Begin ==
  /\ pc = "scan" /\ at \in DOMAIN layers
  /\ Misaligned(Layer)
  /\ pc' = "match"
  /\ pool' = Layer.input
  /\ placed' = << >>
  /\ UNCHANGED <<parsed, layers, at, fixed>>

Matching == pc = "match" /\ Len(placed) < Len(Layer.want)
Candidates == { i \in DOMAIN pool : Feat[pool[i]] = Layer.want[Len(placed) + 1] }

(* Variant for checking: the last candidate first.                         *)
PlaceLast ==
  /\ Matching /\ Candidates # {}
  /\ LET i == CHOOSE i \in Candidates : \A j \in Candidates : j <= i
     IN  /\ placed' = Append(placed, pool[i])
         /\ pool' = RemoveAt(pool, i)
  /\ UNCHANGED <<parsed, layers, at, fixed, pc>>

(* The first input of the next width leaves the pool. *)
Place ==
  /\ Matching /\ Candidates # {}
  /\ LET i == CHOOSE i \in Candidates : \A j \in Candidates : i <= j
     IN  /\ placed' = Append(placed, pool[i])
         /\ pool' = RemoveAt(pool, i)
  /\ UNCHANGED <<parsed, layers, at, fixed, pc>>

Advance ==
  /\ at' = at + 1
  /\ pool' = << >>
  /\ placed' = << >>
  /\ pc' = "scan"
  /\ UNCHANGED parsed

(* Variant for checking: what was placed so far goes first.                *)
NoCandidatePartly ==
  /\ Matching /\ Candidates = {}
  /\ layers' = [layers EXCEPT ![at].input = placed \o pool]
  /\ UNCHANGED fixed
  /\ Advance

(* No input of that width is left: the conv stays as it is. *)
NoCandidate ==
  /\ Matching /\ Candidates = {}
  /\ UNCHANGED <<layers, fixed>>
  /\ Advance

Repair ==
  /\ pc = "match" /\ Len(placed) = Len(Layer.want)
  /\ IF placed # Layer.input
     THEN /\ layers' = [layers EXCEPT ![at].input = placed]
          /\ fixed' = fixed + 1
     ELSE UNCHANGED <<layers, fixed>>
  /\ Advance

(* The HN is written back and the archive packed again. *)
Write ==
  /\ pc = "scan" /\ at > Len(layers)
  /\ pc' = "written"
  /\ UNCHANGED <<parsed, layers, at, pool, placed, fixed>>

-----------------------------------------------------------------------------

RepairInit ==
  /\ parsed \in Nets
  /\ layers = parsed
  /\ at = 1
  /\ pool = << >>
  /\ placed = << >>
  /\ fixed = 0
  /\ pc = "scan"

RepairNext == Skip \/ Begin \/ Place \/ NoCandidate \/ Repair \/ Write

RepairSpec == RepairInit /\ [][RepairNext]_repairVars

-----------------------------------------------------------------------------

(* Some order of the inputs has the declared widths. *)
Alignable(layer) ==
  \E pi \in Bijection(DOMAIN layer.input, DOMAIN layer.input) :
    \A k \in DOMAIN layer.input : Feat[layer.input[pi[k]]] = layer.want[k]

(* Greedy is as good as any search: a conv leaves step 5 misaligned only   *)
(* if no order of its inputs would do, and is then left as it was.  What   *)
(* is counted is what was changed (fix_duplicated_conv_inputs).            *)
RepairIsComplete ==
  pc = "written" =>
    /\ \A k \in DOMAIN layers :
         Misaligned(layers[k]) => ~ Alignable(parsed[k]) /\ layers[k] = parsed[k]
    /\ fixed = Cardinality({ k \in DOMAIN layers : layers[k] # parsed[k] })

(* The inputs of a layer, rearranged: none is lost or named twice, and     *)
(* those of one width keep their order among themselves.                   *)
StableOrder(now, was) ==
  \E pi \in Bijection(DOMAIN was, DOMAIN was) :
    /\ now = [ k \in DOMAIN was |-> was[pi[k]] ]
    /\ \A i, j \in DOMAIN was : i < j /\ Feat[now[i]] = Feat[now[j]] => pi[i] < pi[j]

(* Operands that only their place tells apart are never exchanged, in any  *)
(* layer, repaired or not (fix_duplicated_conv_inputs).                    *)
SameWidthKeepsOrder ==
  \A k \in DOMAIN layers : StableOrder(layers[k].input, parsed[k].input)
=============================================================================
