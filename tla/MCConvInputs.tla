---------------------------- MODULE MCConvInputs ----------------------------
(* A layer of up to three inputs, any names under any widths, followed by  *)
(* a conv to repair and one beyond repair.                                 *)
EXTENDS ConvInputs

MCFeat == [a |-> 1, b |-> 1, c |-> 2, d |-> 2, gone |-> 0]

MCNets ==
  LET names == DOMAIN MCFeat
      first == UNION { [type : {"conv"}, input : [1 .. n -> names], want : [1 .. n -> {1, 2}]] :
                         n \in 0 .. 3 }
                 \cup [type : {"ew_add"}, input : [1 .. 2 -> names], want : [1 .. 2 -> {1, 2}]]
  IN  { << layer, [type |-> "conv", input |-> <<"c", "a">>, want |-> <<1, 2>>],
           [type |-> "conv", input |-> <<"a", "gone">>, want |-> <<1, 2>>] >> : layer \in first }
=============================================================================
