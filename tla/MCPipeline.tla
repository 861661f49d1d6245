----------------------------- MODULE MCPipeline -----------------------------
(* Pipeline with a setup and three others that differ from it in one       *)
(* respect each: the checkpoint, the prefill size, the cache size.         *)
EXTENDS Pipeline

CONSTANTS modelA, modelB, eps5, eps6

Base == [model |-> modelA, eps |-> eps6, scope |-> "s", seq |-> 128, prefill |-> 32]

MCSetups == { Base, [Base EXCEPT !.model = modelB, !.eps = eps5],
              [Base EXCEPT !.prefill = 64], [Base EXCEPT !.seq = 256] }
=============================================================================
