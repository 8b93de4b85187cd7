--------------------------- MODULE MCEvalExecutor ---------------------------
(* Instance of EvalExecutor for model checking.                            *)
EXTENDS EvalExecutor, TLC

CONSTANTS in, out, e

MCStreams == {in, out}
MCOver    == e :> 2
=============================================================================
