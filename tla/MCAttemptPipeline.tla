------------------------- MODULE MCAttemptPipeline -------------------------
(****************************************************************************)
(* Small instances of AttemptPipeline: one or two scheduler processes and a *)
(* request worker on one case.                                              *)
(****************************************************************************)
EXTENDS AttemptPipeline

WithLedger == {TRUE}
EitherLedger == BOOLEAN
=============================================================================
