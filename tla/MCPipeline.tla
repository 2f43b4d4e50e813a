----------------------------- MODULE MCPipeline -----------------------------
(* Instances of Pipeline for TLC. *)
EXTENDS PipelineLifecycle, TLC

\* Goroutine slots are interchangeable.
WorkerSymmetry == Permutations(Workers)
=============================================================================
