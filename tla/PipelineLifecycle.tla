------------------------- MODULE PipelineLifecycle -------------------------
(* The refinement mapping from Pipeline to Lifecycle. *)
EXTENDS Pipeline

PhaseOf(status) ==
  CASE status = "awaiting_approval"      -> "offer"
    [] status = "building"               -> "building"
    [] status = "failed"                 -> "failed"
    [] status = "preview_ready"          -> "preview"
    [] status = "accepted"               -> "review"
    [] status = "delivered"              -> "live"
    [] status \in {"rejected", "expired"} -> "closed"
    [] OTHER                             -> "scoping"

L == INSTANCE Lifecycle WITH
       FreeBuilds <- MaxIterations,
       phase <- PhaseOf(row.status), paid <- row.paid,
       guaranteed <- row.delivered, builds <- row.used

\* Goroutines, held copies, conflicts, crashes and recovery together move a
\* project only as Lifecycle allows.
ImplementsLifecycle == L!LifecycleSpec
=============================================================================
