------------------------------ MODULE Project ------------------------------
(***************************************************************************)
(* The project row of internal/project/project.go: its lifecycle states    *)
(* and the eligibility predicates every handler asks before it acts.       *)
(*                                                                         *)
(* A row keeps the columns those predicates and the pipeline read.  Texts  *)
(* (brief, plan, prompts, addresses) are abstracted to whether they are    *)
(* set; timestamps to whether they are non-zero.                           *)
(***************************************************************************)
EXTENDS Naturals

CONSTANT MaxIterations      \* free build passes per unpaid project (3 in the code)

ASSUME MaxIterationsAssumption == MaxIterations \in Nat \ {0}

\* States a customer or the operator has to act on.
Waiting == {"pending_access_approval", "needs_input", "needs_concept",
            "awaiting_approval", "escalated", "failed"}

\* States only a live goroutine moves on; no iteration row backs them.
PreBuild == {"created", "clarifying", "concepting", "planning", "screening"}

\* States in which a finished build is on show.
Shown == {"preview_ready", "accepted", "delivered"}

Status == Waiting \cup PreBuild \cup Shown \cup {"building", "rejected", "expired"}

Verdict == {"none", "allow", "reject", "escalate"}

Row == [status    : Status,
        design    : BOOLEAN,      \* DesignBrief # ""
        concepts  : BOOLEAN,      \* len(HeroConcepts()) > 0
        plan      : BOOLEAN,      \* Plan # ""
        verdict   : Verdict,
        url       : BOOLEAN,      \* PreviewURL # ""
        used      : Nat,          \* IterationsUsed
        paid      : BOOLEAN,
        delivered : BOOLEAN]      \* ~DeliveredAt.IsZero()

NewRow(status) ==
  [status |-> status, design |-> FALSE, concepts |-> FALSE, plan |-> FALSE,
   verdict |-> "none", url |-> FALSE, used |-> 0, paid |-> FALSE, delivered |-> FALSE]

At(p, status) == [p EXCEPT !.status = status]

CanReiterate(p) ==
  /\ ~p.paid
  /\ p.status = "preview_ready"
  /\ p.used < MaxIterations

CanRequestChange(p) == p.paid /\ p.status \in {"preview_ready", "delivered"}

CanApprovePlan(p) == p.status = "awaiting_approval"

CanAccept(p) == p.status = "preview_ready"

\* Weakened: a rejection may be retried like a failure.
CanRetryRejected(p) == p.status \in {"failed", "rejected"}

CanRetry(p) == p.status = "failed"

\* A retry goes back to the concepts when neither a plan nor concepts exist
\* but the customer's answers were recorded.
RetryConcepts(p) == ~p.plan /\ ~p.concepts /\ p.design

IsStuckPreBuild(p) == p.status \in PreBuild

HadPreview(p) == p.used >= 1 /\ p.url

\* Weakened: falls back to a preview that was never built.
MarkedFailedBlindly(p) ==
  IF p.status # "building" THEN p ELSE At(p, "preview_ready")

\* What markFailed does to the row it loads: nothing unless the project is
\* building, else back to the preview that still stands, else failed.
MarkedFailed(p) ==
  IF p.status # "building" THEN p
  ELSE At(p, IF HadPreview(p) THEN "preview_ready" ELSE "failed")
=============================================================================
