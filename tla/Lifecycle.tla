----------------------------- MODULE Lifecycle -----------------------------
(***************************************************************************)
(* What a project's life looks like from outside: the phases the customer  *)
(* and the operator see, who may move it between them and at what price.   *)
(* It knows nothing of goroutines, copies, versions, iterations or         *)
(* crashes.  Pipeline is shown to implement it.                            *)
(***************************************************************************)
EXTENDS Naturals

CONSTANT FreeBuilds         \* build passes before a subscription

VARIABLES
  phase,
  paid,
  guaranteed,               \* the operator has delivered the site once
  builds                    \* build passes that counted

lifecycle == <<phase, paid, guaranteed, builds>>

Phase == {"scoping", "offer", "building", "failed", "preview", "review", "live", "closed"}

LifecycleTypeOK ==
  /\ phase \in Phase
  /\ paid \in BOOLEAN /\ guaranteed \in BOOLEAN
  /\ builds \in Nat

LifecycleInit == phase = "scoping" /\ paid = FALSE /\ guaranteed = FALSE /\ builds = 0

Move(from, to) ==
  /\ phase \in from /\ phase' \in to
  /\ UNCHANGED <<paid, guaranteed, builds>>

\* Questions, concepts, plan and safety gate, up to an offer or a refusal.
Scope == Move({"scoping"}, {"offer", "failed", "closed"})

Agree == Move({"offer"}, {"building"})

\* A build pass that counts, counts once.
Complete ==
  /\ phase = "building" /\ phase' = "preview"
  /\ builds' \in {builds, builds + 1} /\ builds' >= 1
  /\ UNCHANGED <<paid, guaranteed>>

\* Only a first build can fail a project; later ones fall back to the preview.
Fail == builds = 0 /\ Move({"building"}, {"failed"})

\* A retry builds, or first plans what was never planned.
Retry == Move({"failed"}, {"building", "scoping"})
Rescope == builds = 0 /\ Move({"building"}, {"scoping"})

Change ==
  /\ paid \/ builds < FreeBuilds
  /\ Move(IF paid THEN {"preview", "live"} ELSE {"preview"}, {"building"})

OperatorFix == Move({"preview", "review"}, {"building"})

Accept == Move({"preview"}, {"review"})
Return == Move({"review"}, {"preview"})

\* A preview nobody pays for is taken down in the end.
Expire == ~paid /\ Move({"preview"}, {"closed"})

\* Payment and the operator's guarantee are what put a site live.
Deliver ==
  /\ paid
  /\ phase = "review" /\ phase' = "live" /\ guaranteed' = TRUE
  /\ UNCHANGED <<paid, builds>>
GoLive == paid /\ guaranteed /\ Move({"preview"}, {"live"})

Pay == paid' \in BOOLEAN /\ UNCHANGED <<phase, guaranteed, builds>>

LifecycleNext ==
  \/ Scope \/ Agree \/ Complete \/ Fail \/ Retry \/ Rescope \/ Change \/ OperatorFix
  \/ Accept \/ Return \/ Expire \/ Deliver \/ GoLive \/ Pay

LifecycleSpec == LifecycleInit /\ [][LifecycleNext]_lifecycle

\* A site is live only with the operator's guarantee, and nothing is shown
\* before a build has counted.
LiveIsGuaranteed == phase = "live" => guaranteed
ShownIsBuilt == phase \in {"preview", "review", "live"} => builds >= 1
=============================================================================
