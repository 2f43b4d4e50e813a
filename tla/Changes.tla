------------------------------- MODULE Changes -------------------------------
(***************************************************************************)
(* What surrounds a change, side by side: the allowance that counts it      *)
(* (Metering), the sandbox that builds it (Sandbox), the material it folds  *)
(* in (Content), the log its customer watches (LiveLog) and the account     *)
(* whose project it is (Accounts).                                          *)
(*                                                                          *)
(* Each of them models the project's row as far as it depends on it.  A     *)
(* behaviour is one of one component, chosen at the start, while the others *)
(* keep their initial states; no fair action of the sandbox is enabled in   *)
(* its initial state, so its fairness asks nothing of the others.           *)
(***************************************************************************)
EXTENDS Metering

CONSTANTS
  \* Sandbox
  MaxPasses, MaxVersion, MaxRestarts, MaxLosses, FrozenLimit,
  \* Content
  Pictures, Slots, Uploads, MaxImages, MaxRebuilds, MaxFaults,
  \* Accounts
  Requests, Projects, Others, Links, Builds, MaxPerDay, MaxConcurrent, MaxBuilds,
  \* LiveLog
  Viewers, MaxLines, Chunk, Buffer, HistSize, MaxCuts

ASSUME ChangesAssumption ==
  /\ MaxPasses \in Nat /\ MaxVersion \in Nat /\ MaxRestarts \in Nat /\ MaxLosses \in Nat
  /\ FrozenLimit \in Nat \ {0}
  /\ Slots # {} /\ Pictures \cap Uploads = {} /\ IsFiniteSet(Pictures)
  /\ MaxImages \in Nat /\ MaxRebuilds \in Nat /\ MaxFaults \in Nat
  /\ "none" \notin Requests \cup Projects /\ IsFiniteSet(Projects) /\ IsFiniteSet(Builds) /\ Others \subseteq Projects
  /\ MaxPerDay \in Nat /\ MaxConcurrent \in Nat /\ MaxBuilds \in Nat
  /\ {"free", "publisher"} \cap Viewers = {}
  /\ MaxLines \in Nat /\ Chunk \in Nat \ {0} /\ Buffer \in Nat /\ HistSize \in Nat \ {0} /\ MaxCuts \in Nat

VARIABLES
  part,  \* the component that runs
  \* Sandbox
  orch, iteration, snapKey, alive, spawned, agent, heard, watch, site, builds, restarts, losses,
  \* Content
  sets, count, flag, used, assets, imageReq, fresh, picking, marking, pass, applied, lost, saveFaults,
  \* Accounts
  account, approved, link, session, request, mutex, proj, objects, swept, jobs, iter,
  \* LiveLog
  file, exit, status, poll, pub, hist, viewer, holder, cuts

Builder == INSTANCE Sandbox WITH
  row <- iteration, crashes <- restarts, faults <- losses,
  MaxBuilds <- MaxPasses, MaxCrashes <- MaxRestarts, MaxFaults <- MaxLosses

Material == INSTANCE Content WITH
  req <- imageReq, build <- pass, faults <- saveFaults, Requests <- Pictures, MaxBuilds <- MaxRebuilds

Customers == INSTANCE Accounts WITH req <- request

Progress == INSTANCE LiveLog

builderVars == <<orch, iteration, snapKey, alive, spawned, agent, heard, watch, site, builds, restarts, losses>>
materialVars == <<sets, count, flag, used, assets, imageReq, fresh, picking, marking, pass, applied, lost, saveFaults>>
customersVars == <<account, approved, link, session, request, mutex, proj, objects, swept, jobs, iter>>
progressVars == <<file, exit, status, poll, pub, hist, viewer, holder, cuts>>
changesVars == <<part, vars, builderVars, materialVars, customersVars, progressVars>>

ChangesInit ==
  /\ part \in {"metering", "builder", "material", "customers", "progress"}
  /\ Init /\ Builder!Init /\ Material!Init /\ Customers!Init /\ Progress!Init

ChangesNext ==
  /\ UNCHANGED part
  /\ IF part = "metering" THEN Next ELSE UNCHANGED vars
  /\ IF part = "builder" THEN Builder!Next ELSE UNCHANGED builderVars
  /\ IF part = "material" THEN Material!Next ELSE UNCHANGED materialVars
  /\ IF part = "customers" THEN Customers!Next ELSE UNCHANGED customersVars
  /\ IF part = "progress" THEN Progress!Next ELSE UNCHANGED progressVars

ChangesSpec == ChangesInit /\ [][ChangesNext]_changesVars /\ Builder!Fairness

----------------------------------------------------------------------------
(* The components' properties, under the names their modules give them.     *)

\* Every component's state keeps its type.
ChangesTypeOK ==
  TypeOK /\ Builder!TypeOK /\ Material!TypeOK /\ Customers!TypeOK /\ Progress!TypeOK

\* Only a build whose agent has stopped is finalised as a success (builder.Attach).
FinalisedAfterAgent == Builder!FinalisedAfterAgent

\* A re-attached build whose agent ended unheard is ended by the watchdog (opencode.Attach).
AttachedFinishes == Builder!AttachedFinishes

\* Every sandbox is destroyed in the end (Build's deferred call, SweepSandboxes).
MachineReleased == Builder!MachineReleased

\* Pictures are paid for from the allowance, one job per slot at a time (reserveImageJob).
AllowanceKept == Material!AllowanceKept

\* Candidates leave a slot by their own job, a pick, or a newer job only (failImageJob).
SetsStayTheirOwners == Material!SetsStayTheirOwners

\* Content the site lacks is offered for a rebuild (markContentPending, runBuild).
UnappliedIsOffered == Material!UnappliedIsOffered

\* The quota and the build caps hold (quotaBlock, ReserveIteration).
CapsKept == Customers!CapsKept

\* A project's row goes only after its objects (PurgeProject, handleDeleteAccount).
PurgedFirst == Customers!PurgedFirst

\* A viewer of the log misses only what its full channel dropped (stream.Broker).
ViewersMissOnlyDrops == Progress!ViewersMissOnlyDrops
=============================================================================
