---------------------------- MODULE ChangesProofs ----------------------------
(***************************************************************************)
(* Theorems about what surrounds a change, for every value of the           *)
(* constants: the allowance (Metering), the accounts (Customers), the       *)
(* sandbox (Builder), the material (Material) and the live log (Progress).  *)
(***************************************************************************)
EXTENDS Changes, MeteringProofs, FiniteSetTheorems, SequenceTheorems, TLAPS

\* Only one component runs; the others' steps are theirs or stutters.
LEMMA PartSteps ==
  ASSUME [ChangesNext]_changesVars
  PROVE  /\ [Next]_vars /\ [Builder!Next]_builderVars /\ [Material!Next]_materialVars
         /\ [Customers!Next]_customersVars /\ [Progress!Next]_progressVars
  BY DEF ChangesNext, changesVars

-----------------------------------------------------------------------------
(* The accounts.  AccountsProofs is about a component on its own; its         *)
(* theorems are about the instance here once its steps are seen to be the     *)
(* same.                                                                      *)

Owners == INSTANCE AccountsProofs WITH req <- request

\* Copies of one module agree on every definition.
LEMMA OwnersStart == ASSUME Customers!Init PROVE Owners!Init
  BY DEF Customers!Init, Owners!Init, Customers!NoRow, Owners!NoRow, Customers!Rest, Owners!Rest,
     Customers!NoBuild, Owners!NoBuild,
     Customers!None, Owners!None

LEMMA OwnersSpec == ChangesSpec => Owners!Spec
  <1>1. ChangesInit => Owners!Init
    BY OwnersStart DEF ChangesInit
  <1>2. [ChangesNext]_changesVars => [Owners!Next]_(Owners!vars)
    <2> SUFFICES ASSUME [ChangesNext]_changesVars PROVE [Owners!Next]_(Owners!vars)
      OBVIOUS
    <2>1. [Customers!Next]_customersVars
      BY PartSteps
    <2>0. Customers!NewId = Owners!NewId
      BY Zenon DEF Customers!NewId, Owners!NewId
    <2>2. Customers!Next => Owners!Next
      BY <2>0 DEF Owners!Next, Customers!Next, Owners!vars, Customers!vars, Owners!signVars, Customers!signVars,
             Owners!dataVars, Customers!dataVars, Owners!NoBuild, Customers!NoBuild,
             Owners!LockFree, Customers!LockFree, Owners!Moves, Customers!Moves, Owners!SweepLeftover,
             Customers!SweepLeftover, Owners!Persist, Customers!Persist, Owners!BuildStep, Customers!BuildStep,
             Owners!None,
             Customers!None, Owners!NoRow, Customers!NoRow, Owners!InFlight, Customers!InFlight, Owners!Rows,
             Customers!Rows, Owners!Owned, Customers!Owned, Owners!Iterations, Customers!Iterations,
             Owners!Active, Customers!Active, Owners!Move, Customers!Move, Owners!Ends, Customers!Ends,
             Owners!ConsumeLoginToken, Customers!ConsumeLoginToken, Owners!OAuthCallback,
             Customers!OAuthCallback, Owners!FindUser, Customers!FindUser, Owners!CreateUser,
             Customers!CreateUser, Owners!StartSession, Customers!StartSession, Owners!RequireUser,
             Customers!RequireUser, Owners!Uncontended, Customers!Uncontended, Owners!Lock, Customers!Lock,
             Owners!Unlock, Customers!Unlock, Owners!QuotaBlocks, Customers!QuotaBlocks, Owners!QuotaBlock,
             Customers!QuotaBlock, Owners!CreateProject, Customers!CreateProject, Owners!Deletable,
             Customers!Deletable, Owners!DeleteProject, Customers!DeleteProject, Owners!AdminPurge,
             Customers!AdminPurge, Owners!ListProjects, Customers!ListProjects, Owners!PurgeNext,
             Customers!PurgeNext, Owners!Aborts, Customers!Aborts, Owners!Sweep, Customers!Sweep, Owners!Gone,
             Customers!Gone, Owners!RemoveRow, Customers!RemoveRow, Owners!DeleteUser, Customers!DeleteUser,
             Owners!ApproveAccess, Customers!ApproveAccess, Owners!Proceed, Customers!Proceed, Owners!Pay,
             Customers!Pay, Owners!StartJob, Customers!StartJob, Owners!StoreObject, Customers!StoreObject,
             Owners!Reserve, Customers!Reserve, Owners!Full, Customers!Full, Owners!InsertIteration,
             Customers!InsertIteration, Owners!BuildEnds, Customers!BuildEnds, Owners!Request, Customers!Request,
             Owners!System, Customers!System, Owners!Cardinality, Customers!Cardinality
    <2> QED
      BY <2>1, <2>2 DEF customersVars, Owners!vars
  <1> QED
    BY <1>1, <1>2, PTL DEF ChangesSpec, Owners!Spec

\* The quota of an account and the global build caps hold in every behaviour, for every
\* value of the caps (quotaBlock under accountMu, ReserveIteration under its advisory lock).
THEOREM CapsHold == ChangesSpec => []CapsKept
  <1>1. Owners!CapsAssumption
    BY ChangesAssumption DEF Owners!CapsAssumption, Owners!None, Owners!IsFiniteSet, IsFiniteSet
  <1>2. Owners!Spec => []Owners!CapsKept
    BY <1>1, Owners!CapsHold
  <1>3. Owners!CapsKept => CapsKept
    BY DEF Owners!CapsKept, CapsKept, Customers!CapsKept, Owners!Owned, Customers!Owned, Owners!Rows, Customers!Rows,
       Owners!Builders, Customers!Builders, Owners!Iterations, Customers!Iterations, Owners!Cardinality, Customers!Cardinality
  <1> QED
    BY <1>2, <1>3, OwnersSpec, PTL

\* A project's row goes only after its objects were deleted (PurgeProject,
\* handleDeleteAccount), for every set of requests and projects.
THEOREM RowGoesLast == ChangesSpec => PurgedFirst
  <1>1. Owners!None \notin Requests
    BY ChangesAssumption DEF Owners!None
  <1>2. Owners!Spec => Owners!PurgedFirst
    BY <1>1, Owners!RowGoesLast
  <1>3. [\A p \in Projects : p \in Owners!Rows /\ proj'[p] = Owners!NoRow => p \in swept]_(Owners!vars)
          => [\A p \in Projects : p \in Customers!Rows /\ proj'[p] = Customers!NoRow => p \in swept]_(Customers!vars)
    BY DEF Owners!Rows, Owners!NoRow, Owners!None, Owners!vars, Customers!Rows, Customers!NoRow, Customers!None, Customers!vars
  <1>4. Owners!PurgedFirst => PurgedFirst
    BY <1>3, PTL DEF Owners!PurgedFirst, PurgedFirst, Customers!PurgedFirst
  <1> QED
    BY <1>2, <1>4, OwnersSpec, PTL

-----------------------------------------------------------------------------
(* The sandbox.  What a build may conclude from the end of one session about  *)
(* the other rests on their order: the polish pass starts after the main      *)
(* session has ended, and an end that was heard came after the stream was     *)
(* opened.                                                                    *)

\* The polish session never meets a main session at work.
InTurn == agent["polish"] # "none" => agent["main"] # "working"

\* A machine that has not been prompted has no agent; a first build waits for its main
\* session, with no other; an attached one that heard the main session end, too.
StreamTells ==
  /\ orch.pc \in {"boot", "seed", "agent"} => agent = Builder!NoAgent
  /\ orch.pc \in {"prepare", "create", "boot", "seed", "agent"} => ~orch.attached
  /\ orch.pc = "consume" /\ ~orch.attached => orch.on = "main" /\ agent["polish"] = "none"
  /\ orch.pc = "consume" => orch.on \in Builder!Sessions
  /\ orch.pc \in {"consume", "polish"} /\ "main" \in heard => agent["polish"] # "working" \/ orch.pc = "polish"
  /\ orch.pc = "polish" => orch.on = "polish"

Settled == Builder!Working = {} \/ spawned \notin alive

\* The watchdog's limit is reached only when nobody works.
WatchTells == Builder!Attached /\ watch.ticks >= FrozenLimit => Settled

\* The types, variable by variable.
OrchOK ==
  orch \in [pc : {"idle", "prepare", "create", "boot", "seed", "agent", "consume", "salvage",
                  "save", "review", "polish", "resave", "destroy", "finish", "down"},
            attached : BOOLEAN, on : {"main", "polish", "none"}, saved : BOOLEAN,
            failed : BOOLEAN, respawn : BOOLEAN]
IterationOK ==
  /\ spawned \in Nat /\ alive \subseteq 1 .. spawned /\ snapKey \in BOOLEAN
  /\ iteration \in [machine : Nat, session : {"main", "polish", "none"},
                    status : {"none", "building", "preview_ready", "failed"}]
  /\ iteration.machine <= spawned
AgentOK == agent \in [{"main", "polish"} -> {"none", "working", "idle", "error"}] /\ heard \subseteq {"main", "polish"}
WatchOK == watch \in [ticks : 0 .. FrozenLimit, grew : BOOLEAN]
SiteOK == site \in [work : 0 .. MaxVersion, live : 0 .. MaxVersion, snap : 0 .. MaxVersion]
BuilderTypes == OrchOK /\ IterationOK /\ AgentOK /\ WatchOK /\ SiteOK

LEMMA BuilderTyped == ASSUME BuilderTypes PROVE Builder!TypeOK
  BY DEF BuilderTypes, OrchOK, IterationOK, AgentOK, WatchOK, SiteOK, Builder!TypeOK, Builder!Sessions, Builder!NoSession

LEMMA BuilderTypesKept ==
  ASSUME BuilderTypes, [Builder!Next]_builderVars
  PROVE  BuilderTypes'
<1> USE DEF BuilderTypes
<1>1. OrchOK'
  <2>1. CASE Builder!Reattach
    BY <2>1 DEF OrchOK, IterationOK, Builder!Reattach, Builder!Idle
  <2>2. CASE Builder!StartAgent \/ Builder!StartPolish
    <3>1. \/ orch' = [orch EXCEPT !.pc = "consume", !.on = "main"]
          \/ orch' = [orch EXCEPT !.pc = "polish", !.on = "polish"]
          \/ orch' = [orch EXCEPT !.pc = "salvage"]
      BY <2>2 DEF Builder!StartAgent, Builder!StartPolish, Builder!Prompted, Builder!To
    <3>2. CASE orch' = [orch EXCEPT !.pc = "consume", !.on = "main"]
      BY <3>2 DEF OrchOK
    <3>3. CASE orch' = [orch EXCEPT !.pc = "polish", !.on = "polish"]
      BY <3>3 DEF OrchOK
    <3>4. CASE orch' = [orch EXCEPT !.pc = "salvage"]
      BY <3>4 DEF OrchOK
    <3> QED BY <3>1, <3>2, <3>3, <3>4
  <2>3. CASE Builder!CreateConflict \/ Builder!Salvage \/ Builder!SaveSnapshot \/ Builder!Seed
    BY <2>3 DEF OrchOK, Builder!CreateConflict, Builder!Salvage, Builder!SaveSnapshot, Builder!Seed, Builder!To,
       Builder!Fails
  <2>4. CASE Builder!StartBuild \/ Builder!Finish \/ Builder!Crash \/ Builder!ReapInterrupted
    <3>1. \/ orch' = Builder!Idle
          \/ orch' = [Builder!Idle EXCEPT !.pc = "prepare"]
          \/ orch' = [Builder!Idle EXCEPT !.pc = "down"]
      BY <2>4 DEF Builder!StartBuild, Builder!Finish, Builder!Crash, Builder!ReapInterrupted
    <3>2. CASE orch' = Builder!Idle
      BY <3>2 DEF OrchOK, Builder!Idle, Builder!NoSession
    <3>3. CASE orch' = [Builder!Idle EXCEPT !.pc = "prepare"]
      BY <3>3 DEF OrchOK, Builder!Idle, Builder!NoSession
    <3>4. CASE orch' = [Builder!Idle EXCEPT !.pc = "down"]
      BY <3>4 DEF OrchOK, Builder!Idle, Builder!NoSession
    <3> QED BY <3>1, <3>2, <3>3, <3>4
  <2>5. CASE Builder!Prepare \/ Builder!CreateMachine \/ Builder!SpawnReady
    BY <2>5 DEF OrchOK, Builder!Prepare, Builder!CreateMachine, Builder!SpawnReady, Builder!To
  <2>6. CASE Builder!ConsumeIdle \/ Builder!ConsumeFails \/ Builder!ReviewClean \/ Builder!Destroy \/ Builder!Finalise
    BY <2>6 DEF OrchOK, Builder!ConsumeIdle, Builder!ConsumeFails, Builder!ReviewClean, Builder!Destroy, Builder!Finalise, Builder!To
  <2>7. CASE Builder!PrepareFails \/ Builder!CreateUnseen \/ Builder!SpawnFails
    BY <2>7 DEF OrchOK, Builder!PrepareFails, Builder!CreateUnseen, Builder!SpawnFails
  <2>8. CASE UNCHANGED orch
    BY <2>8 DEF OrchOK
  <2> QED
    BY <2>1, <2>2, <2>3, <2>4, <2>5, <2>6, <2>7, <2>8
       DEF builderVars, Builder!Next, Builder!BuildStep, Builder!Recover, Builder!AgentStep, Builder!AgentEdits,
           Builder!AgentDeploys, Builder!AgentEnds, Builder!Tick, Builder!Sweep
<1>2. IterationOK'
  <2> USE DEF builderVars, Builder!StartBuild, Builder!Prepare, Builder!PrepareFails, Builder!CreateMachine,
             Builder!CreateUnseen, Builder!CreateConflict, Builder!SpawnReady, Builder!SpawnFails, Builder!Seed,
             Builder!StartAgent, Builder!ConsumeIdle, Builder!ConsumeFails, Builder!Salvage,
             Builder!SaveSnapshot, Builder!ReviewClean, Builder!StartPolish, Builder!Destroy, Builder!Finish,
             Builder!Crash, Builder!Reattach, Builder!ReapInterrupted, Builder!Tick, Builder!Finalise,
             Builder!Sweep, Builder!AgentEdits, Builder!AgentDeploys, Builder!AgentEnds, Builder!Next,
             Builder!BuildStep, Builder!AgentStep, Builder!Recover, Builder!Prompted, Builder!To, Builder!Fails,
             Builder!Fault, Builder!counters, Builder!Idle, Builder!NoAgent, Builder!Quiet,
             Builder!Sessions, Builder!NoSession, Builder!Reachable
  <2>1. CASE Builder!Created
    <3>1. spawned' = spawned + 1 /\ alive' = {spawned + 1}
      BY <2>1 DEF Builder!Created
    <3>2. UNCHANGED <<iteration, snapKey>>
      BY <3>1 DEF IterationOK, Builder!Created
    <3> QED BY <3>1, <3>2 DEF IterationOK
  <2>2. CASE ~Builder!Created
    <3>1. spawned' = spawned /\ alive' \subseteq alive /\ snapKey' \in BOOLEAN
      BY <2>2 DEF IterationOK
    <3>2. /\ iteration' \in [machine : Nat, session : {"main", "polish", "none"},
                             status : {"none", "building", "preview_ready", "failed"}]
          /\ iteration'.machine <= spawned
      BY <2>2 DEF IterationOK
    <3> QED BY <3>1, <3>2 DEF IterationOK
  <2> QED BY <2>1, <2>2
<1>3. AgentOK'
  BY DEF AgentOK, builderVars, Builder!StartBuild, Builder!Prepare, Builder!PrepareFails, Builder!CreateMachine,
     Builder!CreateUnseen, Builder!CreateConflict, Builder!SpawnReady, Builder!SpawnFails, Builder!Seed,
     Builder!StartAgent, Builder!ConsumeIdle, Builder!ConsumeFails, Builder!Salvage,
     Builder!SaveSnapshot, Builder!ReviewClean, Builder!StartPolish, Builder!Destroy, Builder!Finish,
     Builder!Crash, Builder!Reattach, Builder!ReapInterrupted, Builder!Tick, Builder!Finalise,
     Builder!Sweep, Builder!AgentEdits, Builder!AgentDeploys, Builder!AgentEnds, Builder!Next,
     Builder!BuildStep, Builder!AgentStep, Builder!Recover, Builder!Prompted, Builder!To, Builder!Fails,
     Builder!Created, Builder!Fault, Builder!counters, Builder!Idle, Builder!NoAgent, Builder!Quiet,
     Builder!Sessions, Builder!NoSession, Builder!Reachable
<1>4. WatchOK'
  <2>1. CASE Builder!Tick
    BY <2>1, ChangesAssumption DEF WatchOK, Builder!Tick
  <2>2. CASE ~Builder!Tick
    <3>1. watch' = watch \/ watch' = [watch EXCEPT !.grew = TRUE] \/ watch' = [ticks |-> 0, grew |-> FALSE]
      BY <2>2 DEF builderVars, Builder!StartBuild, Builder!Prepare, Builder!PrepareFails, Builder!CreateMachine,
     Builder!CreateUnseen, Builder!CreateConflict, Builder!SpawnReady, Builder!SpawnFails, Builder!Seed,
     Builder!StartAgent, Builder!ConsumeIdle, Builder!ConsumeFails, Builder!Salvage,
     Builder!SaveSnapshot, Builder!ReviewClean, Builder!StartPolish, Builder!Destroy, Builder!Finish,
     Builder!Crash, Builder!Reattach, Builder!ReapInterrupted, Builder!Finalise, Builder!Sweep,
     Builder!AgentEdits, Builder!AgentDeploys, Builder!AgentEnds, Builder!Next, Builder!BuildStep,
     Builder!AgentStep, Builder!Recover, Builder!Prompted, Builder!To, Builder!Fails, Builder!Created,
     Builder!Fault, Builder!counters, Builder!Idle, Builder!NoAgent, Builder!Quiet, Builder!Sessions,
     Builder!NoSession, Builder!Reachable
    <3>2. 0 \in 0 .. FrozenLimit
      BY ChangesAssumption
    <3>3. CASE watch' = watch
      BY <3>3 DEF WatchOK
    <3>4. CASE watch' = [watch EXCEPT !.grew = TRUE]
      BY <3>4 DEF WatchOK
    <3>5. CASE watch' = [ticks |-> 0, grew |-> FALSE]
      BY <3>2, <3>5 DEF WatchOK
    <3> QED BY <3>1, <3>3, <3>4, <3>5
  <2> QED BY <2>1, <2>2
<1>5. SiteOK'
  BY ChangesAssumption DEF SiteOK, builderVars, Builder!StartBuild, Builder!Prepare, Builder!PrepareFails, Builder!CreateMachine,
     Builder!CreateUnseen, Builder!CreateConflict, Builder!SpawnReady, Builder!SpawnFails, Builder!Seed,
     Builder!StartAgent, Builder!ConsumeIdle, Builder!ConsumeFails, Builder!Salvage,
     Builder!SaveSnapshot, Builder!ReviewClean, Builder!StartPolish, Builder!Destroy, Builder!Finish,
     Builder!Crash, Builder!Reattach, Builder!ReapInterrupted, Builder!Tick, Builder!Finalise,
     Builder!Sweep, Builder!AgentEdits, Builder!AgentDeploys, Builder!AgentEnds, Builder!Next,
     Builder!BuildStep, Builder!AgentStep, Builder!Recover, Builder!Prompted, Builder!To, Builder!Fails,
     Builder!Created, Builder!Fault, Builder!counters, Builder!Idle, Builder!NoAgent, Builder!Quiet,
     Builder!Sessions, Builder!NoSession, Builder!Reachable
<1> QED BY <1>1, <1>2, <1>3, <1>4, <1>5

BuilderInv == BuilderTypes /\ InTurn /\ StreamTells /\ WatchTells /\ FinalisedAfterAgent

\* Nothing has been built.
LEMMA BuilderStart == ASSUME Builder!Init PROVE BuilderInv
<1> USE DEF Builder!Init, Builder!Idle, Builder!NoAgent, Builder!Quiet, Builder!Sessions, Builder!NoSession
<1>1. BuilderTypes
  <2>1. OrchOK
    BY DEF OrchOK
  <2>6. iteration = [machine |-> 0, session |-> "none", status |-> "none"] /\ spawned = 0 /\ alive = {} /\ snapKey = FALSE
    OBVIOUS
  <2>7. iteration \in [machine : Nat, session : {"main", "polish", "none"},
                       status : {"none", "building", "preview_ready", "failed"}]
    BY <2>6
  <2>2. IterationOK
    <3>1. spawned \in Nat /\ alive \subseteq 1 .. spawned
      BY <2>6
    <3>3. snapKey \in BOOLEAN
      BY <2>6, Zenon
    <3>2. iteration.machine <= spawned
      BY <2>6
    <3> QED BY <2>7, <3>1, <3>2, <3>3 DEF IterationOK
  <2>5. AgentOK
    BY DEF AgentOK
  <2>3. 0 \in 0 .. FrozenLimit /\ 0 \in 0 .. MaxVersion
    BY ChangesAssumption
  <2>4. WatchOK /\ SiteOK
    BY <2>3 DEF WatchOK, SiteOK
  <2> QED BY <2>1, <2>2, <2>4, <2>5 DEF BuilderTypes
<1>2. InTurn /\ StreamTells /\ WatchTells /\ FinalisedAfterAgent
  BY DEF InTurn, StreamTells, WatchTells, Builder!Attached, FinalisedAfterAgent, Builder!FinalisedAfterAgent
<1> QED BY <1>1, <1>2 DEF BuilderInv

\* Every step keeps the rest.
LEMMA BuilderStep ==
  ASSUME BuilderInv, [Builder!Next]_builderVars
  PROVE  BuilderInv'
<1> USE DEF BuilderInv, InTurn, StreamTells, WatchTells, Settled, FinalisedAfterAgent, Builder!FinalisedAfterAgent, Builder!Working,
            Builder!Attached, Builder!Sessions, Builder!NoAgent, Builder!Idle, Builder!NoSession, Builder!To, Builder!Fails,
            Builder!Created, Builder!counters, Builder!Waiting
<1>0. BuilderTypes'
  BY BuilderTypesKept
<1>a. /\ orch = [pc |-> orch.pc, attached |-> orch.attached, on |-> orch.on, saved |-> orch.saved,
                 failed |-> orch.failed, respawn |-> orch.respawn]
      /\ orch.attached \in BOOLEAN
  BY DEF BuilderTypes, OrchOK
<1>b. agent = [s \in Builder!Sessions |-> agent[s]] /\ heard \subseteq Builder!Sessions
  BY DEF BuilderTypes, AgentOK, Builder!Sessions
<1>c. spawned \in Nat /\ alive \subseteq 1 .. spawned
  BY DEF BuilderTypes, IterationOK
<1>d. watch = [ticks |-> watch.ticks, grew |-> watch.grew] /\ watch.ticks \in Nat /\ watch.grew \in BOOLEAN /\ FrozenLimit \in Nat \ {0}
  BY ChangesAssumption DEF BuilderTypes, WatchOK
<1>1. CASE Builder!StartBuild
  BY <1>0, <1>a, <1>b, <1>c, <1>d, <1>1 DEF Builder!StartBuild
<1>2. CASE Builder!Prepare
  BY <1>0, <1>a, <1>b, <1>c, <1>d, <1>2 DEF Builder!Prepare
<1>3. CASE Builder!PrepareFails
  BY <1>0, <1>a, <1>b, <1>c, <1>d, <1>3 DEF Builder!PrepareFails
<1>4. CASE Builder!CreateMachine
  BY <1>0, <1>a, <1>b, <1>c, <1>d, <1>4 DEF Builder!CreateMachine
<1>5. CASE Builder!CreateUnseen
  BY <1>0, <1>a, <1>b, <1>c, <1>d, <1>5 DEF Builder!CreateUnseen
<1>6. CASE Builder!CreateConflict
  BY <1>0, <1>a, <1>b, <1>c, <1>d, <1>6 DEF Builder!CreateConflict
<1>7. CASE Builder!SpawnReady
  BY <1>0, <1>a, <1>b, <1>c, <1>d, <1>7 DEF Builder!SpawnReady
<1>8. CASE Builder!SpawnFails
  BY <1>0, <1>a, <1>b, <1>c, <1>d, <1>8 DEF Builder!SpawnFails
<1>9. CASE Builder!Seed
  BY <1>0, <1>a, <1>b, <1>c, <1>d, <1>9 DEF Builder!Seed
<1>10. CASE Builder!StartAgent
  <2>1. CASE Builder!Prompted("main", "consume")
    BY <1>0, <1>a, <1>b, <1>c, <1>d, <1>10, <2>1 DEF Builder!StartAgent, Builder!Prompted
  <2>2. CASE orch' = [orch EXCEPT !.pc = "salvage"] /\ UNCHANGED <<agent, heard>>
    <3>1. orch'.pc = "salvage" /\ orch'.attached = orch.attached /\ orch'.on = orch.on
      BY <1>a, <2>2
    <3>2. UNCHANGED <<alive, spawned, watch>>
      BY <1>10 DEF Builder!StartAgent
    <3>3. agent = Builder!NoAgent
      BY <1>10 DEF Builder!StartAgent
    <3>4. InTurn' /\ StreamTells'
      BY <2>2, <3>1, <3>3
    <3>5. WatchTells' /\ FinalisedAfterAgent'
      BY <3>1
    <3> HIDE DEF InTurn, StreamTells, WatchTells, FinalisedAfterAgent
    <3> QED BY <1>0, <3>4, <3>5
  <2> QED BY <1>10, <2>1, <2>2 DEF Builder!StartAgent
<1>11. CASE Builder!ConsumeIdle
  BY <1>0, <1>a, <1>b, <1>c, <1>d, <1>11 DEF Builder!ConsumeIdle
<1>12. CASE Builder!ConsumeFails
  BY <1>0, <1>a, <1>b, <1>c, <1>d, <1>12 DEF Builder!ConsumeFails
<1>13. CASE Builder!Salvage
  BY <1>0, <1>a, <1>b, <1>c, <1>d, <1>13 DEF Builder!Salvage
<1>14. CASE Builder!SaveSnapshot
  BY <1>0, <1>a, <1>b, <1>c, <1>d, <1>14 DEF Builder!SaveSnapshot
<1>15. CASE Builder!ReviewClean
  BY <1>0, <1>a, <1>b, <1>c, <1>d, <1>15 DEF Builder!ReviewClean
<1>16. CASE Builder!StartPolish
  BY <1>0, <1>a, <1>b, <1>c, <1>d, <1>16 DEF Builder!StartPolish, Builder!Prompted
<1>17. CASE Builder!Destroy
  BY <1>0, <1>a, <1>b, <1>c, <1>d, <1>17 DEF Builder!Destroy
<1>18. CASE Builder!Finish
  BY <1>0, <1>a, <1>b, <1>c, <1>d, <1>18 DEF Builder!Finish
<1>19. CASE Builder!Crash
  BY <1>0, <1>a, <1>b, <1>c, <1>d, <1>19 DEF Builder!Crash
<1>20. CASE Builder!Reattach
  BY <1>0, <1>a, <1>b, <1>c, <1>d, <1>20 DEF Builder!Reattach, Builder!Reachable, Builder!Quiet, ChangesAssumption, BuilderTypes, IterationOK
<1>21. CASE Builder!ReapInterrupted
  BY <1>0, <1>a, <1>b, <1>c, <1>d, <1>21 DEF Builder!ReapInterrupted
<1>22. CASE Builder!Tick
  BY <1>0, <1>a, <1>b, <1>c, <1>d, <1>22 DEF Builder!Tick
<1>23. CASE Builder!Finalise
  BY <1>0, <1>a, <1>b, <1>c, <1>d, <1>23 DEF Builder!Finalise
<1>24. CASE Builder!Sweep
  BY <1>0, <1>a, <1>b, <1>c, <1>d, <1>24 DEF Builder!Sweep
<1>25. ASSUME NEW s \in Builder!Sessions, Builder!AgentEdits(s) \/ Builder!AgentDeploys(s) PROVE BuilderInv'
  BY <1>0, <1>a, <1>b, <1>c, <1>d, <1>25 DEF Builder!AgentEdits, Builder!AgentDeploys
<1>26. ASSUME NEW s \in Builder!Sessions, Builder!AgentEnds(s) PROVE BuilderInv'
  BY <1>0, <1>a, <1>b, <1>c, <1>d, <1>26 DEF Builder!AgentEnds
<1>27. CASE UNCHANGED builderVars
  BY <1>0, <1>27 DEF builderVars
<1> QED
  BY <1>1, <1>2, <1>3, <1>4, <1>5, <1>6, <1>7, <1>8, <1>9, <1>10, <1>11, <1>12, <1>13, <1>14, <1>15, <1>16, <1>17, <1>18, <1>19, <1>20, <1>21, <1>22, <1>23, <1>24, <1>25, <1>26, <1>27
     DEF Builder!Next, Builder!BuildStep, Builder!AgentStep, Builder!Recover

\* A build is finalised as a success only when no agent works in its machine any more, for any
\* number of builds, edits, restarts and losses and any limit of the watchdog (Attach,
\* consume, finalize).
THEOREM BuildsEndAfterAgents == ChangesSpec => []FinalisedAfterAgent
<1>1. ChangesInit => BuilderInv
  BY BuilderStart, ChangesAssumption DEF ChangesInit
<1>2. BuilderInv /\ [ChangesNext]_changesVars => BuilderInv'
  BY PartSteps, BuilderStep, ChangesAssumption
<1>3. BuilderInv => FinalisedAfterAgent
  BY DEF BuilderInv
<1> QED BY <1>1, <1>2, <1>3, PTL DEF ChangesSpec

-----------------------------------------------------------------------------
(* The material.  Its types; what a site lacks is offered; the ids under      *)
(* which pictures are drawn.                                                  *)

\* The types, a few variables at a time.
SetsOK == sets \in [Slots -> Material!CandidateSet \cup {Material!NoSet}]
CountOK == count \in Nat /\ saveFaults \in 0 .. MaxFaults
ItemsOK ==
  /\ assets \subseteq Material!Items /\ applied \subseteq assets /\ lost \subseteq assets
  /\ pass \in [on : BOOLEAN, listed : BOOLEAN, read : SUBSET assets]
  /\ picking \subseteq Slots \X (Pictures \cap assets) /\ marking \subseteq assets
\* The build under way will be counted.
BuildOK ==
  /\ used \in 0 .. MaxRebuilds /\ flag \in BOOLEAN
  /\ pass.on => used < MaxRebuilds
  /\ pass.listed => pass.on
ImageRequest == [pc : Material!Phases, slot : Slots, job : Pictures, outcome : {"", "running", "limit", "started"}]
RequestsOK ==
  /\ imageReq \in [Pictures -> ImageRequest]
  /\ fresh \subseteq Pictures
MaterialTypes == SetsOK /\ CountOK /\ ItemsOK /\ BuildOK /\ RequestsOK

LEMMA MaterialTyped == ASSUME MaterialTypes PROVE Material!TypeOK
  BY DEF MaterialTypes, SetsOK, CountOK, ItemsOK, BuildOK, RequestsOK, ImageRequest, Material!TypeOK

LEMMA MaterialTypesStart == ASSUME Material!Init PROVE MaterialTypes
<1>1. SetsOK
  BY DEF Material!Init, SetsOK
<1>2. CountOK
  <2>1. count = 0 /\ used = 0 /\ saveFaults = 0
    BY DEF Material!Init
  <2> QED BY <2>1, ChangesAssumption DEF CountOK
<1>3. ItemsOK
  BY Zenon DEF Material!Init, ItemsOK, Material!Idle
<1>4. RequestsOK
  <2>1. (CHOOSE s \in Slots : TRUE) \in Slots
    BY ChangesAssumption
  <2> QED BY <2>1 DEF Material!Init, RequestsOK, ImageRequest, Material!Phases
<1>5. BuildOK
  <2>1. used = 0 /\ pass.on = FALSE /\ pass.listed = FALSE
    BY DEF Material!Init, Material!Idle
  <2>2. flag \in BOOLEAN
    BY Zenon DEF Material!Init
  <2> QED BY <2>1, <2>2, ChangesAssumption DEF BuildOK
<1> QED BY <1>1, <1>2, <1>3, <1>4, <1>5 DEF MaterialTypes

LEMMA RequestMoved == ASSUME NEW x \in ImageRequest, NEW pc \in Material!Phases PROVE [x EXCEPT !.pc = pc] \in ImageRequest
  BY DEF ImageRequest
LEMMA RequestAsked ==
  ASSUME NEW x \in ImageRequest, NEW pc \in Material!Phases, NEW s \in Slots PROVE [x EXCEPT !.pc = pc, !.slot = s] \in ImageRequest
  BY DEF ImageRequest
LEMMA RequestAttempted ==
  ASSUME NEW x \in ImageRequest, NEW pc \in Material!Phases, NEW j \in Pictures, NEW outcome \in {"", "running", "limit", "started"}
  PROVE  [x EXCEPT !.pc = pc, !.job = j, !.outcome = outcome] \in ImageRequest
  BY DEF ImageRequest

LEMMA MaterialTypesKept == ASSUME MaterialTypes, [Material!Next]_materialVars PROVE MaterialTypes'
<1> USE DEF MaterialTypes
<1>1. SetsOK'
  <2> USE DEF SetsOK
  <2>0. ASSUME NEW s \in Slots, NEW c \in Material!CandidateSet \cup {Material!NoSet}, sets' = [sets EXCEPT ![s] = c] PROVE SetsOK'
    BY <2>0
  <2>1. ASSUME NEW r \in Pictures, Material!SaveReservation(r) \/ Material!SaveReservationUnseen(r) PROVE SetsOK'
    <3>1. [status |-> "running", job |-> imageReq[r].job, by |-> r, keys |-> {}] \in Material!CandidateSet /\ imageReq[r].slot \in Slots
      BY DEF RequestsOK, ImageRequest, Material!CandidateSet
    <3> QED BY <2>0, <2>1, <3>1 DEF Material!SaveReservation, Material!SaveReservationUnseen, Material!Reserved, Material!rowVars
  <2>2. ASSUME NEW r \in Pictures, Material!Complete(r) \/ Material!CompleteUnseen(r) PROVE SetsOK'
    <3>1. imageReq[r].slot \in Slots
      BY DEF RequestsOK, ImageRequest
    <3>2. ASSUME Material!Mine(r) PROVE [sets[imageReq[r].slot] EXCEPT !.status = "ready", !.keys = {r}] \in Material!CandidateSet
      <4>1. sets[imageReq[r].slot] \in Material!CandidateSet
        BY <3>1, <3>2 DEF Material!Mine, Material!NoSet
      <4> QED BY <4>1 DEF Material!CandidateSet
    <3> QED BY <2>0, <2>2, <3>1, <3>2 DEF Material!Complete, Material!CompleteUnseen, Material!Completed
  <2>3. ASSUME NEW s \in Slots, NEW j, Material!Failed(s, j) PROVE SetsOK'
    <3>1. sets[s].status # "none" => [sets[s] EXCEPT !.status = "failed"] \in Material!CandidateSet
      BY DEF Material!CandidateSet, Material!NoSet
    <3> QED BY <2>0, <2>3, <3>1 DEF Material!Failed
  <2>4. ASSUME NEW s \in Slots, NEW k, Material!PickSave(s, k) PROVE SetsOK'
    BY <2>0, <2>4 DEF Material!PickSave
  <2>5. CASE UNCHANGED sets
    BY <2>5
  <2>6. ASSUME NEW r \in Pictures, Material!JobStep(r) PROVE SetsOK'
    <3>1. imageReq[r].slot \in Slots
      BY DEF RequestsOK, ImageRequest
    <3> QED BY <2>1, <2>2, <2>3, <2>5, <2>6, <3>1 DEF Material!JobStep, Material!Generate, Material!Improve, Material!Attempt,
       Material!RetryReservation, Material!JobFails, Material!FailImageJob, Material!FailImageJobLost, Material!rowVars
  <2> QED
    BY <2>3, <2>4, <2>5, <2>6 DEF Material!Next, materialVars, Material!PollDeclaresDead, Material!PickImage, Material!Give,
       Material!MarkContentPending, Material!MarkLost, Material!Answer, Material!StartBuild, Material!ReadContent,
       Material!FinishBuild, Material!BuildFails, Material!Crash, Material!rowVars
<1>2. CountOK'
  <2>1. count' \in {count, count + 1} /\ (saveFaults' = saveFaults \/ Material!Fault)
    BY DEF Material!Next, materialVars, Material!JobStep, Material!Generate, Material!Improve, Material!Attempt,
     Material!RetryReservation, Material!JobFails, Material!FailImageJob, Material!FailImageJobLost, Material!rowVars,
     Material!SaveReservation, Material!SaveReservationUnseen, Material!Reserved, Material!Complete, Material!CompleteUnseen,
     Material!Completed, Material!Failed, Material!PickSave,
     Material!PollDeclaresDead, Material!PickImage, Material!Give,
     Material!MarkContentPending, Material!MarkLost, Material!Answer, Material!StartBuild, Material!ReadContent,
     Material!FinishBuild, Material!BuildFails, Material!Crash
  <2> QED BY <2>1, ChangesAssumption DEF CountOK, Material!Fault
<1>3. ItemsOK'
  <2> USE DEF ItemsOK
  <2>1. ASSUME NEW r \in Pictures, Material!JobStep(r) PROVE ItemsOK'
    BY <2>1 DEF Material!JobStep, Material!Generate, Material!Improve, Material!Attempt,
     Material!RetryReservation, Material!JobFails, Material!FailImageJob, Material!FailImageJobLost, Material!rowVars,
     Material!buildVars, Material!SaveReservation, Material!SaveReservationUnseen, Material!Reserved, Material!Complete,
     Material!CompleteUnseen, Material!Completed, Material!Failed
  <2>2. ASSUME NEW s \in Slots, Material!PollDeclaresDead(s) PROVE ItemsOK'
    BY <2>2 DEF Material!PollDeclaresDead, Material!Failed, Material!buildVars
  <2>3. ASSUME NEW s \in Slots, Material!PickImage(s) PROVE ItemsOK'
    BY <2>3 DEF Material!PickImage, Material!rowVars, Material!buildVars, SetsOK, Material!CandidateSet, Material!NoSet, Material!Items
  <2>4. ASSUME NEW s \in Slots, NEW k \in Pictures, Material!PickSave(s, k) PROVE ItemsOK'
    BY <2>4 DEF Material!PickSave, Material!Marked
  <2>5. ASSUME NEW i \in Uploads, Material!Give(i) PROVE ItemsOK'
    BY <2>5 DEF Material!Give, Material!New, Material!rowVars, Material!Items
  <2>6. ASSUME NEW i \in Uploads, Material!MarkContentPending(i) \/ Material!MarkLost(i) PROVE ItemsOK'
    BY <2>6 DEF Material!MarkContentPending, Material!MarkLost, Material!Marked, Material!rowVars
  <2>7. ASSUME NEW i \in Uploads, Material!Answer(i) PROVE ItemsOK'
    BY <2>7 DEF Material!Answer, Material!New, Material!Items
  <2>8. CASE Material!StartBuild
    BY <2>8 DEF Material!StartBuild, Material!Idle
  <2>9. CASE Material!ReadContent
    BY <2>9 DEF Material!ReadContent, Material!rowVars
  <2>13. CASE Material!FinishBuild
    BY <2>13 DEF Material!FinishBuild, Material!Idle
  <2>10. CASE Material!BuildFails
    BY <2>10 DEF Material!BuildFails, Material!Idle, Material!rowVars
  <2>11. CASE Material!Crash
    BY <2>11 DEF Material!Crash, Material!rowVars
  <2>12. CASE UNCHANGED materialVars
    BY <2>12 DEF materialVars
  <2> QED BY <2>1, <2>2, <2>3, <2>4, <2>5, <2>6, <2>7, <2>8, <2>9, <2>10, <2>11, <2>12, <2>13 DEF Material!Next
<1>4. RequestsOK'
  <2> USE DEF RequestsOK
  <2>0. ASSUME NEW r \in Pictures, fresh' \subseteq Pictures,
               NEW x \in ImageRequest,
               imageReq' = [imageReq EXCEPT ![r] = x]
        PROVE  RequestsOK'
    BY <2>0
  <2>1. ASSUME NEW r \in Pictures, NEW s \in Slots, UNCHANGED fresh,
               imageReq' = [imageReq EXCEPT ![r].pc = "reserving", ![r].slot = s] PROVE RequestsOK'
    <3>0. imageReq[r] \in ImageRequest /\ "reserving" \in Material!Phases
      BY DEF Material!Phases
    <3>1. [imageReq[r] EXCEPT !.pc = "reserving", !.slot = s] \in ImageRequest
      BY <3>0, RequestAsked
    <3>2. imageReq' = [imageReq EXCEPT ![r] = [imageReq[r] EXCEPT !.pc = "reserving", !.slot = s]]
      BY <2>1
    <3> QED BY <2>0, <2>1, <3>1, <3>2
  <2>2. ASSUME NEW r \in Pictures, Material!Attempt(r) PROVE RequestsOK'
    <3> DEFINE set == sets[imageReq[r].slot]
               job == IF set.status = "running" THEN set.job ELSE imageReq[r].job
               outcome == IF set.status = "running" THEN "running" ELSE IF Material!Exhausted THEN "limit" ELSE "started"
    <3>0. imageReq[r] \in ImageRequest /\ imageReq[r].slot \in Slots /\ imageReq[r].job \in Pictures
      BY DEF ImageRequest
    <3>1. set \in Material!CandidateSet \cup {Material!NoSet}
      BY <3>0 DEF SetsOK
    <3>2. job \in Pictures
      BY <3>0, <3>1 DEF Material!CandidateSet, Material!NoSet
    <3>3. outcome \in {"", "running", "limit", "started"}
      OBVIOUS
    <3>4. imageReq' = [imageReq EXCEPT ![r] = [imageReq[r] EXCEPT !.pc = "saving", !.job = job, !.outcome = outcome]]
      BY <2>2, <3>0 DEF Material!Attempt
    <3>5. fresh' \subseteq Pictures
      BY <2>2 DEF Material!Attempt
    <3> HIDE DEF set, job, outcome
    <3>6. [imageReq[r] EXCEPT !.pc = "saving", !.job = job, !.outcome = outcome] \in ImageRequest
      <4>1. "saving" \in Material!Phases
        BY DEF Material!Phases
      <4> QED BY <4>1, <3>0, <3>2, <3>3, RequestAttempted
    <3> QED BY <2>0, <3>4, <3>5, <3>6
  <2>3. ASSUME NEW r \in Pictures, NEW pc \in Material!Phases, Material!Move(r, pc), fresh' \subseteq fresh PROVE RequestsOK'
    <3>0. imageReq[r] \in ImageRequest
      OBVIOUS
    <3>1. [imageReq[r] EXCEPT !.pc = pc] \in ImageRequest
      BY <3>0, RequestMoved
    <3>2. imageReq' = [imageReq EXCEPT ![r] = [imageReq[r] EXCEPT !.pc = pc]]
      BY <2>3 DEF Material!Move
    <3> QED BY <2>0, <2>3, <3>1, <3>2
  <2>4. CASE Material!Crash
    <3>1. \A r \in Pictures : [imageReq[r] EXCEPT !.pc = "done"] \in ImageRequest
      <4>1. "done" \in Material!Phases
        BY DEF Material!Phases
      <4> QED BY <4>1, RequestMoved
    <3> QED BY <2>4, <3>1 DEF Material!Crash
  <2>5. CASE UNCHANGED imageReq /\ fresh' \subseteq fresh
    BY <2>5
  <2>6. ASSUME NEW r \in Pictures, Material!JobStep(r) PROVE RequestsOK'
    <3>1. {"drawing", "done", "failing", "reserving"} \subseteq Material!Phases
      BY DEF Material!Phases
    <3>4. ASSUME NEW q \in Pictures PROVE imageReq[q].slot \in Slots
      BY DEF ImageRequest
    <3>2. CASE Material!Generate(r) \/ Material!Improve(r)
      BY <2>1, <3>2, <3>4 DEF Material!Generate, Material!Improve
    <3>3. CASE \E pc \in {"drawing", "done", "failing", "reserving"} : Material!Move(r, pc) /\ fresh' \subseteq fresh
      BY <2>3, <3>1, <3>3
    <3> QED BY <2>2, <2>6, <3>2, <3>3 DEF Material!JobStep, Material!SaveReservation, Material!SaveReservationUnseen,
         Material!RetryReservation, Material!Complete, Material!CompleteUnseen, Material!Completed, Material!JobFails,
         Material!FailImageJob, Material!FailImageJobLost, Material!Failed, Material!Committed
  <2>7. CASE ~Material!Crash /\ ~(\E r \in Pictures : Material!JobStep(r))
    BY <2>5, <2>7 DEF Material!Next, materialVars, Material!PollDeclaresDead, Material!PickImage, Material!Give,
       Material!MarkContentPending, Material!MarkLost, Material!Answer, Material!StartBuild, Material!ReadContent,
       Material!FinishBuild, Material!BuildFails, Material!Failed, Material!PickSave, Material!Committed
  <2> QED BY <2>4, <2>6, <2>7
<1>5. BuildOK'
  <2> USE DEF BuildOK
  <2>1. CASE Material!StartBuild
    BY <2>1 DEF Material!StartBuild, Material!Idle
  <2>2. CASE Material!FinishBuild
    BY <2>2, ChangesAssumption DEF Material!FinishBuild, Material!Idle
  <2>3. CASE ~Material!StartBuild /\ ~Material!FinishBuild
    <3>1. used' = used /\ (flag' = flag \/ flag' = (flag \/ used > 0))
      BY <2>3 DEF Material!Next, materialVars, Material!JobStep, Material!Generate, Material!Improve, Material!Attempt,
       Material!RetryReservation, Material!JobFails, Material!FailImageJob, Material!FailImageJobLost, Material!rowVars,
       Material!SaveReservation, Material!SaveReservationUnseen, Material!Reserved, Material!Complete, Material!CompleteUnseen,
       Material!Completed, Material!Failed, Material!PickSave, Material!Marked,
       Material!PollDeclaresDead, Material!PickImage, Material!Give,
       Material!MarkContentPending, Material!MarkLost, Material!Answer, Material!ReadContent,
       Material!BuildFails, Material!Crash
    <3>2. (pass'.on => pass.on) /\ (pass'.listed => pass'.on)
      <4>1. \/ pass' = pass \/ (\E i : Material!New(i)) \/ pass' = Material!Idle \/ Material!ReadContent
        BY <2>3 DEF Material!Next, materialVars, Material!JobStep, Material!Generate, Material!Improve, Material!Attempt,
       Material!RetryReservation, Material!JobFails, Material!FailImageJob, Material!FailImageJobLost,
       Material!buildVars, Material!SaveReservation, Material!SaveReservationUnseen, Material!Complete, Material!CompleteUnseen,
       Material!PickSave, Material!PollDeclaresDead, Material!PickImage, Material!Give,
       Material!MarkContentPending, Material!MarkLost, Material!Answer, 
         Material!BuildFails, Material!Crash
      <4> QED BY <4>1 DEF ItemsOK, Material!New, Material!Idle, Material!ReadContent
    <3>3. flag' \in BOOLEAN
      BY <3>1
    <3> QED BY <3>1, <3>2, <3>3
  <2> QED BY <2>1, <2>2, <2>3
<1> QED BY <1>1, <1>2, <1>3, <1>4, <1>5

\* Content that was given and has not been picked up is in a build, marked for one, about to
\* be marked, or lost.
Picked == {p[2] : p \in picking}
Answered == (IF pass.on THEN pass.read ELSE applied) \cup marking \cup Picked \cup lost
Offered == (used > 0 \/ pass.listed) /\ (pass.on => pass.listed) /\ ~flag => assets \subseteq Answered

LEMMA OfferedStart == ASSUME Material!Init PROVE Offered
  BY DEF Material!Init, Material!Idle, Offered

\* What marking does to the flag, whichever handler marks.
LEMMA FlagIsSet == ASSUME NEW f, f = (flag \/ used > 0) PROVE (used > 0 => f) /\ (flag => f)
  BY Zenon

LEMMA OfferedKept == ASSUME MaterialTypes, Offered, [Material!Next]_materialVars PROVE Offered'
<1> USE DEF Offered, Answered
<1>0. /\ used \in Nat /\ (pass.listed => pass.on)
      /\ pass = [on |-> pass.on, listed |-> pass.listed, read |-> pass.read]
  BY ChangesAssumption DEF MaterialTypes, BuildOK, ItemsOK
<1>a. picking' = picking => Picked' = Picked
  BY DEF Picked
<1>1. ASSUME NEW r \in Pictures, Material!JobStep(r) PROVE Offered'
  BY <1>a, <1>1 DEF Material!JobStep, Material!Generate, Material!Improve, Material!Attempt,
     Material!RetryReservation, Material!JobFails, Material!FailImageJob, Material!FailImageJobLost, Material!rowVars,
     Material!buildVars, Material!SaveReservation, Material!SaveReservationUnseen, Material!Reserved, Material!Complete,
     Material!CompleteUnseen, Material!Completed, Material!Failed
<1>2. ASSUME NEW s \in Slots, Material!PollDeclaresDead(s) PROVE Offered'
  BY <1>a, <1>2 DEF Material!PollDeclaresDead, Material!Failed, Material!buildVars
<1>3. ASSUME NEW s \in Slots, Material!PickImage(s) PROVE Offered'
  <2>1. PICK k : assets' = assets \cup {k} /\ picking' = picking \cup {<<s, k>>}
    BY <1>3 DEF Material!PickImage
  <2>2. <<s, k>> \in picking' /\ <<s, k>>[2] = k
    BY <2>1
  <2>3. Picked \cup {k} \subseteq Picked'
    BY <2>1, <2>2, Zenon DEF Picked
  <2> QED BY <1>3, <2>1, <2>3 DEF Material!PickImage, Material!rowVars, Material!buildVars
<1>4. ASSUME NEW s \in Slots, NEW k \in Pictures, Material!PickSave(s, k) PROVE Offered'
  <2>1. \A p \in picking : p \in picking' \/ p = <<s, k>>
    BY <1>4 DEF Material!PickSave
  <2>2. <<s, k>>[2] = k
    OBVIOUS
  <2>3. Picked \subseteq Picked' \cup {k}
    BY <2>1, <2>2, Zenon DEF Picked
  <2>4. (used > 0 => flag') /\ (flag => flag')
    BY <1>4, FlagIsSet DEF Material!PickSave, Material!Marked
  <2> QED BY <1>0, <1>4, <2>3, <2>4 DEF Material!PickSave, Material!Marked
<1>5. ASSUME NEW i \in Uploads, Material!Give(i) PROVE Offered'
  BY <1>0, <1>a, <1>5 DEF Material!Give, Material!New, Material!rowVars
<1>6. ASSUME NEW i \in Uploads, Material!MarkContentPending(i) PROVE Offered'
  <2>1. (used > 0 => flag') /\ (flag => flag')
    BY <1>6, FlagIsSet DEF Material!MarkContentPending, Material!Marked
  <2> QED BY <1>0, <1>a, <1>6, <2>1 DEF Material!MarkContentPending, Material!Marked
<1>7. ASSUME NEW i \in Uploads, Material!MarkLost(i) PROVE Offered'
  BY <1>a, <1>7 DEF Material!MarkLost, Material!rowVars
<1>8. ASSUME NEW i \in Uploads, Material!Answer(i) PROVE Offered'
  <2>1. (used > 0 => flag') /\ (flag => flag')
    BY <1>8, FlagIsSet DEF Material!Answer
  <2> QED BY <1>0, <1>a, <1>8, <2>1 DEF Material!Answer, Material!New
<1>9. CASE Material!StartBuild
  BY <1>a, <1>9 DEF Material!StartBuild, Material!Idle
<1>10. CASE Material!ReadContent
  BY <1>a, <1>10 DEF Material!ReadContent, Material!rowVars
<1>11. CASE Material!FinishBuild
  BY <1>0, <1>a, <1>11 DEF Material!FinishBuild, Material!Idle
<1>12. CASE Material!BuildFails
  BY <1>0, <1>a, <1>12 DEF Material!BuildFails, Material!Idle, Material!rowVars
<1>13. CASE Material!Crash
  <2>1. lost' = lost \cup marking \cup Picked
    BY <1>13 DEF Material!Crash, Picked
  <2> QED BY <1>13, <2>1 DEF Material!Crash, Material!rowVars
<1>14. CASE UNCHANGED materialVars
  BY <1>a, <1>14 DEF materialVars
<1> QED BY <1>1, <1>2, <1>3, <1>4, <1>5, <1>6, <1>7, <1>8, <1>9, <1>10, <1>11, <1>12, <1>13, <1>14 DEF Material!Next

\* Content the site on show lacks is offered for a rebuild whatever uploads, labels, picks,
\* answers and builds overlap, for any number of them (markContentPending, runBuild).
THEOREM ContentIsOffered == ChangesSpec => []UnappliedIsOffered
<1>1. ChangesInit => MaterialTypes /\ Offered
  BY MaterialTypesStart, OfferedStart DEF ChangesInit
<1>2. MaterialTypes /\ Offered /\ [ChangesNext]_changesVars => (MaterialTypes /\ Offered)'
  BY PartSteps, MaterialTypesKept, OfferedKept
<1>3. Offered => UnappliedIsOffered
  BY DEF Offered, Answered, Picked, UnappliedIsOffered, Material!UnappliedIsOffered
<1> QED BY <1>1, <1>2, <1>3, PTL DEF ChangesSpec

-----------------------------------------------------------------------------
(* Who draws for which slot.  A repeated reservation keeps the id of the job  *)
(* it met: the id is always one its maker took for itself, for the same slot, *)
(* and that maker has stopped drawing before a second job runs under it.      *)

At(r) == imageReq[r].pc
Job(r) == imageReq[r].job
Slot(r) == imageReq[r].slot
Held(s) == sets[s].status # "none"
Through == {"drawing", "failing", "done"}

\* Request j has reserved slot s under its own id.
Taken(j, s) == j \in Pictures /\ Job(j) = j /\ Slot(j) = s /\ At(j) \in Through

JobsAreTaken == \A q \in Pictures : (Job(q) # q => Taken(Job(q), Slot(q))) /\ (At(q) = "idle" => Job(q) = q)
SetsHaveMakers ==
  \A s \in Slots : Held(s) =>
    /\ Taken(sets[s].job, s)
    /\ sets[s].by \in Pictures /\ Slot(sets[s].by) = s /\ At(sets[s].by) \in Through
    /\ sets[s].status = "running" => sets[s].keys = {}
OwnJobRuns ==
  \A r \in Pictures : At(r) = "drawing" /\ Job(r) = r => sets[Slot(r)].status = "running" /\ sets[Slot(r)].job = r
StartsFree ==
  \A r \in fresh : At(r) = "saving" /\ imageReq[r].outcome = "started" =>
    sets[Slot(r)].status # "running" /\ ~Material!Exhausted
LateIsOver ==
  \A r \in Pictures : At(r) \in {"drawing", "failing"} /\ Job(r) # r =>
    At(Job(r)) # "drawing" /\ ~(Held(Slot(r)) /\ sets[Slot(r)].by = Job(r))

JobIds == JobsAreTaken /\ SetsHaveMakers /\ OwnJobRuns /\ StartsFree /\ LateIsOver

LEMMA JobIdsStart == ASSUME Material!Init PROVE JobIds
  BY DEF Material!Init, Material!NoSet, JobIds, JobsAreTaken, SetsHaveMakers, OwnJobRuns, StartsFree, LateIsOver, At, Job, Slot, Held

\* The fields of a request.
LEMMA RequestFields ==
  ASSUME RequestsOK, NEW q \in Pictures
  PROVE  /\ imageReq[q] = [pc |-> At(q), slot |-> Slot(q), job |-> Job(q), outcome |-> imageReq[q].outcome]
         /\ Job(q) \in Pictures /\ Slot(q) \in Slots
<1>1. imageReq[q] \in ImageRequest
  BY DEF RequestsOK
<1> QED BY <1>1 DEF ImageRequest, At, Slot, Job

LEMMA AttemptedFields ==
  ASSUME NEW x \in ImageRequest, NEW job, NEW outcome
  PROVE  LET y == [x EXCEPT !.pc = "saving", !.job = job, !.outcome = outcome]
         IN  y.pc = "saving" /\ y.slot = x.slot /\ y.job = job /\ y.outcome = outcome
  BY DEF ImageRequest

\* What a request's step leaves alone.
LEMMA Moved ==
  ASSUME RequestsOK, NEW r \in Pictures, NEW pc, Material!Move(r, pc)
  PROVE  \A q \in Pictures : /\ Job(q)' = Job(q) /\ Slot(q)' = Slot(q) /\ imageReq'[q].outcome = imageReq[q].outcome
                             /\ At(q)' = IF q = r THEN pc ELSE At(q)
<1>1. \A q \in Pictures : imageReq[q] = [pc |-> At(q), slot |-> Slot(q), job |-> Job(q), outcome |-> imageReq[q].outcome]
  BY RequestFields
<1>2. \A q \in Pictures : imageReq'[q] = IF q = r THEN [imageReq[r] EXCEPT !.pc = pc] ELSE imageReq[q]
  BY DEF RequestsOK, Material!Move
<1> QED BY <1>1, <1>2 DEF Job, Slot, At

\* Every request and set is well typed.
LEMMA Ranges ==
  ASSUME MaterialTypes
  PROVE  /\ \A q \in Pictures : Job(q) \in Pictures /\ Slot(q) \in Slots
         /\ \A s \in Slots : Held(s) => sets[s] \in Material!CandidateSet
         /\ fresh \subseteq Pictures
<1>1. \A q \in Pictures : Job(q) \in Pictures /\ Slot(q) \in Slots
  BY RequestFields DEF MaterialTypes
<1>2. \A s \in Slots : Held(s) => sets[s] \in Material!CandidateSet
  BY DEF MaterialTypes, SetsOK, Held, Material!NoSet
<1> QED BY <1>1, <1>2 DEF MaterialTypes, RequestsOK

LEMMA JobIdsKept == ASSUME MaterialTypes, JobIds, [Material!Next]_materialVars PROVE JobIds'
<1> USE DEF JobIds
<1>0. /\ \A q \in Pictures : Job(q) \in Pictures /\ Slot(q) \in Slots
      /\ \A s \in Slots : Held(s) => sets[s] \in Material!CandidateSet
      /\ fresh \subseteq Pictures
      /\ RequestsOK /\ sets \in [Slots -> Material!CandidateSet \cup {Material!NoSet}]
      /\ \A q \in Pictures : imageReq[q] = [pc |-> At(q), slot |-> Slot(q), job |-> Job(q), outcome |-> imageReq[q].outcome]
      /\ imageReq = [q \in Pictures |-> imageReq[q]]
  BY Ranges, RequestFields DEF RequestsOK, MaterialTypes, SetsOK
\* A reservation begins.
<1>1. ASSUME NEW r \in Pictures, Material!Generate(r) \/ Material!Improve(r) PROVE JobIds'
  <2>1. At(r) = "idle" /\ UNCHANGED <<sets, fresh, count>>
    BY <1>1 DEF Material!Generate, Material!Improve, Material!rowVars, At
  <2>2. \A q \in Pictures : /\ Job(q)' = Job(q) /\ imageReq'[q].outcome = imageReq[q].outcome
                            /\ q # r => Slot(q)' = Slot(q) /\ At(q)' = At(q)
                            /\ q = r => At(q)' = "reserving"
    <3>1. PICK s : imageReq' = [imageReq EXCEPT ![r].pc = "reserving", ![r].slot = s]
      BY <1>1 DEF Material!Generate, Material!Improve
    <3>2. \A q \in Pictures : imageReq'[q] = IF q = r THEN [imageReq[r] EXCEPT !.pc = "reserving", !.slot = s] ELSE imageReq[q]
      BY <1>0, <3>1
    <3> QED BY <1>0, <3>2 DEF Job, Slot, At
  <2>3. \A j, s : Taken(j, s) => j # r /\ Taken(j, s)'
    BY <2>1, <2>2 DEF Taken, Through
  <2>4. JobsAreTaken'
    BY <1>0, <2>1, <2>2, <2>3 DEF JobsAreTaken
  <2>5. SetsHaveMakers'
    BY <1>0, <2>1, <2>2, <2>3 DEF SetsHaveMakers, Held, Through
  <2>6. OwnJobRuns'
    BY <1>0, <2>1, <2>2 DEF OwnJobRuns
  <2>8. StartsFree'
    BY <1>0, <2>1, <2>2 DEF StartsFree, Material!Exhausted
  <2>7. LateIsOver'
    BY <1>0, <2>1, <2>2, <2>3 DEF LateIsOver, JobsAreTaken, Held
  <2> QED BY <2>4, <2>5, <2>6, <2>7, <2>8
\* An attempt: the id of a running job is kept.
<1>2. ASSUME NEW r \in Pictures, Material!Attempt(r) PROVE JobIds'
  <2>1. At(r) = "reserving" /\ fresh' = fresh \cup {r} /\ UNCHANGED <<sets, count>>
    BY <1>2 DEF Material!Attempt, Material!rowVars, At
  <2> DEFINE set == sets[Slot(r)]
             job == IF set.status = "running" THEN set.job ELSE Job(r)
             outcome == IF set.status = "running" THEN "running" ELSE IF Material!Exhausted THEN "limit" ELSE "started"
  <2>a. imageReq' = [imageReq EXCEPT ![r].pc = "saving", ![r].job = job, ![r].outcome = outcome]
    BY <1>2 DEF Material!Attempt, Job, Slot
  <2>b. imageReq'[r] = [imageReq[r] EXCEPT !.pc = "saving", !.job = job, !.outcome = outcome]
        /\ \A q \in Pictures : q # r => imageReq'[q] = imageReq[q]
    <3> HIDE DEF job, outcome
    <3> QED BY <1>0, <2>a
  <2>c. imageReq[r] \in ImageRequest
    BY <1>0 DEF RequestsOK
  <2>d. /\ At(r)' = "saving" /\ Slot(r)' = Slot(r) /\ Job(r)' = job /\ imageReq'[r].outcome = outcome
    <3> HIDE DEF job, outcome
    <3> QED BY <2>b, <2>c, AttemptedFields DEF At, Slot, Job
  <2>2. \A q \in Pictures : /\ Slot(q)' = Slot(q)
                            /\ q # r => Job(q)' = Job(q) /\ At(q)' = At(q) /\ imageReq'[q].outcome = imageReq[q].outcome
    BY <2>b, <2>d DEF Job, Slot, At
  <2>3. /\ At(r)' = "saving"
        /\ Job(r)' = IF sets[Slot(r)].status = "running" THEN sets[Slot(r)].job ELSE Job(r)
        /\ imageReq'[r].outcome = "started" => sets[Slot(r)].status # "running" /\ ~Material!Exhausted
    BY <2>d
  <2> HIDE DEF set, job, outcome
  <2>4. \A j, s : Taken(j, s) => j # r /\ Taken(j, s)'
    BY <2>1, <2>2 DEF Taken, Through
  <2>5. JobsAreTaken'
    BY <1>0, <2>1, <2>2, <2>3, <2>4 DEF JobsAreTaken, SetsHaveMakers, Held
  <2>6. SetsHaveMakers'
    BY <1>0, <2>1, <2>2, <2>3, <2>4 DEF SetsHaveMakers, Held, Through
  <2>7. OwnJobRuns' /\ StartsFree'
    BY <1>0, <2>1, <2>2, <2>3 DEF OwnJobRuns, StartsFree, Material!Exhausted
  <2>8. LateIsOver'
    BY <1>0, <2>1, <2>2, <2>3, <2>4 DEF LateIsOver, JobsAreTaken, Held
  <2> QED BY <2>5, <2>6, <2>7, <2>8
\* The save: a started job takes a slot nobody draws for under an own id.
<1>3. ASSUME NEW r \in Pictures, Material!SaveReservation(r) \/ Material!SaveReservationUnseen(r) PROVE JobIds'
  <2>1. /\ At(r) = "saving" /\ r \in fresh /\ fresh' = {}
        /\ \E pc \in Through \ {"failing"} : Material!Move(r, pc) /\ (imageReq[r].outcome # "started" => pc = "done")
    BY <1>3 DEF Material!SaveReservation, Material!SaveReservationUnseen, Material!Committed, At, Through
  <2>2. PICK pc \in Through \ {"failing"} : Material!Move(r, pc) /\ (imageReq[r].outcome # "started" => pc = "done")
    BY <2>1
  <2>3. \A q \in Pictures : /\ Job(q)' = Job(q) /\ Slot(q)' = Slot(q)
                            /\ At(q)' = IF q = r THEN pc ELSE At(q)
    BY <1>0, <2>2, Moved
  <2>4. \A j, s : Taken(j, s) => j # r /\ Taken(j, s)'
    BY <2>1, <2>3 DEF Taken, Through
  <2>5. JobsAreTaken'
    BY <1>0, <2>1, <2>2, <2>3, <2>4 DEF JobsAreTaken, Through
  <2>6. StartsFree'
    BY <2>1 DEF StartsFree
  <2>7. CASE imageReq[r].outcome # "started"
    <3>1. sets' = sets /\ pc = "done"
      BY <1>3, <2>2, <2>7 DEF Material!SaveReservation, Material!SaveReservationUnseen, Material!Reserved, Material!rowVars
    <3>2. SetsHaveMakers'
      BY <1>0, <2>3, <2>4, <3>1 DEF SetsHaveMakers, Held, Through
    <3>3. OwnJobRuns' /\ LateIsOver'
      BY <1>0, <2>1, <2>3, <3>1 DEF OwnJobRuns, LateIsOver, Held
    <3> QED BY <2>5, <2>6, <3>2, <3>3
  <2>8. CASE imageReq[r].outcome = "started"
    <3>1. sets' = [sets EXCEPT ![Slot(r)] = [status |-> "running", job |-> Job(r), by |-> r, keys |-> {}]]
      BY <1>3, <2>8 DEF Material!SaveReservation, Material!SaveReservationUnseen, Material!Reserved, Slot, Job
    <3>2. sets[Slot(r)].status # "running"
      BY <2>1, <2>8 DEF StartsFree
    <3>3. \A s \in Slots : /\ s # Slot(r) => sets'[s] = sets[s]
                           /\ s = Slot(r) => sets'[s] = [status |-> "running", job |-> Job(r), by |-> r, keys |-> {}]
      BY <1>0, <3>1
    <3>4. Taken(Job(r), Slot(r))'
      BY <1>0, <2>2, <2>3, <2>4 DEF JobsAreTaken, Taken, Through
    <3>5. SetsHaveMakers'
      BY <1>0, <2>2, <2>3, <2>4, <3>3, <3>4 DEF SetsHaveMakers, Held, Through
    <3>6. \A q \in Pictures : At(q) = "drawing" /\ Job(q) = q => Slot(q) # Slot(r)
      BY <3>2 DEF OwnJobRuns
    <3>7. OwnJobRuns'
      BY <1>0, <2>2, <2>3, <3>3, <3>6 DEF OwnJobRuns
    <3>8. Job(r) # r => At(Job(r)) # "drawing" /\ Job(r) # r
      BY <1>0, <3>6 DEF JobsAreTaken, Taken
    <3>9. \A q \in Pictures : Job(q) # q => Job(q) # r
      BY <1>0, <2>1 DEF JobsAreTaken, Taken, Through
    <3>10. LateIsOver'
      BY <1>0, <2>2, <2>3, <3>3, <3>8, <3>9 DEF LateIsOver, Held
    <3> QED BY <2>5, <2>6, <3>5, <3>7, <3>10
  <2> QED BY <2>7, <2>8
\* Only the request moves.
<1>4. ASSUME NEW r \in Pictures, NEW pc \in {"reserving", "failing", "done"}, Material!Move(r, pc), UNCHANGED <<sets, fresh, count>>,
             At(r) \in Through => pc \in Through, pc = "failing" => At(r) = "drawing"
      PROVE  JobIds'
  <2>1. \A q \in Pictures : /\ Job(q)' = Job(q) /\ Slot(q)' = Slot(q) /\ imageReq'[q].outcome = imageReq[q].outcome
                            /\ At(q)' = IF q = r THEN pc ELSE At(q)
    BY <1>0, <1>4, Moved
  <2>2. \A j, s : Taken(j, s) => Taken(j, s)'
    BY <1>4, <2>1 DEF Taken, Through
  <2>3. JobsAreTaken' /\ SetsHaveMakers'
    BY <1>0, <1>4, <2>1, <2>2 DEF JobsAreTaken, SetsHaveMakers, Held, Through
  <2>4. OwnJobRuns'
    BY <1>0, <1>4, <2>1 DEF OwnJobRuns
  <2>5. StartsFree'
    BY <1>0, <1>4, <2>1 DEF StartsFree, Material!Exhausted
  <2>6. LateIsOver'
    BY <1>0, <1>4, <2>1 DEF LateIsOver, Held
  <2> QED BY <2>3, <2>4, <2>5, <2>6
<1>a. ASSUME NEW r \in Pictures, Material!RetryReservation(r) \/ Material!JobFails(r) \/ Material!FailImageJobLost(r) PROVE JobIds'
  <2>1. CASE Material!RetryReservation(r)
    <3>1. Material!Move(r, "reserving") /\ At(r) = "saving" /\ UNCHANGED <<sets, fresh, count>>
      BY <2>1 DEF Material!RetryReservation, Material!rowVars, At
    <3>2. At(r) \in Through => "reserving" \in Through
      BY <3>1 DEF Through
    <3> QED BY <1>4, <3>1, <3>2
  <2>2. CASE Material!JobFails(r)
    <3>1. Material!Move(r, "failing") /\ At(r) = "drawing" /\ UNCHANGED <<sets, fresh, count>>
      BY <2>2 DEF Material!JobFails, Material!rowVars, At
    <3>2. At(r) \in Through => "failing" \in Through
      BY <3>1 DEF Through
    <3> QED BY <1>4, <3>1, <3>2
  <2>3. CASE Material!FailImageJobLost(r)
    <3>1. Material!Move(r, "done") /\ At(r) = "failing" /\ UNCHANGED <<sets, fresh, count>>
      BY <2>3 DEF Material!FailImageJobLost, Material!rowVars, At
    <3>2. At(r) \in Through => "done" \in Through
      BY <3>1 DEF Through
    <3> QED BY <1>4, <3>1, <3>2
  <2> QED BY <1>a, <2>1, <2>2, <2>3
\* A job ends: nobody with an own id draws for its slot, unless the job is its own.
<1>5. ASSUME NEW r \in Pictures, At(r) \in {"drawing", "failing"}, NEW pc \in {"failing", "done"}, Material!Move(r, pc),
             fresh' = {}, NEW c, (sets' = [sets EXCEPT ![Slot(r)] = c] /\ sets[Slot(r)].job = Job(r) /\ Held(Slot(r))) \/ sets' = sets,
             c.job = sets[Slot(r)].job, c.by = sets[Slot(r)].by, c.status \in {"ready", "failed"}
      PROVE  JobIds'
  <2>1. \A q \in Pictures : /\ Job(q)' = Job(q) /\ Slot(q)' = Slot(q)
                            /\ At(q)' = IF q = r THEN pc ELSE At(q)
    BY <1>0, <1>5, Moved
  <2>2. \A j, s : Taken(j, s) => Taken(j, s)'
    BY <1>5, <2>1 DEF Taken, Through
  <2>3. \A s \in Slots : /\ Held(s)' => Held(s) /\ sets'[s].job = sets[s].job /\ sets'[s].by = sets[s].by
                         /\ sets'[s].status = "running" => sets'[s] = sets[s]
                         /\ sets'[s] # sets[s] => s = Slot(r) /\ sets[s].job = Job(r) /\ Held(s)
    BY <1>0, <1>5 DEF Held
  <2>4. JobsAreTaken' /\ SetsHaveMakers'
    BY <1>0, <1>5, <2>1, <2>2, <2>3 DEF JobsAreTaken, SetsHaveMakers, Held, Through
  <2>5. OwnJobRuns'
    BY <1>0, <1>5, <2>1, <2>3 DEF OwnJobRuns, LateIsOver, Held
  <2>6. StartsFree' /\ LateIsOver'
    BY <1>0, <1>5, <2>1, <2>3 DEF StartsFree, LateIsOver
  <2> QED BY <2>4, <2>5, <2>6
<1>6. ASSUME NEW r \in Pictures, Material!Complete(r) \/ Material!CompleteUnseen(r) \/ Material!FailImageJob(r) PROVE JobIds'
  <2>1. /\ At(r) \in {"drawing", "failing"} /\ fresh' = {}
        /\ Material!Move(r, "failing") \/ Material!Move(r, "done")
    BY <1>6 DEF Material!Complete, Material!CompleteUnseen, Material!Completed, Material!FailImageJob, Material!Failed,
       Material!Committed, At
  <2>2. CASE sets' = sets
    <3>1. \E c : c.job = sets[Slot(r)].job /\ c.by = sets[Slot(r)].by /\ c.status \in {"ready", "failed"}
      <4>1. WITNESS [job |-> sets[Slot(r)].job, by |-> sets[Slot(r)].by, status |-> "ready"]
      <4> QED OBVIOUS
    <3> QED BY <1>5, <2>1, <2>2, <3>1
  <2>3. ASSUME NEW s \in Slots, s = Slot(r), Held(s), sets[s].job = Job(r),
               NEW c \in {[sets[s] EXCEPT !.status = "ready", !.keys = {r}], [sets[s] EXCEPT !.status = "failed"]},
               sets' = [sets EXCEPT ![s] = c]
        PROVE  JobIds'
    <3>1. c.job = sets[s].job /\ c.by = sets[s].by /\ c.status \in {"ready", "failed"}
      BY <1>0, <2>3 DEF Material!CandidateSet
    <3> QED BY <1>5, <2>1, <2>3, <3>1
  <2> QED
    BY <1>0, <1>6, <2>2, <2>3 DEF Material!Complete, Material!CompleteUnseen, Material!Completed, Material!Mine, Material!FailImageJob,
       Material!Failed, Held, Slot, Job
\* The poll gives up a slot for which nobody draws, a pick empties one that no longer runs.
<1>7. ASSUME NEW s \in Slots, Material!PollDeclaresDead(s) \/ (\E k \in Pictures : Material!PickSave(s, k)) PROVE JobIds'
  <2>1. /\ imageReq' = imageReq /\ fresh' = {}
        /\ \A z \in Slots : z # s => sets'[z] = sets[z]
    BY <1>0, <1>7 DEF Material!PollDeclaresDead, Material!PickSave, Material!Failed, Material!Committed
  <2>2. \A q \in Pictures : At(q) = "drawing" /\ Job(q) = q => sets'[Slot(q)] = sets[Slot(q)]
    <3>1. CASE Material!PollDeclaresDead(s)
      BY <1>0, <2>1, <3>1 DEF Material!PollDeclaresDead, At, Slot
    <3>2. ASSUME NEW k \in Pictures, Material!PickSave(s, k), sets[s].status = "running" PROVE sets' = sets
      BY <3>2 DEF Material!PickSave, SetsHaveMakers, Held
    <3> QED BY <1>0, <1>7, <2>1, <3>1, <3>2 DEF OwnJobRuns
  <2>3. Held(s)' => Held(s) /\ sets'[s].job = sets[s].job /\ sets'[s].by = sets[s].by /\ (sets'[s].status = "running" => sets'[s] = sets[s])
    <3>1. CASE Material!PollDeclaresDead(s)
      <4>1. sets' = sets \/ (sets' = [sets EXCEPT ![s].status = "failed"] /\ Held(s))
        BY <3>1 DEF Material!PollDeclaresDead, Material!Failed, Held
      <4>2. Held(s) => sets[s] = [status |-> sets[s].status, job |-> sets[s].job, by |-> sets[s].by, keys |-> sets[s].keys]
        BY <1>0 DEF Material!CandidateSet
      <4> QED BY <1>0, <4>1, <4>2 DEF Held
    <3>2. ASSUME NEW k \in Pictures, Material!PickSave(s, k)
          PROVE  Held(s)' => sets' = sets
      BY <1>0, <3>2 DEF Material!PickSave, Held, Material!NoSet
    <3> QED BY <1>7, <3>1, <3>2 DEF Held
  <2>4. \A q \in Pictures : At(q)' = At(q) /\ Job(q)' = Job(q) /\ Slot(q)' = Slot(q)
    BY <2>1 DEF At, Job, Slot
  <2>5. JobsAreTaken' /\ SetsHaveMakers'
    BY <1>0, <2>1, <2>3, <2>4 DEF JobsAreTaken, SetsHaveMakers, Held, Taken
  <2>6. OwnJobRuns' /\ StartsFree' /\ LateIsOver'
    BY <1>0, <2>1, <2>2, <2>3, <2>4 DEF OwnJobRuns, StartsFree, LateIsOver, Held
  <2> QED BY <2>5, <2>6
\* A restart ends every request.
<1>8. CASE Material!Crash
  <2>1. sets' = sets /\ fresh' = {}
    BY <1>8 DEF Material!Crash, Material!rowVars
  <2>2. \A q \in Pictures : /\ Job(q)' = Job(q) /\ Slot(q)' = Slot(q)
                            /\ At(q)' = IF At(q) = "idle" THEN At(q) ELSE "done"
    <3>1. \A q \in Pictures : imageReq'[q] = IF At(q) = "idle" THEN imageReq[q] ELSE [imageReq[q] EXCEPT !.pc = "done"]
      BY <1>8 DEF Material!Crash, At
    <3> QED BY <1>0, <3>1 DEF Job, Slot, At
  <2>3. \A j, s : Taken(j, s) => Taken(j, s)'
    BY <2>2 DEF Taken, Through
  <2>4. JobsAreTaken' /\ SetsHaveMakers'
    BY <1>0, <2>1, <2>2, <2>3 DEF JobsAreTaken, SetsHaveMakers, Held, Through
  <2>5. OwnJobRuns' /\ StartsFree' /\ LateIsOver'
    BY <1>0, <2>1, <2>2 DEF OwnJobRuns, StartsFree, LateIsOver
  <2> QED BY <2>4, <2>5
<1>9. CASE UNCHANGED <<imageReq, sets, count>> /\ fresh' \subseteq fresh
  BY <1>9 DEF JobsAreTaken, SetsHaveMakers, OwnJobRuns, StartsFree, LateIsOver, Taken, At, Job, Slot, Held, Material!Exhausted
<1>10. CASE ~(\E r \in Pictures : Material!JobStep(r)) /\ ~Material!Crash
            /\ ~(\E s \in Slots : Material!PollDeclaresDead(s) \/ (\E k \in Pictures : Material!PickSave(s, k)))
  <2>1. UNCHANGED <<imageReq, sets, count>> /\ fresh' \subseteq fresh
    BY <1>10 DEF Material!Next, materialVars, Material!PickImage, Material!Give,
       Material!MarkContentPending, Material!MarkLost, Material!Answer, Material!StartBuild, Material!ReadContent,
       Material!FinishBuild, Material!BuildFails, Material!Committed, Material!rowVars
  <2> QED BY <1>9, <2>1
<1> QED BY <1>1, <1>2, <1>3, <1>a, <1>6, <1>7, <1>8, <1>10 DEF Material!JobStep

LEMMA SameCardinality == \A S : Material!Cardinality(S) = Cardinality(S)
  BY DEF Material!Cardinality, Cardinality

\* What has been paid for: what draws, was picked, or is offered.
PaidFor(q) == At(q) \in {"drawing", "failing"} \/ q \in assets \/ (\E s \in Slots : Held(s) /\ q \in sets[s].keys)

LEMMA PaidIs == Material!Paid = {q \in Pictures : PaidFor(q)}
  BY DEF Material!Paid, Material!Drawing, PaidFor, At, Held

Charged == (MaxImages > 0 => count <= MaxImages) /\ Cardinality({q \in Pictures : PaidFor(q)}) <= count

LEMMA ChargedStart == ASSUME Material!Init PROVE Charged
<1>1. {q \in Pictures : PaidFor(q)} = {} /\ count = 0
  BY DEF Material!Init, PaidFor, At, Held, Material!NoSet
<1> QED BY <1>1, FS_EmptySet, ChangesAssumption DEF Charged

\* Only a reservation that the allowance has room for lets more be paid for, and it counts.
LEMMA PaidGrows ==
  ASSUME MaterialTypes, JobIds, [Material!Next]_materialVars
  PROVE  \/ count' = count /\ \A q \in Pictures : PaidFor(q)' => PaidFor(q)
         \/ \E r \in Pictures : count' = count + 1 /\ ~Material!Exhausted /\ \A q \in Pictures : PaidFor(q)' => PaidFor(q) \/ q = r
<1> DEFINE Goal == \/ count' = count /\ \A q \in Pictures : PaidFor(q)' => PaidFor(q)
                   \/ \E r \in Pictures : count' = count + 1 /\ ~Material!Exhausted /\ \A q \in Pictures : PaidFor(q)' => PaidFor(q) \/ q = r
<1>0. /\ \A q \in Pictures : Job(q) \in Pictures /\ Slot(q) \in Slots
      /\ \A s \in Slots : Held(s) => sets[s] \in Material!CandidateSet
      /\ RequestsOK /\ sets \in [Slots -> Material!CandidateSet \cup {Material!NoSet}]
  BY Ranges DEF MaterialTypes, SetsOK
<1>1. ASSUME NEW r \in Pictures, Material!SaveReservation(r) \/ Material!SaveReservationUnseen(r) PROVE Goal
  <2>1. PICK pc \in {"drawing", "done"} : Material!Move(r, pc) /\ (imageReq[r].outcome # "started" => pc = "done")
    BY <1>1 DEF Material!SaveReservation, Material!SaveReservationUnseen
  <2>2. \A q \in Pictures : At(q)' = IF q = r THEN pc ELSE At(q)
    BY <1>0, <2>1, Moved
  <2>3. assets' = assets
    BY <1>1 DEF Material!SaveReservation, Material!SaveReservationUnseen
  <2>4. CASE imageReq[r].outcome # "started"
    <3>1. sets' = sets /\ count' = count /\ pc = "done"
      BY <1>1, <2>1, <2>4 DEF Material!SaveReservation, Material!SaveReservationUnseen, Material!Reserved, Material!rowVars
    <3> QED BY <2>2, <2>3, <3>1 DEF PaidFor, Held
  <2>5. CASE imageReq[r].outcome = "started"
    <3>1. sets' = [sets EXCEPT ![Slot(r)] = [status |-> "running", job |-> Job(r), by |-> r, keys |-> {}]] /\ count' = count + 1
      BY <1>1, <2>5 DEF Material!SaveReservation, Material!SaveReservationUnseen, Material!Reserved, Slot, Job
    <3>2. ~Material!Exhausted
      BY <1>1, <2>5 DEF JobIds, StartsFree, At, Material!SaveReservation, Material!SaveReservationUnseen
    <3>3. \A s \in Slots : s # Slot(r) => sets'[s] = sets[s]
      BY <1>0, <3>1
    <3>4. sets'[Slot(r)].keys = {}
      BY <1>0, <3>1
    <3>5. \A q \in Pictures : PaidFor(q)' => PaidFor(q) \/ q = r
      BY <2>2, <2>3, <3>3, <3>4 DEF PaidFor, Held
    <3> QED BY <3>1, <3>2, <3>5
  <2> QED BY <2>4, <2>5
<1>2. ASSUME NEW r \in Pictures, Material!Complete(r) \/ Material!CompleteUnseen(r) \/ Material!FailImageJob(r) PROVE Goal
  <2>1. /\ At(r) \in {"drawing", "failing"} /\ count' = count /\ assets' = assets
        /\ Material!Move(r, "failing") \/ Material!Move(r, "done")
    BY <1>2 DEF Material!Complete, Material!CompleteUnseen, Material!Completed, Material!FailImageJob, Material!Failed, At
  <2>2. \A q \in Pictures : At(q)' \in {"drawing", "failing"} => At(q) \in {"drawing", "failing"}
    BY <1>0, <2>1, Moved
  <2>3. \A s \in Slots, q \in Pictures : Held(s)' /\ q \in sets'[s].keys => q = r \/ (Held(s) /\ q \in sets[s].keys)
    <3>1. CASE sets' = sets
      BY <3>1 DEF Held
    <3>2. ASSUME Held(Slot(r)), sets' = [sets EXCEPT ![Slot(r)] = [@ EXCEPT !.status = "ready", !.keys = {r}]]
          PROVE  \A s \in Slots, q \in Pictures : Held(s)' /\ q \in sets'[s].keys => q = r \/ (Held(s) /\ q \in sets[s].keys)
      <4>1. [sets[Slot(r)] EXCEPT !.status = "ready", !.keys = {r}].keys = {r}
        BY <1>0, <3>2 DEF Material!CandidateSet
      <4>2. sets'[Slot(r)].keys = {r} /\ \A s \in Slots : s # Slot(r) => sets'[s] = sets[s]
        BY <1>0, <3>2, <4>1
      <4>3. ASSUME NEW s \in Slots, NEW q \in Pictures, q \in sets'[s].keys, Held(s)' PROVE q = r \/ (Held(s) /\ q \in sets[s].keys)
        <5>1. CASE s = Slot(r)
          BY <4>2, <4>3, <5>1
        <5>2. CASE s # Slot(r)
          BY <4>2, <4>3, <5>2 DEF Held
        <5> QED BY <5>1, <5>2
      <4> QED BY <4>3
    <3>3. ASSUME Held(Slot(r)), sets' = [sets EXCEPT ![Slot(r)].status = "failed"]
          PROVE  \A s \in Slots, q \in Pictures : Held(s)' /\ q \in sets'[s].keys => q = r \/ (Held(s) /\ q \in sets[s].keys)
      <4>1. [sets[Slot(r)] EXCEPT !.status = "failed"].keys = sets[Slot(r)].keys
        BY <1>0, <3>3 DEF Material!CandidateSet
      <4>2. sets'[Slot(r)].keys = sets[Slot(r)].keys /\ \A s \in Slots : s # Slot(r) => sets'[s] = sets[s]
        BY <1>0, <3>3, <4>1
      <4> QED BY <3>3, <4>2 DEF Held
    <3> QED BY <1>0, <1>2, <3>1, <3>2, <3>3 DEF Material!Complete, Material!CompleteUnseen, Material!Completed, Material!Mine,
            Material!FailImageJob, Material!Failed, Held, Slot
  <2> QED BY <2>1, <2>2, <2>3 DEF PaidFor
<1>3. ASSUME NEW s \in Slots, Material!PollDeclaresDead(s) PROVE Goal
  <2>1. /\ count' = count /\ assets' = assets /\ imageReq' = imageReq
        /\ sets' = sets \/ (sets' = [sets EXCEPT ![s].status = "failed"] /\ Held(s))
    BY <1>3 DEF Material!PollDeclaresDead, Material!Failed, Held
  <2>2. Held(s) => [sets[s] EXCEPT !.status = "failed"].keys = sets[s].keys
    BY <1>0 DEF Material!CandidateSet
  <2>3. \A z \in Slots : Held(z)' => Held(z) /\ sets'[z].keys = sets[z].keys
    BY <1>0, <2>1, <2>2 DEF Held
  <2> QED BY <2>1, <2>3 DEF PaidFor, At
<1>4. ASSUME NEW s \in Slots, NEW k \in Pictures, Material!PickSave(s, k) PROVE Goal
  <2>1. /\ count' = count /\ assets' = assets /\ imageReq' = imageReq
        /\ \A z \in Slots : Held(z)' => sets'[z] = sets[z]
    BY <1>0, <1>4 DEF Material!PickSave, Held, Material!NoSet
  <2> QED BY <2>1 DEF PaidFor, At, Held
<1>5. ASSUME NEW s \in Slots, Material!PickImage(s) PROVE Goal
  <2>1. Held(s) /\ UNCHANGED <<sets, count, imageReq>> /\ \E k \in sets[s].keys : assets' = assets \cup {k}
    BY <1>5 DEF Material!PickImage, Held, Material!rowVars
  <2> QED BY <2>1 DEF PaidFor, At, Held
<1>6. CASE Material!Crash
  <2>1. UNCHANGED <<sets, count, assets>>
    BY <1>6 DEF Material!Crash, Material!rowVars
  <2>2. \A q \in Pictures : imageReq'[q] = IF At(q) = "idle" THEN imageReq[q] ELSE [imageReq[q] EXCEPT !.pc = "done"]
    BY <1>6 DEF Material!Crash, At
  <2>3. \A q \in Pictures : imageReq[q] \in ImageRequest
    BY <1>0 DEF RequestsOK
  <2>4. \A q \in Pictures : At(q)' \in {"drawing", "failing"} => At(q) \in {"drawing", "failing"}
    BY <2>2, <2>3 DEF At, ImageRequest
  <2> QED BY <2>1, <2>4 DEF PaidFor, Held
\* The other steps of a request pay for nothing.
<1>7. ASSUME NEW r \in Pictures, Material!Generate(r) \/ Material!Improve(r) \/ Material!Attempt(r) PROVE Goal
  <2>1. UNCHANGED <<sets, count, assets>>
    BY <1>7 DEF Material!Generate, Material!Improve, Material!Attempt, Material!rowVars
  <2>2. \A q \in Pictures : imageReq[q] \in ImageRequest
    BY <1>0 DEF RequestsOK
  <2>3. At(r)' \in {"reserving", "saving"} /\ \A q \in Pictures : q # r => At(q)' = At(q)
    <3>1. CASE Material!Generate(r) \/ Material!Improve(r)
      <4>1. PICK z : imageReq' = [imageReq EXCEPT ![r].pc = "reserving", ![r].slot = z]
        BY <3>1 DEF Material!Generate, Material!Improve
      <4>2. imageReq'[r] = [imageReq[r] EXCEPT !.pc = "reserving", !.slot = z] /\ \A q \in Pictures : q # r => imageReq'[q] = imageReq[q]
        BY <1>0, <4>1 DEF RequestsOK
      <4>3. imageReq'[r].pc = "reserving"
        BY <2>2, <4>2 DEF ImageRequest
      <4> QED BY <4>2, <4>3 DEF At
    <3>2. CASE Material!Attempt(r)
      <4>1. PICK j, o : imageReq' = [imageReq EXCEPT ![r].pc = "saving", ![r].job = j, ![r].outcome = o]
        BY <3>2 DEF Material!Attempt
      <4>2. imageReq'[r] = [imageReq[r] EXCEPT !.pc = "saving", !.job = j, !.outcome = o] /\ \A q \in Pictures : q # r => imageReq'[q] = imageReq[q]
        BY <1>0, <4>1 DEF RequestsOK
      <4>3. imageReq'[r].pc = "saving"
        BY <2>2, <4>2, AttemptedFields
      <4> QED BY <4>2, <4>3 DEF At
    <3> QED BY <1>7, <3>1, <3>2
  <2> QED BY <2>1, <2>3 DEF PaidFor, Held
<1>8. ASSUME NEW r \in Pictures, Material!RetryReservation(r) \/ Material!JobFails(r) \/ Material!FailImageJobLost(r) PROVE Goal
  <2>1. /\ UNCHANGED <<sets, count, assets>>
        /\ Material!Move(r, "reserving") \/ (Material!Move(r, "failing") /\ At(r) = "drawing") \/ Material!Move(r, "done")
    <3>1. CASE Material!RetryReservation(r)
      BY <3>1 DEF Material!RetryReservation, Material!rowVars
    <3>2. CASE Material!JobFails(r)
      BY <3>2 DEF Material!JobFails, Material!rowVars, At
    <3>3. CASE Material!FailImageJobLost(r)
      BY <3>3 DEF Material!FailImageJobLost, Material!rowVars
    <3> QED BY <1>8, <3>1, <3>2, <3>3
  <2>2. \A q \in Pictures : At(q)' \in {"drawing", "failing"} => At(q) \in {"drawing", "failing"}
    BY <1>0, <2>1, Moved
  <2> QED BY <2>1, <2>2 DEF PaidFor, Held
\* Uploads and answers are no pictures.
<1>9. CASE UNCHANGED <<imageReq, sets, count>> /\ \A q \in Pictures : q \in assets' => q \in assets
  BY <1>9 DEF PaidFor, At, Held
<1>10. CASE ~(\E r \in Pictures : Material!JobStep(r)) /\ ~Material!Crash
            /\ ~(\E s \in Slots : Material!PollDeclaresDead(s) \/ Material!PickImage(s) \/ (\E k \in Pictures : Material!PickSave(s, k)))
  <2>1. UNCHANGED <<imageReq, sets, count>> /\ \A q \in Pictures : q \in assets' => q \in assets
    BY <1>10, ChangesAssumption DEF Material!Next, materialVars, Material!Give, Material!New,
       Material!MarkContentPending, Material!MarkLost, Material!Answer, Material!StartBuild, Material!ReadContent,
       Material!FinishBuild, Material!BuildFails, Material!rowVars
  <2> QED BY <1>9, <2>1
<1> QED BY <1>1, <1>2, <1>3, <1>4, <1>5, <1>6, <1>7, <1>8, <1>10 DEF Material!JobStep

LEMMA ChargedKept == ASSUME MaterialTypes, JobIds, Charged, [Material!Next]_materialVars PROVE Charged'
<1> DEFINE Bill == {q \in Pictures : PaidFor(q)}
<1>0. IsFiniteSet(Bill) /\ IsFiniteSet(Bill') /\ count \in Nat /\ MaxImages \in Nat
  BY FS_Subset, ChangesAssumption DEF MaterialTypes, CountOK
<1>1. CASE count' = count /\ Bill' \subseteq Bill
  BY <1>0, <1>1, FS_Subset, FS_CardinalityType DEF Charged
<1>2. ASSUME NEW r \in Pictures, count' = count + 1, ~Material!Exhausted, Bill' \subseteq Bill \cup {r} PROVE Charged'
  <2>1. IsFiniteSet(Bill \cup {r}) /\ Cardinality(Bill \cup {r}) <= Cardinality(Bill) + 1 /\ Cardinality(Bill) \in Nat
    <3>1. /\ IsFiniteSet(Bill \cup {r})
          /\ Cardinality(Bill \cup {r}) = IF r \in Bill THEN Cardinality(Bill) ELSE Cardinality(Bill) + 1
      BY <1>0, FS_AddElement
    <3>2. Cardinality(Bill) \in Nat
      BY <1>0, FS_CardinalityType
    <3> QED BY <3>1, <3>2
  <2>2. Cardinality(Bill') <= Cardinality(Bill \cup {r}) /\ Cardinality(Bill') \in Nat /\ Cardinality(Bill \cup {r}) \in Nat
    BY <1>0, <1>2, <2>1, FS_Subset, FS_CardinalityType
  <2>3. Cardinality(Bill') <= count'
    BY <1>0, <1>2, <2>1, <2>2 DEF Charged
  <2>4. MaxImages > 0 => count' <= MaxImages
    BY <1>0, <1>2 DEF Charged, Material!Exhausted
  <2> QED BY <2>3, <2>4 DEF Charged
<1> QED BY <1>1, <1>2, PaidGrows

\* Every call of the paid API was charged, the allowance is not exceeded and two jobs that
\* run under ids of their own never draw for one slot, for any number of requests, slots,
\* conflicting saves and crashes (reserveImageJob).
THEOREM AllowanceHolds == ChangesSpec => []AllowanceKept
<1> DEFINE Inv == MaterialTypes /\ JobIds /\ Charged
<1>1. ChangesInit => Inv
  BY MaterialTypesStart, JobIdsStart, ChargedStart DEF ChangesInit
<1>2. Inv /\ [ChangesNext]_changesVars => Inv'
  BY PartSteps, MaterialTypesKept, JobIdsKept, ChargedKept
<1>3. Inv => AllowanceKept
  <2> SUFFICES ASSUME Inv PROVE AllowanceKept
    OBVIOUS
  <2>1. ASSUME NEW q \in Pictures, NEW r \in Pictures, Material!OwnId(q), Material!OwnId(r) PROVE ~Material!Rivals(q, r)
    BY <2>1 DEF JobIds, OwnJobRuns, Material!OwnId, Material!Rivals, At, Job, Slot
  <2> QED BY <2>1, PaidIs, SameCardinality DEF AllowanceKept, Material!AllowanceKept, Charged
<1> QED BY <1>1, <1>2, <1>3, PTL DEF ChangesSpec

\* A set that leaves its slot or changes.
LEMMA SetLeaves ==
  ASSUME MaterialTypes, JobIds, [Material!Next]_materialVars, NEW s \in Slots, Held(s), sets'[s] # sets[s],
         sets[s].job = sets[s].by
  PROVE  Material!Owned(s)
<1>0. /\ \A q \in Pictures : Job(q) \in Pictures /\ Slot(q) \in Slots
      /\ sets[s] \in Material!CandidateSet
      /\ RequestsOK /\ sets \in [Slots -> Material!CandidateSet \cup {Material!NoSet}]
  BY Ranges DEF MaterialTypes, SetsOK
<1>1. ASSUME NEW r \in Pictures, Material!SaveReservation(r) \/ Material!SaveReservationUnseen(r) PROVE Material!Owned(s)
  <2>1. At(r) = "saving" /\ r \in fresh
    BY <1>1 DEF Material!SaveReservation, Material!SaveReservationUnseen, At
  <2>2. /\ imageReq[r].outcome = "started" /\ s = Slot(r)
        /\ sets' = [sets EXCEPT ![Slot(r)] = [status |-> "running", job |-> Job(r), by |-> r, keys |-> {}]]
    BY <1>0, <1>1 DEF Material!SaveReservation, Material!SaveReservationUnseen, Material!Reserved, Material!rowVars, Slot, Job
  <2>3. sets[s].status # "running" /\ sets[s].by # r
    BY <2>1, <2>2 DEF JobIds, StartsFree, SetsHaveMakers, Through
  <2>4. sets'[s].status = "running" /\ sets'[s].by = r
    BY <1>0, <2>2
  <2> QED BY <2>3, <2>4 DEF Material!Owned
<1>2. ASSUME NEW r \in Pictures, Material!Complete(r) \/ Material!CompleteUnseen(r) \/ Material!FailImageJob(r) PROVE Material!Owned(s)
  <2>1. At(r) \in {"drawing", "failing"} /\ s = Slot(r) /\ sets[s].job = Job(r)
    BY <1>0, <1>2 DEF Material!Complete, Material!CompleteUnseen, Material!Completed, Material!Mine, Material!FailImageJob,
       Material!Failed, Slot, Job, At
  <2>2. sets[s].by = r
    BY <2>1 DEF JobIds, LateIsOver
  <2>3. \E pc \in {"failing", "done"} : Material!Move(r, pc) /\ pc # At(r)
    BY <1>2 DEF Material!Complete, Material!CompleteUnseen, Material!FailImageJob, At
  <2>4. At(r)' # At(r)
    BY <1>0, <2>3, Moved
  <2> QED BY <2>2, <2>4 DEF Material!Owned, At
<1>3. ASSUME NEW z \in Slots, Material!PollDeclaresDead(z) PROVE Material!Owned(s)
  <2>1. z = s /\ sets[s].status = "running" /\ sets' = [sets EXCEPT ![s].status = "failed"]
    BY <1>0, <1>3 DEF Material!PollDeclaresDead, Material!Failed
  <2>2. sets'[s].status = "failed"
    BY <1>0, <2>1 DEF Material!CandidateSet
  <2>3. sets[s].by \notin Material!Drawing
    BY <1>3, <2>1 DEF Material!PollDeclaresDead, Material!Drawing, JobIds, SetsHaveMakers, Slot
  <2> QED BY <2>1, <2>2, <2>3 DEF Material!Owned
<1>4. ASSUME NEW z \in Slots, NEW k \in Pictures, Material!PickSave(z, k) PROVE Material!Owned(s)
  <2>1. z = s /\ <<s, k>> \in picking /\ k \in sets[s].keys /\ sets'[s] = Material!NoSet
    BY <1>0, <1>4 DEF Material!PickSave
  <2> QED BY <2>1 DEF Material!Owned, Material!NoSet
<1>5. CASE UNCHANGED sets
  BY <1>5
<1> QED
  BY <1>1, <1>2, <1>3, <1>4, <1>5 DEF Material!Next, materialVars, Material!JobStep, Material!Generate, Material!Improve,
     Material!Attempt, Material!RetryReservation, Material!JobFails, Material!FailImageJobLost, Material!PickImage, Material!Give,
     Material!MarkContentPending, Material!MarkLost, Material!Answer, Material!StartBuild, Material!ReadContent,
     Material!FinishBuild, Material!BuildFails, Material!Crash, Material!rowVars

\* The candidates of a job under its own id leave their slot only by that job, by a pick of
\* one of them, for a new job once they no longer run, or by the poll when nobody works on
\* them, for any number of requests (genCandidates, failImageJob).
THEOREM SetsStay == ChangesSpec => SetsStayTheirOwners
<1> DEFINE Inv == MaterialTypes /\ JobIds
<1>1. ChangesInit => Inv
  BY MaterialTypesStart, JobIdsStart DEF ChangesInit
<1>2. Inv /\ [ChangesNext]_changesVars => Inv'
  BY PartSteps, MaterialTypesKept, JobIdsKept
<1>3. Inv /\ [ChangesNext]_changesVars
        => [\A s \in Slots : sets[s].status # "none" /\ sets'[s] # sets[s] =>
              Material!Owned(s) \/ sets[s].job # sets[s].by]_(Material!vars)
  BY PartSteps, SetLeaves DEF Held
<1> QED BY <1>1, <1>2, <1>3, PTL DEF ChangesSpec, SetsStayTheirOwners, Material!SetsStayTheirOwners

-----------------------------------------------------------------------------
(* The live log.  Under the mutex the history is the last lines published,    *)
(* without a hole; what a viewer was shown and has in its channel continues   *)
(* it.                                                                        *)

\* The numbers up to m, from some point on.
EndsAt(s, m) == Len(s) <= m /\ \A i \in 1 .. Len(s) : s[i] = m - Len(s) + i

\* Ascending up to m, and no number left out but those in M.
Unbroken(s, m, M) ==
  /\ \A i \in 1 .. Len(s) : s[i] <= m
  /\ \A i \in 1 .. (Len(s) - 1) : s[i] < s[i + 1]
  /\ \A n \in Nat : s # <<>> /\ s[1] <= n /\ n <= m => n \in M \/ (\E i \in 1 .. Len(s) : s[i] = n)

LEMMA EndsAppend == ASSUME NEW m \in Nat, NEW s \in Seq(Nat), EndsAt(s, m) PROVE EndsAt(Append(s, m + 1), m + 1)
<1> DEFINE t == Append(s, m + 1)
<1>1. /\ Len(s) \in Nat /\ Len(t) = Len(s) + 1 /\ \A i \in 1 .. Len(s) : t[i] = s[i]
      /\ t[Len(s) + 1] = m + 1
  BY AppendProperties, LenProperties
<1> HIDE DEF t
<1> QED BY <1>1 DEF EndsAt, t

LEMMA EndsTail == ASSUME NEW m \in Nat, NEW s \in Seq(Nat), s # <<>>, EndsAt(s, m) PROVE EndsAt(Tail(s), m)
<1>1. Len(s) \in Nat /\ Len(Tail(s)) = Len(s) - 1 /\ \A i \in 1 .. Len(Tail(s)) : Tail(s)[i] = s[i + 1]
  BY HeadTailProperties, LenProperties
<1>2. Len(s) # 0
  BY EmptySeq
<1> QED BY <1>1, <1>2 DEF EndsAt

LEMMA EndsUnbroken == ASSUME NEW m \in Nat, NEW s \in Seq(Nat), EndsAt(s, m) PROVE Unbroken(s, m, {})
<1>1. Len(s) \in Nat
  BY LenProperties
<1>2. (\A i \in 1 .. Len(s) : s[i] <= m) /\ (\A i \in 1 .. (Len(s) - 1) : s[i] < s[i + 1])
  BY <1>1 DEF EndsAt
<1>3. ASSUME NEW n \in Nat, s # <<>>, s[1] <= n, n <= m PROVE \E i \in 1 .. Len(s) : s[i] = n
  <2>1. Len(s) # 0
    BY <1>3, EmptySeq
  <2>2. s[1] = m - Len(s) + 1
    BY <1>1, <2>1 DEF EndsAt
  <2>3. n - m + Len(s) \in 1 .. Len(s)
    BY <1>1, <1>3, <2>2
  <2>4. s[n - m + Len(s)] = n
    BY <1>1, <2>3 DEF EndsAt
  <2> QED BY <2>3, <2>4
<1> QED BY <1>2, <1>3 DEF Unbroken

LEMMA UnbrokenAppend ==
  ASSUME NEW m \in Nat, NEW s \in Seq(Nat), NEW M, Unbroken(s, m, M) PROVE Unbroken(Append(s, m + 1), m + 1, M)
<1> DEFINE t == Append(s, m + 1)
<1>1. /\ Len(t) = Len(s) + 1 /\ t[Len(s) + 1] = m + 1
      /\ \A i \in 1 .. Len(s) : t[i] = s[i]
  BY AppendProperties
<1>5. Len(s) \in Nat /\ \A i \in 1 .. Len(s) : s[i] \in Nat
  BY LenProperties, ElementOfSeq
<1> HIDE DEF t
<1>2. \A i \in 1 .. Len(t) : t[i] <= m + 1
  BY <1>1, <1>5 DEF Unbroken
<1>3. ASSUME NEW i \in 1 .. (Len(t) - 1) PROVE t[i] < t[i + 1]
  <2>1. i \in 1 .. Len(s) /\ s[i] <= m
    BY <1>1, <1>5 DEF Unbroken
  <2>2. CASE i = Len(s)
    BY <1>1, <1>5, <2>1, <2>2
  <2>3. CASE i # Len(s)
    <3>1. i \in 1 .. (Len(s) - 1) /\ i + 1 \in 1 .. Len(s)
      BY <1>5, <2>1, <2>3
    <3> QED BY <1>1, <3>1 DEF Unbroken
  <2> QED BY <2>2, <2>3
<1>4. ASSUME NEW n \in Nat, t[1] <= n, n <= m + 1, n \notin M PROVE \E i \in 1 .. Len(t) : t[i] = n
  <2>1. CASE n = m + 1
    BY <1>1, <1>5, <2>1
  <2>2. CASE n # m + 1
    <3>1. s # <<>> /\ Len(s) # 0
      BY <1>1, <1>5, <1>4, <2>2, EmptySeq
    <3>2. s[1] <= n /\ n <= m
      BY <1>1, <1>5, <1>4, <2>2, <3>1
    <3>3. PICK i \in 1 .. Len(s) : s[i] = n
      BY <1>4, <3>1, <3>2 DEF Unbroken
    <3> QED BY <1>1, <1>5, <3>3
  <2> QED BY <2>1, <2>2
<1> QED BY <1>2, <1>3, <1>4 DEF Unbroken, t

LEMMA UnbrokenMiss ==
  ASSUME NEW m \in Nat, NEW s \in Seq(Nat), NEW M, Unbroken(s, m, M) PROVE Unbroken(s, m + 1, M \cup {m + 1})
<1>1. Len(s) \in Nat /\ \A i \in 1 .. Len(s) : s[i] \in Nat
  BY LenProperties, ElementOfSeq
<1> QED BY <1>1 DEF Unbroken

LEMMA Relayed ==
  ASSUME NEW s \in Seq(Nat), NEW t \in Seq(Nat), t # <<>> PROVE Append(s, Head(t)) \o Tail(t) = s \o t
<1>1. Head(t) \in Nat /\ Tail(t) \in Seq(Nat)
  BY HeadTailProperties
<1>2. Append(s, Head(t)) = s \o <<Head(t)>>
  BY <1>1, AppendIsConcat
<1>3. <<Head(t)>> \in Seq(Nat)
  BY <1>1
<1>4. <<Head(t)>> \o Tail(t) = t
  <2>1. Len(t) \in Nat /\ Len(t) # 0
    BY EmptySeq, LenProperties
  <2>2. /\ Len(<<Head(t)>>) = 1 /\ <<Head(t)>>[1] = t[1]
        /\ Len(Tail(t)) = Len(t) - 1 /\ \A i \in 1 .. Len(Tail(t)) : Tail(t)[i] = t[i + 1]
    BY HeadTailProperties, <2>1 
  <2>3. /\ <<Head(t)>> \o Tail(t) \in Seq(Nat)
        /\ Len(<<Head(t)>> \o Tail(t)) = 1 + Len(Tail(t))
        /\ \A i \in 1 .. (1 + Len(Tail(t))) : (<<Head(t)>> \o Tail(t))[i] = IF i <= 1 THEN <<Head(t)>>[i] ELSE Tail(t)[i - 1]
    BY <1>1, <1>3, <2>2, ConcatProperties
  <2>4. \A i \in 1 .. Len(t) : (<<Head(t)>> \o Tail(t))[i] = t[i]
    BY <2>1, <2>2, <2>3
  <2> QED BY <2>1, <2>2, <2>3, <2>4, SeqEqual
<1>5. (s \o <<Head(t)>>) \o Tail(t) = s \o (<<Head(t)>> \o Tail(t))
  BY <1>1, <1>3, ConcatAssociative
<1> QED BY <1>2, <1>4, <1>5

LEMMA DeliveredLast ==
  ASSUME NEW s \in Seq(Nat), NEW t \in Seq(Nat), NEW e \in Nat PROVE s \o Append(t, e) = Append(s \o t, e)
<1>1. <<e>> \in Seq(Nat) /\ s \o t \in Seq(Nat)
  BY ConcatProperties
<1> QED BY <1>1, AppendIsConcat, ConcatAssociative

FileOK ==
  /\ file \in 0 .. MaxLines /\ exit \in {"absent", "empty", "zero", "nonzero"}
  /\ status \in {"zero", "nonzero"}
Polls == [pc : {"tail", "marker", "emit", "over"}, chunk : 0 .. Chunk, read : 0 .. MaxLines,
          result : {"none", "zero", "nonzero"}]
PollOK == poll \in Polls /\ poll.read + poll.chunk <= file
HolderOK == holder \in Viewers \cup {"free", "publisher"}

\* Publish runs under the mutex, on the first line of the chunk.
PubOK ==
  /\ pub \in [line : 0 .. MaxLines, busy : BOOLEAN]
  /\ pub.busy <=> holder = "publisher"
  /\ pub.busy => poll.pc = "emit" /\ poll.chunk > 0 /\ pub.line = poll.read + 1

\* The history has no hole, and ends with the line published last.
Top == IF pub.busy THEN poll.read + 1 ELSE poll.read
HistOK == hist \in Seq(Progress!Lines) /\ Len(hist) <= HistSize /\ EndsAt(hist, Top)

Watchers ==
  [pc : {"away", "join", "live"}, chan : Seq(Progress!Lines), shown : Seq(Progress!Lines),
   missed : SUBSET Progress!Lines]
ViewersOK == viewer \in [Viewers -> Watchers] /\ \A v \in Viewers : Len(viewer[v].chan) <= Buffer

\* Between the two steps of Subscribe the mutex is the viewer's: nothing is published.
Joined ==
  \A v \in Viewers : viewer[v].pc = "join" =>
    holder = v /\ viewer[v].chan = <<>> /\ EndsAt(viewer[v].shown, poll.read)
Heard == \A v \in Viewers : viewer[v].pc = "live" =>
           Unbroken(viewer[v].shown \o viewer[v].chan, poll.read, viewer[v].missed)

LogTypes == FileOK /\ PollOK /\ HolderOK /\ PubOK
LogInv == LogTypes /\ HistOK /\ ViewersOK /\ Joined /\ Heard

LEMMA LogBounds ==
  /\ MaxLines \in Nat /\ Chunk \in Nat /\ Chunk > 0 /\ Buffer \in Nat /\ HistSize \in Nat /\ HistSize > 0
  /\ \A v \in Viewers : v # "free" /\ v # "publisher"
  /\ Progress!Lines \subseteq Nat
  BY ChangesAssumption DEF Progress!Lines

LEMMA InNat == ASSUME NEW s \in Seq(Progress!Lines) PROVE s \in Seq(Nat) /\ Len(s) \in Nat
  BY LogBounds, SeqMonotonic, LenProperties

LEMMA WatcherFields ==
  ASSUME NEW w \in Watchers
  PROVE  /\ w.chan \in Seq(Progress!Lines) /\ w.shown \in Seq(Progress!Lines) /\ w.missed \subseteq Progress!Lines
         /\ w.chan \in Seq(Nat) /\ w.shown \in Seq(Nat) /\ Len(w.chan) \in Nat
<1>1. w.chan \in Seq(Progress!Lines) /\ w.shown \in Seq(Progress!Lines) /\ w.missed \subseteq Progress!Lines
  BY DEF Watchers
<1> QED BY <1>1, InNat

\* The records the log's steps make of a viewer's.
LEMMA PutChan ==
  ASSUME NEW w \in Watchers, NEW c \in Seq(Progress!Lines), NEW x, x = [w EXCEPT !.chan = c]
  PROVE  x \in Watchers /\ x.pc = w.pc /\ x.chan = c /\ x.shown = w.shown /\ x.missed = w.missed
  BY DEF Watchers

LEMMA PutMissed ==
  ASSUME NEW w \in Watchers, NEW n \in Progress!Lines, NEW x, x = [w EXCEPT !.missed = w.missed \cup {n}]
  PROVE  x \in Watchers /\ x.pc = w.pc /\ x.chan = w.chan /\ x.shown = w.shown /\ x.missed = w.missed \cup {n}
  BY DEF Watchers

LEMMA PutLive ==
  ASSUME NEW w \in Watchers, NEW x, x = [w EXCEPT !.pc = "live"]
  PROVE  x \in Watchers /\ x.pc = "live" /\ x.chan = w.chan /\ x.shown = w.shown /\ x.missed = w.missed
  BY DEF Watchers

LEMMA PollFields ==
  ASSUME PollOK, FileOK
  PROVE  /\ poll \in Polls /\ file \in Nat /\ file <= MaxLines /\ poll.read \in Nat /\ poll.read <= MaxLines
         /\ poll.chunk \in Nat /\ poll.chunk <= Chunk /\ poll.read + poll.chunk <= file
         /\ poll.result \in {"none", "zero", "nonzero"}
  BY LogBounds DEF PollOK, Polls, FileOK

LEMMA LogTypesKept ==
  ASSUME LogInv, [Progress!Next]_progressVars
  PROVE  LogTypes'
<1>f. file \in Nat /\ FileOK /\ PollOK /\ HolderOK /\ PubOK
  BY DEF LogInv, LogTypes, FileOK
<1>g. /\ poll \in Polls /\ poll.read \in Nat /\ poll.read <= MaxLines /\ poll.chunk \in Nat /\ poll.chunk <= Chunk
      /\ poll.read + poll.chunk <= file /\ poll.result \in {"none", "zero", "nonzero"}
  BY <1>f, PollFields
<1>1. CASE Progress!WriteLine \/ Progress!OpenMarker \/ Progress!WriteMarker
  <2>1. UNCHANGED <<poll, pub, holder>>
    BY <1>1 DEF Progress!WriteLine, Progress!OpenMarker, Progress!WriteMarker
  <2>2. FileOK' /\ file' \in Nat /\ file <= file'
    BY LogBounds, <1>1, <1>f DEF FileOK, Progress!WriteLine, Progress!OpenMarker, Progress!WriteMarker
  <2>3. PollOK'
    BY <1>f, <2>1, <2>2 DEF PollOK, Polls
  <2> QED BY <1>f, <2>1, <2>2, <2>3 DEF LogTypes, HolderOK, PubOK
<1>2. CASE Progress!ReadTail \/ Progress!TestMarker \/ Progress!PollFails \/ Progress!EndOfChunk
  <2>1. UNCHANGED <<file, exit, status, pub, holder>>
    BY <1>2 DEF Progress!ReadTail, Progress!TestMarker, Progress!PollFails, Progress!EndOfChunk, Progress!agentVars
  <2>2. PollOK'
    <3>1. CASE Progress!ReadTail
      <4> DEFINE rest == file - poll.read
                 c == IF rest < Chunk THEN rest ELSE Chunk
      <4>1. poll' = [poll EXCEPT !.pc = "marker", !.chunk = c]
        BY <3>1 DEF Progress!ReadTail
      <4>2. c \in 0 .. Chunk /\ poll.read + c <= file
        BY LogBounds, <1>f, <1>g
      <4>4. "marker" \in {"tail", "marker", "emit", "over"} /\ poll \in Polls
        BY <1>g
      <4> HIDE DEF c
      <4>3. poll' \in Polls /\ poll'.read = poll.read /\ poll'.chunk = c
        BY <4>1, <4>2, <4>4 DEF Polls
      <4> QED BY <2>1, <4>2, <4>3 DEF PollOK
    <3>2. CASE Progress!TestMarker
      <4>1. Progress!Status \in {"zero", "nonzero"} \/ exit = "absent"
        BY <1>f DEF FileOK, Progress!Status
      <4> DEFINE r == IF exit = "absent" \/ poll.chunk = Chunk THEN "none" ELSE Progress!Status
      <4>2. poll' = [poll EXCEPT !.pc = "emit", !.result = r]
        BY <3>2 DEF Progress!TestMarker
      <4>3. r \in {"none", "zero", "nonzero"}
        BY <4>1
      <4>5. "emit" \in {"tail", "marker", "emit", "over"} /\ poll \in Polls
        BY <1>g
      <4> HIDE DEF r
      <4>4. poll' \in Polls /\ poll'.read = poll.read /\ poll'.chunk = poll.chunk
        BY <4>2, <4>3, <4>5 DEF Polls
      <4> QED BY <1>g, <2>1, <4>4 DEF PollOK
    <3>3. CASE Progress!PollFails
      <4>1. poll' = [poll EXCEPT !.pc = "tail", !.chunk = 0]
        BY <3>3 DEF Progress!PollFails
      <4>3. "tail" \in {"tail", "marker", "emit", "over"} /\ poll \in Polls /\ 0 \in 0 .. Chunk
        BY LogBounds, <1>g
      <4>2. poll' \in Polls /\ poll'.read = poll.read /\ poll'.chunk = 0
        BY <4>1, <4>3 DEF Polls
      <4> QED BY <1>f, <1>g, <2>1, <4>2 DEF PollOK
    <3>4. CASE Progress!EndOfChunk
      <4> DEFINE pc == IF poll.result = "none" THEN "tail" ELSE "over"
      <4>1. poll' = [poll EXCEPT !.pc = pc] /\ pc \in {"tail", "marker", "emit", "over"}
        BY <3>4 DEF Progress!EndOfChunk, Progress!Step
      <4> HIDE DEF pc
      <4>2. poll' \in Polls /\ poll'.read = poll.read /\ poll'.chunk = poll.chunk
        BY <1>g, <4>1 DEF Polls
      <4> QED BY <1>g, <2>1, <4>2 DEF PollOK
    <3> QED BY <1>2, <3>1, <3>2, <3>3, <3>4
  <2>3. ~(poll.pc = "emit" /\ poll.chunk > 0)
    BY <1>2 DEF Progress!ReadTail, Progress!TestMarker, Progress!PollFails, Progress!EndOfChunk
  <2>4. ~pub.busy
    BY <1>f, <2>3 DEF PubOK
  <2> QED BY <1>f, <2>1, <2>2, <2>4 DEF LogTypes, FileOK, HolderOK, PubOK
<1>5. CASE Progress!AppendHistory
  <2>1. /\ UNCHANGED <<file, exit, status, poll>> /\ holder' = "publisher" /\ poll.pc = "emit" /\ poll.chunk > 0
        /\ pub' = [line |-> poll.read + 1, busy |-> TRUE]
    BY <1>5 DEF Progress!AppendHistory, Progress!agentVars, Progress!Acquire, Progress!Publisher
  <2>2. poll.read + 1 \in 0 .. MaxLines
    BY LogBounds, <1>f, <2>1 DEF FileOK, PollOK, Polls
  <2>3. pub' \in [line : 0 .. MaxLines, busy : BOOLEAN] /\ pub'.busy /\ pub'.line = poll.read + 1
    BY <2>1, <2>2
  <2> QED BY <1>f, <2>1, <2>3 DEF LogTypes, FileOK, PollOK, HolderOK, PubOK
<1>6. CASE Progress!Deliver
  <2>1. /\ UNCHANGED <<file, exit, status>> /\ holder' = "free" /\ pub.busy /\ pub' = [pub EXCEPT !.busy = FALSE]
        /\ poll' = [poll EXCEPT !.read = poll.read + 1, !.chunk = poll.chunk - 1]
    BY <1>6 DEF Progress!Deliver, Progress!agentVars, Progress!Release, Progress!Free
  <2>2. poll.chunk > 0
    BY <1>f, <2>1 DEF PubOK
  <2>3. PollOK'
    <3>1. poll.read + 1 \in 0 .. MaxLines /\ poll.chunk - 1 \in 0 .. Chunk
      BY LogBounds, <1>f, <1>g, <2>2 DEF FileOK
    <3>2. poll' \in Polls /\ poll'.read = poll.read + 1 /\ poll'.chunk = poll.chunk - 1
      BY <1>g, <2>1, <3>1 DEF Polls
    <3> QED BY <1>f, <1>g, <2>1, <2>2, <3>2 DEF PollOK
  <2>4. pub' \in [line : 0 .. MaxLines, busy : BOOLEAN] /\ ~pub'.busy
    BY <1>f, <2>1 DEF PubOK
  <2> QED BY <1>f, <2>1, <2>3, <2>4 DEF LogTypes, FileOK, HolderOK, PubOK
<1>8. CASE Progress!NextPass
  <2>1. /\ UNCHANGED <<status, pub, holder>> /\ file' = poll.read /\ exit' = "absent" /\ holder = "free"
        /\ poll' = [poll EXCEPT !.pc = "tail", !.chunk = 0, !.result = "none"]
    BY <1>8 DEF Progress!NextPass, Progress!Free
  <2>2. PollOK' /\ FileOK'
    <3>1. poll' \in Polls /\ poll'.read = poll.read /\ poll'.chunk = 0
      <4>1. poll \in Polls /\ 0 \in 0 .. Chunk
        BY LogBounds, <1>g
      <4> QED BY <2>1, <4>1 DEF Polls
    <3> QED BY <1>f, <1>g, <2>1, <3>1 DEF PollOK, FileOK
  <2>3. ~pub.busy
    BY <1>f, <2>1 DEF PubOK
  <2> QED BY <1>f, <2>1, <2>2, <2>3 DEF LogTypes, HolderOK, PubOK
<1>9. ASSUME NEW v \in Viewers,
             Progress!CopyHistory(v) \/ Progress!Register(v) \/ Progress!Relay(v) \/ Progress!Leave(v)
      PROVE  LogTypes'
  <2>1. UNCHANGED <<file, exit, status, poll, pub>>
    BY <1>9 DEF Progress!CopyHistory, Progress!Register, Progress!Relay, Progress!Leave, Progress!agentVars
  <2>2. holder' = holder \/ (holder = "free" /\ holder' = v) \/ (holder = v /\ holder' = "free")
    BY <1>9 DEF LogInv, Joined, Progress!CopyHistory, Progress!Register, Progress!Relay, Progress!Leave, Progress!Acquire, Progress!Release, Progress!Free
  <2> QED BY LogBounds, <1>f, <2>1, <2>2 DEF LogTypes, FileOK, PollOK, HolderOK, PubOK
<1>10. CASE UNCHANGED progressVars
  BY <1>f, <1>10 DEF LogTypes, FileOK, PollOK, HolderOK, PubOK, progressVars
<1> QED
  BY <1>1, <1>2, <1>5, <1>6, <1>8, <1>9, <1>10 DEF Progress!Next, Progress!Log

\* Joined and Heard, and what they rest on, stay while no viewer moves and nothing is published.
LEMMA LogAside ==
  ASSUME LogInv, UNCHANGED <<pub, hist, viewer, holder>>, poll'.read = poll.read
  PROVE  (HistOK /\ ViewersOK /\ Joined /\ Heard)'
  BY DEF LogInv, HistOK, Top, ViewersOK, Joined, Heard

LEMMA LogSteps ==
  ASSUME LogInv, [Progress!Next]_progressVars
  PROVE  (HistOK /\ ViewersOK /\ Joined /\ Heard)'
<1>a. LogTypes'
  BY LogTypesKept
<1>b. /\ poll.read \in Nat /\ poll.read + 1 \in Nat /\ Progress!Lines \subseteq Nat
      /\ hist \in Seq(Nat) /\ hist \in Seq(Progress!Lines) /\ Len(hist) \in Nat
  <2>1. hist \in Seq(Progress!Lines)
    BY DEF LogInv, HistOK
  <2>2. poll.read \in Nat
    BY DEF LogInv, LogTypes, PollOK, Polls
  <2> QED BY LogBounds, <2>1, <2>2, InNat
<1>c. /\ file \in 0 .. MaxLines /\ poll.read + poll.chunk <= file /\ poll.chunk \in Nat
      /\ pub.busy => poll.chunk > 0 /\ pub.line = poll.read + 1 /\ holder = "publisher"
      /\ pub \in [line : 0 .. MaxLines, busy : BOOLEAN]
  BY DEF LogInv, LogTypes, FileOK, PollOK, Polls, PubOK
<1>d. poll.chunk > 0 => poll.read + 1 \in Progress!Lines
  BY LogBounds, <1>b, <1>c DEF Progress!Lines
<1>1. CASE Progress!WriteLine \/ Progress!OpenMarker \/ Progress!WriteMarker
  BY <1>1, LogAside DEF Progress!WriteLine, Progress!OpenMarker, Progress!WriteMarker
<1>2. CASE Progress!ReadTail \/ Progress!TestMarker \/ Progress!PollFails \/ Progress!EndOfChunk
  <2>1. poll'.read = poll.read
    BY <1>2 DEF LogInv, LogTypes, PollOK, Polls, Progress!ReadTail, Progress!TestMarker, Progress!PollFails, Progress!EndOfChunk, Progress!Step
  <2> QED
    BY <1>2, <2>1, LogAside DEF Progress!ReadTail, Progress!TestMarker, Progress!PollFails, Progress!EndOfChunk
<1>3. CASE Progress!AppendHistory
  <2> DEFINE h == Append(hist, poll.read + 1)
  <2>1. /\ pub' = [line |-> poll.read + 1, busy |-> TRUE] /\ UNCHANGED <<poll, viewer>>
        /\ ~pub.busy /\ holder = "free" /\ poll.read + 1 \in Progress!Lines
        /\ hist' = IF Len(h) > HistSize THEN Tail(h) ELSE h
    BY <1>3, <1>d DEF Progress!AppendHistory, Progress!Acquire, Progress!Free
  <2>2. h \in Seq(Progress!Lines) /\ h \in Seq(Nat) /\ Len(h) = Len(hist) + 1 /\ h # <<>>
    <3>1. h \in Seq(Progress!Lines) /\ Len(h) = Len(hist) + 1 /\ h # <<>>
      BY <1>b, <2>1, AppendProperties
    <3> HIDE DEF h
    <3> QED BY <3>1, InNat
  <2>3. EndsAt(h, poll.read + 1) /\ Len(hist) <= HistSize
    BY <1>b, <2>1, EndsAppend DEF LogInv, HistOK, Top
  <2>4. EndsAt(Tail(h), poll.read + 1) /\ Tail(h) \in Seq(Progress!Lines) /\ Len(Tail(h)) = Len(h) - 1
    BY <1>b, <2>2, <2>3, EndsTail, HeadTailProperties
  <2> HIDE DEF h
  <2>5. Top' = poll.read + 1
    BY <2>1 DEF Top
  <2>6. HistOK'
    BY LogBounds, <1>b, <2>1, <2>2, <2>3, <2>4, <2>5 DEF HistOK
  <2>7. Joined'
    BY LogBounds, <2>1 DEF LogInv, Joined
  <2> QED
    BY <2>1, <2>6, <2>7 DEF LogInv, ViewersOK, Heard
<1>4. CASE Progress!Deliver
  <2>1. /\ pub.busy /\ pub'.busy = FALSE /\ pub.line = poll.read + 1 /\ poll'.read = poll.read + 1 /\ hist' = hist
        /\ holder = "publisher" /\ poll.read + 1 \in Progress!Lines
    <3>1. /\ pub.busy /\ pub' = [pub EXCEPT !.busy = FALSE] /\ hist' = hist
          /\ poll' = [poll EXCEPT !.read = poll.read + 1, !.chunk = poll.chunk - 1]
      BY <1>4 DEF Progress!Deliver
    <3>2. poll'.read = poll.read + 1
      BY <3>1 DEF LogInv, LogTypes, PollOK, Polls
    <3>3. pub'.busy = FALSE
      BY <1>c, <3>1
    <3> QED BY <1>c, <1>d, <3>1, <3>2, <3>3
  <2>2. HistOK'
    BY <2>1 DEF LogInv, HistOK, Top
  <2>3. viewer' = [v \in Viewers |->
       IF viewer[v].pc # "live" THEN viewer[v]
       ELSE IF Len(viewer[v].chan) < Buffer THEN [viewer[v] EXCEPT !.chan = Append(@, poll.read + 1)]
       ELSE [viewer[v] EXCEPT !.missed = @ \cup {poll.read + 1}]]
    BY <1>4, <2>1 DEF Progress!Deliver
  <2>4. ASSUME NEW v \in Viewers
        PROVE  /\ viewer'[v] \in Watchers /\ Len(viewer'[v].chan) <= Buffer
               /\ viewer'[v].pc # "join"
               /\ viewer'[v].pc = "live" => Unbroken(viewer'[v].shown \o viewer'[v].chan, poll.read + 1, viewer'[v].missed)
    <3> DEFINE w == viewer[v]
    <3>1. w \in Watchers /\ Len(w.chan) <= Buffer /\ w.pc # "join"
      BY LogBounds, <2>1 DEF LogInv, ViewersOK, Joined
    <3>2. w.pc = "live" => Unbroken(w.shown \o w.chan, poll.read, w.missed)
      BY DEF LogInv, Heard
    <3>3. CASE w.pc # "live"
      <4>1. viewer'[v] = w
        BY <2>3, <3>3
      <4> QED BY <3>1, <3>3, <4>1
    <3>6. /\ w.chan \in Seq(Progress!Lines) /\ w.shown \in Seq(Progress!Lines)
          /\ w.chan \in Seq(Nat) /\ w.shown \in Seq(Nat) /\ Len(w.chan) \in Nat
      BY <3>1, WatcherFields
    <3>7. w.shown \o w.chan \in Seq(Nat)
      BY <3>6, ConcatProperties
    <3>4. CASE w.pc = "live" /\ Len(w.chan) < Buffer
      <4> DEFINE c == Append(w.chan, poll.read + 1)
      <4>1. viewer'[v] = [w EXCEPT !.chan = c]
        BY <2>3, <3>4
      <4>3. c \in Seq(Progress!Lines) /\ Len(c) = Len(w.chan) + 1
        BY <2>1, <3>6, AppendProperties
      <4>5. w.shown \o c = Append(w.shown \o w.chan, poll.read + 1)
        BY <1>b, <3>6, DeliveredLast
      <4>7. Unbroken(Append(w.shown \o w.chan, poll.read + 1), poll.read + 1, w.missed)
        BY <1>b, <3>2, <3>4, <3>7, UnbrokenAppend
      <4> HIDE DEF c, w
      <4>4. /\ viewer'[v] \in Watchers /\ viewer'[v].pc = w.pc /\ viewer'[v].shown = w.shown
            /\ viewer'[v].missed = w.missed /\ viewer'[v].chan = c
        BY <3>1, <4>1, <4>3, PutChan
      <4> QED BY LogBounds, <3>4, <3>6, <4>3, <4>4, <4>5, <4>7
    <3>5. CASE w.pc = "live" /\ ~(Len(w.chan) < Buffer)
      <4>1. viewer'[v] = [w EXCEPT !.missed = w.missed \cup {poll.read + 1}]
        BY <2>3, <3>5
      <4>5. Unbroken(w.shown \o w.chan, poll.read + 1, w.missed \cup {poll.read + 1})
        BY <1>b, <3>2, <3>5, <3>7, UnbrokenMiss
      <4> HIDE DEF w
      <4>3. /\ viewer'[v] \in Watchers /\ viewer'[v].pc = w.pc /\ viewer'[v].shown = w.shown
            /\ viewer'[v].missed = w.missed \cup {poll.read + 1} /\ viewer'[v].chan = w.chan
        BY <2>1, <3>1, <4>1, PutMissed
      <4> QED BY <3>1, <3>5, <4>3, <4>5
    <3> QED BY <3>3, <3>4, <3>5
  <2>5. viewer' \in [Viewers -> Watchers]
    <3> DEFINE one(v) == IF viewer[v].pc # "live" THEN viewer[v]
       ELSE IF Len(viewer[v].chan) < Buffer THEN [viewer[v] EXCEPT !.chan = Append(@, poll.read + 1)]
       ELSE [viewer[v] EXCEPT !.missed = @ \cup {poll.read + 1}]
    <3>1. viewer' = [v \in Viewers |-> one(v)]
      BY <2>3
    <3> HIDE DEF one
    <3> QED BY <2>4, <3>1
  <2> QED BY <2>1, <2>2, <2>4, <2>5 DEF ViewersOK, Joined, Heard
<1>5. CASE Progress!NextPass
  <2>1. hist' = <<>> /\ UNCHANGED <<pub, viewer, holder>> /\ poll'.read = poll.read /\ holder = "free"
    BY <1>5 DEF Progress!NextPass, LogInv, LogTypes, PollOK, Polls, Progress!Free
  <2>2. HistOK'
    BY LogBounds, <1>b, <2>1 DEF LogInv, HistOK, Top, EndsAt
  <2> QED BY <2>1, <2>2 DEF LogInv, ViewersOK, Joined, Heard
<1>6. ASSUME NEW v \in Viewers,
             Progress!CopyHistory(v) \/ Progress!Register(v) \/ Progress!Relay(v) \/ Progress!Leave(v)
      PROVE  (HistOK /\ ViewersOK /\ Joined /\ Heard)'
  <2> DEFINE w == viewer[v]
             x == viewer'[v]
  <2>1. /\ UNCHANGED <<poll, pub, hist>> /\ w \in Watchers /\ Len(w.chan) <= Buffer
        /\ viewer \in [Viewers -> Watchers] /\ Progress!Away \in Watchers
    <3>1. UNCHANGED <<poll, pub, hist>> /\ w \in Watchers /\ Len(w.chan) <= Buffer /\ viewer \in [Viewers -> Watchers]
      BY <1>6 DEF Progress!CopyHistory, Progress!Register, Progress!Relay, Progress!Leave, LogInv, ViewersOK
    <3>2. <<>> \in Seq(Progress!Lines)
      OBVIOUS
    <3> QED BY <3>1, <3>2 DEF Progress!Away, Watchers
  <2>2. HistOK'
    BY <2>1 DEF LogInv, HistOK, Top, EndsAt
  \* It is enough to look at the viewer that moves.
  <2>3. ASSUME NEW rec \in Watchers, viewer' = [viewer EXCEPT ![v] = rec], Len(rec.chan) <= Buffer,
               rec.pc = "join" => holder' = v /\ rec.chan = <<>> /\ EndsAt(rec.shown, poll.read),
               rec.pc = "live" => Unbroken(rec.shown \o rec.chan, poll.read, rec.missed),
               \A u \in Viewers \ {v} : holder = u => holder' = u
        PROVE  (HistOK /\ ViewersOK /\ Joined /\ Heard)'
    <3>1. viewer' \in [Viewers -> Watchers] /\ viewer'[v] = rec /\ \A u \in Viewers \ {v} : viewer'[u] = viewer[u]
      BY <2>1, <2>3
    <3>2. ViewersOK'
      BY <2>3, <3>1 DEF LogInv, ViewersOK
    <3>3. Joined'
      BY <2>1, <2>3, <3>1 DEF LogInv, Joined
    <3>4. Heard'
      BY <2>1, <2>3, <3>1 DEF LogInv, Heard
    <3> QED BY <2>2, <3>2, <3>3, <3>4
  <2>4. CASE Progress!CopyHistory(v)
    <3> DEFINE rec == [Progress!Away EXCEPT !.pc = "join", !.shown = hist]
    <3>1. viewer' = [viewer EXCEPT ![v] = rec] /\ holder = "free" /\ holder' = v
      BY <2>4 DEF Progress!CopyHistory, Progress!Put, Progress!Acquire, Progress!Free
    <3>4. Progress!Away.chan = <<>> /\ Len(<<>>) <= Buffer
      BY LogBounds DEF Progress!Away
    <3>2. rec \in Watchers /\ rec.pc = "join" /\ rec.chan = <<>> /\ rec.shown = hist /\ Len(rec.chan) <= Buffer
      <4> DEFINE away == Progress!Away
      <4>1. rec = [away EXCEPT !.pc = "join", !.shown = hist] /\ away \in Watchers /\ away.chan = <<>>
            /\ hist \in Seq(Progress!Lines)
        BY <1>b, <2>1, <3>4
      <4> HIDE DEF rec, away
      <4>2. rec \in Watchers /\ rec.pc = "join" /\ rec.chan = away.chan /\ rec.shown = hist
        BY <4>1 DEF Watchers
      <4> QED BY <3>4, <4>1, <4>2
    <3>3. EndsAt(hist, poll.read)
      BY <3>1 DEF LogInv, LogTypes, PubOK, HistOK, Top
    <3> HIDE DEF rec
    <3> QED BY LogBounds, <2>3, <3>1, <3>2, <3>3
  <2>5. CASE Progress!Register(v)
    <3> DEFINE rec == [w EXCEPT !.pc = "live"]
    <3>1. viewer' = [viewer EXCEPT ![v] = rec] /\ w.pc = "join" /\ holder' = "free"
      BY <2>5 DEF Progress!Register, Progress!Put, Progress!Release, Progress!Free
    <3>2. holder = v /\ w.chan = <<>> /\ EndsAt(w.shown, poll.read)
      BY <3>1 DEF LogInv, Joined
    <3>3. rec \in Watchers /\ rec.pc = "live" /\ rec.chan = w.chan /\ rec.shown = w.shown /\ rec.missed = w.missed
      BY <2>1, PutLive
    <3>6. w.shown \in Seq(Nat)
      BY <2>1, WatcherFields
    <3>4. w.shown \o <<>> = w.shown
      BY <3>6, ConcatEmptySeq
    <3>5. Unbroken(w.shown, poll.read, w.missed)
      <4>1. Unbroken(w.shown, poll.read, {})
        BY <1>b, <3>2, <3>6, EndsUnbroken
      <4> QED BY <4>1 DEF Unbroken
    <3> HIDE DEF rec
    <3> QED BY <2>1, <2>3, <3>1, <3>2, <3>3, <3>4, <3>5
  <2>6. CASE Progress!Relay(v)
    <3> DEFINE rec == [w EXCEPT !.shown = Append(w.shown, Head(w.chan)), !.chan = Tail(w.chan)]
    <3>1. viewer' = [viewer EXCEPT ![v] = rec] /\ w.pc = "live" /\ w.chan # <<>> /\ holder' = holder
      BY <2>6 DEF Progress!Relay, Progress!Put
    <3>2. /\ w.chan \in Seq(Progress!Lines) /\ w.shown \in Seq(Progress!Lines)
          /\ w.chan \in Seq(Nat) /\ w.shown \in Seq(Nat) /\ Len(w.chan) \in Nat
      BY <2>1, WatcherFields
    <3>3. /\ Head(w.chan) \in Progress!Lines /\ Tail(w.chan) \in Seq(Progress!Lines)
          /\ Len(Tail(w.chan)) = Len(w.chan) - 1 /\ Append(w.shown, Head(w.chan)) \in Seq(Progress!Lines)
      BY <3>1, <3>2, HeadTailProperties, AppendProperties
    <3>4. /\ rec \in Watchers /\ rec.pc = w.pc /\ rec.chan = Tail(w.chan)
          /\ rec.shown = Append(w.shown, Head(w.chan)) /\ rec.missed = w.missed
      <4> DEFINE c == Tail(w.chan)
                 t == Append(w.shown, Head(w.chan))
      <4>1. c \in Seq(Progress!Lines) /\ t \in Seq(Progress!Lines)
        BY <3>3
      <4> HIDE DEF c, t
      <4>3. rec = [w EXCEPT !.shown = t, !.chan = c]
        BY DEF c, t
      <4>4. w \in Watchers
        BY <2>1
      <4> HIDE DEF rec, w
      <4>2. rec \in Watchers /\ rec.pc = w.pc /\ rec.chan = c /\ rec.shown = t /\ rec.missed = w.missed
        BY <4>1, <4>3, <4>4 DEF Watchers
      <4> QED BY <4>2 DEF c, t
    <3>5. Append(w.shown, Head(w.chan)) \o Tail(w.chan) = w.shown \o w.chan
      BY <3>1, <3>2, Relayed
    <3>7. Unbroken(w.shown \o w.chan, poll.read, w.missed)
      BY <3>1 DEF LogInv, Heard
    <3>8. Len(rec.chan) <= Buffer
      BY LogBounds, <2>1, <3>2, <3>3, <3>4
    <3> HIDE DEF rec
    <3> QED BY <2>3, <3>1, <3>4, <3>5, <3>7, <3>8
  <2>7. CASE Progress!Leave(v)
    <3>1. viewer' = [viewer EXCEPT ![v] = Progress!Away] /\ holder' = holder
      BY <2>7 DEF Progress!Leave, Progress!Put
    <3>2. Progress!Away.pc = "away" /\ Len(Progress!Away.chan) <= Buffer
      BY LogBounds DEF Progress!Away
    <3> QED BY <2>1, <2>3, <3>1, <3>2
  <2> QED BY <1>6, <2>4, <2>5, <2>6, <2>7
<1>7. CASE UNCHANGED progressVars
  BY <1>7, LogAside DEF progressVars
<1> QED
  BY <1>1, <1>2, <1>3, <1>4, <1>5, <1>6, <1>7 DEF Progress!Next, Progress!Log

LEMMA LogInvariant == ChangesSpec => []LogInv
<1>1. ChangesInit => LogInv
  <2> SUFFICES ASSUME Progress!Init PROVE LogInv
    BY DEF ChangesInit
  <2>1. <<>> \in Seq(Progress!Lines) /\ Len(<<>>) = 0
    OBVIOUS
  <2>2. ViewersOK /\ Joined /\ Heard
    <3>1. viewer = [v \in Viewers |-> Progress!Away]
      BY DEF Progress!Init
    <3>2. Progress!Away \in Watchers /\ Progress!Away.pc = "away" /\ Len(Progress!Away.chan) <= Buffer
      BY <2>1, LogBounds DEF Progress!Away, Watchers
    <3> QED BY <3>1, <3>2 DEF ViewersOK, Joined, Heard
  <2>3. HistOK /\ ~pub.busy
    BY <2>1, LogBounds DEF HistOK, Top, EndsAt, Progress!Init
  <2> QED
    BY <2>2, <2>3, LogBounds DEF LogInv, LogTypes, FileOK, PollOK, Polls, HolderOK, PubOK,
      Progress!Init, Progress!Free
<1>2. LogInv /\ [ChangesNext]_changesVars => LogInv'
  BY PartSteps, LogTypesKept, LogSteps DEF LogInv
<1> QED BY <1>1, <1>2, PTL DEF ChangesSpec

\* A browser that watches a build is shown the log from a point on, in order, with no line
\* missing but those its full channel dropped (Publish, Subscribe), for any number of
\* viewers, lines and events retained.
THEOREM ViewersMissDropsOnly == ChangesSpec => []ViewersMissOnlyDrops
<1>1. LogInv => ViewersMissOnlyDrops
  <2> SUFFICES ASSUME LogInv, NEW v \in Viewers, viewer[v].pc = "live"
               PROVE  LET seen == viewer[v].shown \o viewer[v].chan IN
                        /\ \A i \in 1..(Len(seen) - 1) : seen[i] < seen[i + 1]
                        /\ \A n \in Progress!Lines : seen # <<>> /\ seen[1] <= n /\ n <= poll.read =>
                             n \in Progress!ToSet(seen) \cup viewer[v].missed
    BY DEF ViewersMissOnlyDrops, Progress!ViewersMissOnlyDrops
  <2> DEFINE seen == viewer[v].shown \o viewer[v].chan
  <2>1. Unbroken(seen, poll.read, viewer[v].missed)
    BY DEF LogInv, Heard
  <2>2. seen \in Seq(Progress!Lines)
    BY ConcatProperties DEF LogInv, ViewersOK, Watchers
  <2>3. DOMAIN seen = 1 .. Len(seen)
    BY <2>2, LenProperties
  <2>4. Progress!Lines \subseteq Nat
    BY ChangesAssumption DEF Progress!Lines
  <2> HIDE DEF seen
  <2> QED BY <2>1, <2>3, <2>4 DEF Unbroken, Progress!ToSet, seen
<1> QED BY <1>1, LogInvariant, PTL

-----------------------------------------------------------------------------
(* The types of all five.                                                     *)

\* The allowance of paid changes goes on as in Metering.
LEMMA MeteringSpec == ChangesSpec => Spec
<1>1. ChangesInit => Init
  BY DEF ChangesInit
<1>2. [ChangesNext]_changesVars => [Next]_vars
  BY PartSteps
<1> QED BY <1>1, <1>2, PTL DEF ChangesSpec, Spec

LEMMA OwnersTyped == ChangesSpec => []Customers!TypeOK
<1>1. Owners!CapsAssumption /\ Others \subseteq Projects
  BY ChangesAssumption DEF Owners!CapsAssumption, Owners!None, Owners!IsFiniteSet, IsFiniteSet
<1>2. Owners!Spec => []Owners!TypeOK
  BY <1>1, Owners!TypeCorrect
<1>3. Owners!TypeOK => Customers!TypeOK
  BY DEF Owners!TypeOK, Customers!TypeOK, Owners!None, Customers!None, Owners!Statuses, Customers!Statuses,
     Owners!BuildStatuses, Customers!BuildStatuses
<1> QED BY <1>2, <1>3, OwnersSpec, PTL

LEMMA LogTyped == ASSUME LogInv PROVE Progress!TypeOK
<1>1. /\ file \in 0 .. MaxLines /\ poll \in Polls /\ poll.read + poll.chunk <= file
      /\ pub \in [line : 0 .. MaxLines, busy : BOOLEAN]
  BY DEF LogInv, LogTypes, FileOK, PollOK, PubOK
<1>2. /\ poll.pc \in {"tail", "marker", "emit", "over"} /\ poll.chunk \in 0 .. Chunk
      /\ poll.read \in 0 .. MaxLines /\ poll.result \in {"none", "zero", "nonzero"}
  BY <1>1 DEF Polls
<1>3. poll.read \in 0 .. file
  BY <1>1, <1>2, LogBounds
<1>4. ASSUME NEW v \in Viewers
      PROVE  /\ viewer[v].pc \in {"away", "join", "live"}
             /\ Len(viewer[v].chan) <= Buffer /\ viewer[v].missed \subseteq Progress!Lines
  BY DEF LogInv, ViewersOK, Watchers
<1>5. pub.line \in 0 .. MaxLines /\ pub.busy \in BOOLEAN
  BY <1>1
<1>6. hist \in Seq(Progress!Lines) /\ Len(hist) <= HistSize
  BY DEF LogInv, HistOK
<1>7. FileOK /\ HolderOK
  BY DEF LogInv, LogTypes
<1> QED
  BY <1>1, <1>2, <1>3, <1>4, <1>5, <1>6, <1>7
  DEF Progress!TypeOK, FileOK, HolderOK, Progress!Free, Progress!Publisher

\* The state of all five components keeps its type, for every value of the constants: the
\* counter of changes (Project), the build and its sandbox (orch, iteration), picture sets
\* and requests, accounts and rows, the log and its viewers.
THEOREM ChangesTypes == ChangesSpec => []ChangesTypeOK
<1>1. ChangesSpec => []TypeOK
  BY MeteringSpec, TypeCorrect, PTL
<1>2. ChangesSpec => []Builder!TypeOK
  <2>1. ChangesInit => BuilderInv
    BY BuilderStart, ChangesAssumption DEF ChangesInit
  <2>2. BuilderInv /\ [ChangesNext]_changesVars => BuilderInv'
    BY PartSteps, BuilderStep, ChangesAssumption
  <2>3. BuilderInv => Builder!TypeOK
    BY BuilderTyped DEF BuilderInv
  <2> QED BY <2>1, <2>2, <2>3, PTL DEF ChangesSpec
<1>3. ChangesSpec => []Material!TypeOK
  <2>1. ChangesInit => MaterialTypes
    BY MaterialTypesStart DEF ChangesInit
  <2>2. MaterialTypes /\ [ChangesNext]_changesVars => MaterialTypes'
    BY PartSteps, MaterialTypesKept
  <2>3. MaterialTypes => Material!TypeOK
    BY MaterialTyped
  <2> QED BY <2>1, <2>2, <2>3, PTL DEF ChangesSpec
<1>4. ChangesSpec => []Progress!TypeOK
  BY LogInvariant, LogTyped, PTL
<1> QED BY <1>1, <1>2, <1>3, <1>4, OwnersTyped, PTL DEF ChangesTypeOK
=============================================================================
