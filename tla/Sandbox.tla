------------------------------ MODULE Sandbox ------------------------------
(***************************************************************************)
(* One project's builds inside sandbox machines: Build, Attach and finalize *)
(* of product/internal/builder/builder.go, the agent's sessions as          *)
(* internal/opencode drives and re-attaches to them, and the machines as    *)
(* internal/fly spawns, destroys and sweeps them.                           *)
(*                                                                          *)
(* The agent keeps working when the orchestrator's process dies.  Work on   *)
(* the site is a version number: the workspace, the deployed site and the   *)
(* saved snapshot each hold one.                                            *)
(***************************************************************************)
EXTENDS Naturals, FiniteSets

CONSTANTS MaxBuilds,    \* bound: builds of the project
          MaxVersion,   \* bound: edits the agents make
          MaxCrashes,   \* bound: restarts of the orchestrator
          MaxFaults,    \* bound: lost answers, failed destroys
          FrozenLimit   \* quiet watchdog ticks before a build is finalised (10)

VARIABLES
  orch,     \* the build goroutine
  row,      \* the iteration as persisted: machine, session, status
  snapKey,  \* the project's SnapshotKey is set
  alive,    \* machines of this project that run
  spawned,  \* machines created so far; the last is the newest
  agent,    \* the two kinds of session on the newest machine
  heard,    \* sessions whose end reached the open event stream
  watch,    \* Attach's watchdog: quiet ticks, tokens grown since the last
  site,     \* versions: workspace, live, snapshot
  builds, crashes, faults

vars == <<orch, row, snapKey, alive, spawned, agent, heard, watch, site, builds, crashes, faults>>
counters == <<builds, crashes>>

Sessions == {"main", "polish"}
NoSession == "none"
Idle == [pc |-> "idle", attached |-> FALSE, on |-> NoSession, saved |-> FALSE, failed |-> FALSE, respawn |-> FALSE]
Waiting == {"consume", "polish"}   \* reading the event stream
NoAgent == [s \in Sessions |-> "none"]
Quiet == [ticks |-> 0, grew |-> FALSE]
Fault == faults < MaxFaults /\ faults' = faults + 1
Working == {s \in Sessions : agent[s] = "working"}

TypeOK ==
  /\ orch \in [pc : {"idle", "prepare", "create", "boot", "seed", "agent", "consume", "salvage",
                     "save", "review", "polish", "resave", "destroy", "finish", "down"},
               attached : BOOLEAN, on : Sessions \cup {NoSession}, saved : BOOLEAN,
               failed : BOOLEAN, respawn : BOOLEAN]
  /\ row \in [machine : 0..spawned, session : Sessions \cup {NoSession},
              status : {"none", "building", "preview_ready", "failed"}]
  /\ snapKey \in BOOLEAN /\ alive \subseteq 1..spawned
  /\ agent \in [Sessions -> {"none", "working", "idle", "error"}] /\ heard \subseteq Sessions
  /\ watch \in [ticks : 0..FrozenLimit, grew : BOOLEAN]
  /\ site \in [work : 0..MaxVersion, live : 0..MaxVersion, snap : 0..MaxVersion]

Init ==
  /\ orch = Idle /\ row = [machine |-> 0, session |-> NoSession, status |-> "none"]
  /\ snapKey = FALSE /\ alive = {} /\ spawned = 0 /\ agent = NoAgent /\ heard = {} /\ watch = Quiet
  /\ site = [work |-> 0, live |-> 0, snap |-> 0]
  /\ builds = 0 /\ crashes = 0 /\ faults = 0

To(pc) == orch' = [orch EXCEPT !.pc = pc]
\* The build ends in an error; its sandbox is destroyed by the deferred call.
Fails == orch' = [orch EXCEPT !.pc = "destroy", !.failed = TRUE]

----------------------------------------------------------------------------
(* Build: provision, spawn, seed.                                          *)

StartBuild ==
  /\ orch.pc = "idle" /\ builds < MaxBuilds
  /\ builds' = builds + 1
  /\ orch' = [Idle EXCEPT !.pc = "prepare"]
  /\ row' = [machine |-> 0, session |-> NoSession, status |-> "building"]
  /\ UNCHANGED <<snapKey, alive, spawned, agent, heard, watch, site, crashes, faults>>

\* EnsureApp, SetAppSecrets and AppDeployToken; each may fail before any machine exists.
Prepare ==
  /\ orch.pc = "prepare" /\ To("create")
  /\ UNCHANGED <<row, snapKey, alive, spawned, agent, heard, watch, site, counters, faults>>

PrepareFails ==
  /\ orch.pc = "prepare" /\ orch' = [orch EXCEPT !.pc = "finish", !.failed = TRUE]
  /\ UNCHANGED <<row, snapKey, alive, spawned, agent, heard, watch, site, counters, faults>>

\* The machine's name belongs to the project: Fly refuses a second one.
Created == alive = {} /\ spawned' = spawned + 1 /\ alive' = {spawned + 1} /\ agent' = NoAgent

CreateMachine ==
  /\ orch.pc = "create" /\ Created /\ To("boot")
  /\ UNCHANGED <<row, snapKey, heard, watch, site, counters, faults>>

\* The machine is created and the answer lost: SpawnSandbox returns an error.
CreateUnseen ==
  /\ orch.pc = "create" /\ Fault /\ Created
  /\ orch' = [orch EXCEPT !.pc = "finish", !.failed = TRUE]
  /\ UNCHANGED <<row, snapKey, heard, watch, site, counters>>

\* 409: destroy the squatter, wait, and try once more.
CreateConflict ==
  /\ orch.pc = "create" /\ alive # {}
  /\ IF orch.respawn THEN orch' = [orch EXCEPT !.pc = "finish", !.failed = TRUE] /\ UNCHANGED <<alive, faults>>
     ELSE /\ orch' = [orch EXCEPT !.respawn = TRUE]
          /\ \/ alive' = {} /\ UNCHANGED faults
             \/ Fault /\ UNCHANGED alive
  /\ UNCHANGED <<row, snapKey, spawned, agent, heard, watch, site, counters>>

\* Started and accepting connections; OnSandbox persists the handle.
SpawnReady ==
  /\ orch.pc = "boot" /\ spawned \in alive
  /\ To("seed") /\ row' = [row EXCEPT !.machine = spawned]
  /\ UNCHANGED <<snapKey, alive, spawned, agent, heard, watch, site, counters, faults>>

\* cleanupFailedSpawn, best effort.
SpawnFails ==
  /\ orch.pc = "boot"
  /\ orch' = [orch EXCEPT !.pc = "finish", !.failed = TRUE]
  /\ \/ alive' = alive \ {spawned} /\ UNCHANGED faults
     \/ Fault /\ UNCHANGED alive
  /\ UNCHANGED <<row, snapKey, spawned, agent, heard, watch, site, counters>>

\* restoreSnapshot: the previous workspace, or the starter template (version 0).
Seed ==
  /\ orch.pc = "seed"
  /\ \/ /\ spawned \in alive /\ To("agent")
        /\ site' = [site EXCEPT !.work = IF snapKey THEN site.snap ELSE 0]
     \/ Fails /\ UNCHANGED site
  /\ UNCHANGED <<row, snapKey, alive, spawned, agent, heard, watch, counters, faults>>

----------------------------------------------------------------------------
(* The agent's run.                                                        *)

\* Run: create the session, report it, open the stream, then prompt.  The pass of a
\* resumed build reports to hooks without OnSession (resumeBuild).
Prompted(s, pc) ==
  /\ agent' = [agent EXCEPT ![s] = "working"]
  /\ heard' = {}
  /\ row' = IF orch.attached THEN row ELSE [row EXCEPT !.session = s]
  /\ orch' = [orch EXCEPT !.pc = pc, !.on = s]

StartAgent ==
  /\ orch.pc = "agent"
  /\ \/ spawned \in alive /\ Prompted("main", "consume")
     \/ To("salvage") /\ UNCHANGED <<agent, heard, row>>
  /\ UNCHANGED <<snapKey, alive, spawned, watch, site, counters, faults>>

\* The agent: it edits, it deploys, and its session ends.
AgentEdits(s) ==
  /\ agent[s] = "working" /\ spawned \in alive /\ site.work < MaxVersion
  /\ site' = [site EXCEPT !.work = @ + 1] /\ watch' = [watch EXCEPT !.grew = TRUE]
  /\ UNCHANGED <<orch, row, snapKey, alive, spawned, agent, heard, counters, faults>>

AgentDeploys(s) ==
  /\ agent[s] = "working" /\ spawned \in alive /\ site.live # site.work
  /\ site' = [site EXCEPT !.live = site.work] /\ watch' = [watch EXCEPT !.grew = TRUE]
  /\ UNCHANGED <<orch, row, snapKey, alive, spawned, agent, heard, counters, faults>>

\* Events are live, not replayed: a stream opened later does not carry this one.
AgentEnds(s) ==
  /\ agent[s] = "working" /\ spawned \in alive
  /\ \E how \in {"idle", "error"} : agent' = [agent EXCEPT ![s] = how]
  /\ heard' = IF orch.pc \in Waiting THEN heard \cup {s} ELSE heard
  /\ UNCHANGED <<orch, row, snapKey, alive, spawned, watch, site, counters, faults>>

\* consume: session.idle of the session waited on.
ConsumeIdle ==
  /\ orch.pc \in Waiting /\ orch.on \in heard /\ agent[orch.on] = "idle"
  /\ To(IF orch.pc = "polish" THEN "resave" ELSE "save")
  /\ UNCHANGED <<row, snapKey, alive, spawned, agent, heard, watch, site, counters, faults>>

\* session.error, the stream of a machine that is gone, a broken stream or the deadline; a
\* polish pass is given up, the site kept.
ConsumeFails ==
  /\ orch.pc \in Waiting
  /\ To(IF orch.pc = "polish" THEN "destroy" ELSE "salvage")
  /\ UNCHANGED <<row, snapKey, alive, spawned, agent, heard, watch, site, counters, faults>>

----------------------------------------------------------------------------
(* finalize.                                                               *)

\* After an error: stop the agent, which may fail unnoticed, then save its progress so
\* that a retry resumes.
Salvage ==
  /\ orch.pc = "salvage"
  /\ \/ agent' = [s \in Sessions |-> IF spawned \in alive /\ agent[s] = "working" THEN "error" ELSE agent[s]]
     \/ UNCHANGED agent
  /\ \/ /\ spawned \in alive /\ site' = [site EXCEPT !.snap = site.work]
        /\ orch' = [orch EXCEPT !.pc = "destroy", !.failed = TRUE, !.saved = TRUE]
     \/ Fails /\ UNCHANGED site
  /\ UNCHANGED <<row, snapKey, alive, spawned, heard, watch, counters, faults>>

SaveSnapshot ==
  /\ orch.pc \in {"save", "resave"}
  /\ LET next == IF orch.pc = "save" THEN "review" ELSE "destroy" IN
     \/ /\ spawned \in alive /\ site' = [site EXCEPT !.snap = site.work]
        /\ orch' = [orch EXCEPT !.pc = next, !.saved = TRUE]
     \/ To(next) /\ UNCHANGED site
  /\ UNCHANGED <<row, snapKey, alive, spawned, agent, heard, watch, counters, faults>>

\* The audit, the critique and the form check find nothing, or too little time is left.
ReviewClean ==
  /\ orch.pc = "review" /\ To("destroy")
  /\ UNCHANGED <<row, snapKey, alive, spawned, agent, heard, watch, site, counters, faults>>

\* runFixRound: a fresh session in the same sandbox.
StartPolish ==
  /\ orch.pc = "review" /\ spawned \in alive
  /\ Prompted("polish", "polish")
  /\ UNCHANGED <<snapKey, alive, spawned, watch, site, counters, faults>>

\* The deferred DestroySandbox, best effort.
Destroy ==
  /\ orch.pc = "destroy" /\ To("finish")
  /\ \/ alive' = alive \ {spawned} /\ UNCHANGED faults
     \/ Fault /\ UNCHANGED alive
  /\ UNCHANGED <<row, snapKey, spawned, agent, heard, watch, site, counters>>

\* Verify polls the address until it answers 200 with a body, for two minutes: a site that
\* was deployed may come up in time, one that was not never does.
Verified == IF site.live > 0 THEN BOOLEAN ELSE {FALSE}

\* finishBuild: verify the site, then record the outcome and the key.
Finish ==
  /\ orch.pc = "finish"
  /\ \E up \in Verified : LET ok == ~orch.failed /\ up IN
       /\ row' = [row EXCEPT !.status = IF ok THEN "preview_ready" ELSE "failed"]
       /\ snapKey' = (snapKey \/ orch.saved)
  /\ orch' = Idle
  /\ UNCHANGED <<alive, spawned, agent, heard, watch, site, counters, faults>>

----------------------------------------------------------------------------
(* Restart, re-attachment and the watchdog.                                *)

Crash ==
  /\ orch.pc \notin {"idle", "down"} /\ crashes < MaxCrashes
  /\ crashes' = crashes + 1
  /\ orch' = [Idle EXCEPT !.pc = "down"] /\ heard' = {}
  /\ UNCHANGED <<row, snapKey, alive, spawned, agent, watch, site, builds, faults>>

Reachable == row.machine # 0 /\ row.machine \in alive /\ row.session # NoSession

\* reattachInterrupted and Attach: open the stream and wait for the session on record.
Reattach ==
  /\ orch.pc = "down" /\ Reachable
  /\ orch' = [Idle EXCEPT !.pc = "consume", !.attached = TRUE, !.on = row.session]
  /\ heard' = {} /\ watch' = Quiet
  /\ UNCHANGED <<row, snapKey, alive, spawned, agent, site, counters, faults>>

\* reapInterrupted: no handle, the deadline past, or the sandbox gone.
ReapInterrupted ==
  /\ orch.pc = "down"
  /\ \/ alive' = (IF row.machine # 0 THEN alive \ {row.machine} ELSE alive) /\ UNCHANGED faults
     \/ row.machine # 0 /\ Fault /\ UNCHANGED alive
  /\ row' = [row EXCEPT !.status = "failed"]
  /\ orch' = Idle
  /\ UNCHANGED <<snapKey, spawned, agent, heard, watch, site, counters>>

\* A minute passes while an attached build waits: the token count of all sessions has
\* grown, or one more quiet minute is counted.  A failed query reads as no tokens: assumed,
\* a session at work makes a model call, and a query of it is answered, within the limit.
Attached == orch.attached /\ orch.pc = "consume"

\* Weakened: the tokens of the attached build's first session only.
TickMainOnly ==
  /\ Attached /\ watch.ticks < FrozenLimit
  /\ "main" \in Working /\ spawned \in alive /\ ~watch.grew => watch.ticks + 1 < FrozenLimit
  /\ watch' = [ticks |-> IF watch.grew THEN 0 ELSE watch.ticks + 1, grew |-> FALSE]
  /\ UNCHANGED <<orch, row, snapKey, alive, spawned, agent, heard, site, counters, faults>>

Tick ==
  /\ Attached /\ watch.ticks < FrozenLimit
  /\ Working # {} /\ spawned \in alive /\ ~watch.grew => watch.ticks + 1 < FrozenLimit
  /\ watch' = [ticks |-> IF watch.grew THEN 0 ELSE watch.ticks + 1, grew |-> FALSE]
  /\ UNCHANGED <<orch, row, snapKey, alive, spawned, agent, heard, site, counters, faults>>

\* Weakened: one quiet minute more than are counted.
FinaliseLate ==
  /\ Attached /\ watch.ticks > FrozenLimit /\ To("save")
  /\ UNCHANGED <<row, snapKey, alive, spawned, agent, heard, watch, site, counters, faults>>

\* "The build finished while the connection was down": finalised as a success.
Finalise ==
  /\ Attached /\ watch.ticks >= FrozenLimit /\ To("save")
  /\ UNCHANGED <<row, snapKey, alive, spawned, agent, heard, watch, site, counters, faults>>

\* Weakened: only machines some iteration has on record.
SweepKnown ==
  \E m \in alive :
    /\ row.status # "building" /\ row.machine = m
    /\ alive' = alive \ {m}
    /\ UNCHANGED <<orch, row, snapKey, spawned, agent, heard, watch, site, counters, faults>>

\* SweepSandboxes: machines past the grace (which covers a spawn) that no active
\* iteration names.
Sweep ==
  \E m \in alive :
    /\ row.status # "building" \/ row.machine # m
    /\ m = spawned => orch.pc \notin {"boot"}
    /\ alive' = alive \ {m}
    /\ UNCHANGED <<orch, row, snapKey, spawned, agent, heard, watch, site, counters, faults>>

----------------------------------------------------------------------------
BuildStep ==
  \/ Prepare \/ PrepareFails \/ CreateMachine \/ CreateUnseen \/ CreateConflict
  \/ SpawnReady \/ SpawnFails \/ Seed \/ StartAgent \/ ConsumeIdle \/ ConsumeFails
  \/ Salvage \/ SaveSnapshot \/ ReviewClean \/ StartPolish \/ Destroy \/ Finish

AgentStep == \E s \in Sessions : AgentEdits(s) \/ AgentDeploys(s) \/ AgentEnds(s)

Recover == Reattach \/ ReapInterrupted

Next == StartBuild \/ BuildStep \/ AgentStep \/ Crash \/ Recover \/ Tick \/ Finalise \/ Sweep

Spec == Init /\ [][Next]_vars

\* Startup recovers, the ticker ticks, the reaper sweeps, a goroutine that can go on
\* does.  Nobody makes an agent end or a stream break.
Fairness ==
  /\ WF_vars(Recover) /\ WF_vars(Tick) /\ WF_vars(Finalise) /\ WF_vars(Sweep)
  /\ WF_vars(orch.pc \notin Waiting /\ BuildStep) /\ WF_vars(ConsumeIdle)
  /\ WF_vars((orch.on \in heard \/ spawned \notin alive) /\ ConsumeFails)

FairSpec == Spec /\ Fairness

----------------------------------------------------------------------------
(* Properties.                                                             *)

\* A build is finalised as a success - saved, reviewed, reported - only when no agent
\* session works in its sandbox any more, the polish pass included: neither restarts nor
\* missed events make the watchdog take a working agent for a finished one (Attach).
FinalisedAfterAgent == orch.pc \in {"save", "review", "resave"} => Working = {} \/ spawned \notin alive

\* A re-attached build whose agent ended unheard, before the stream was opened, does not
\* wait for its deadline: the watchdog ends it (opencode.go:187).
AttachedFinishes == (Attached /\ Working = {}) ~> ~Attached

\* Every sandbox is destroyed in the end, whatever was lost, failed or restarted, unless
\* an agent works in it for ever: no machine burns tokens for a build that is over.
MachineReleased == alive # {} ~> (alive = {} \/ Working # {})

\* While the orchestrator waits for a session, that session is the one on record, so that
\* a restart re-attaches to the agent that works ("whatever session id is persisted is
\* what a restarted orchestrator re-attaches to", builder.go:779).
WorkingSessionOnRecord == orch.pc \in Waiting => row.session = orch.on
=============================================================================
