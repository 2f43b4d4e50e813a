------------------------------ MODULE Pipeline ------------------------------
(***************************************************************************)
(* One project driven by internal/orchestrator: the web handlers that flip *)
(* its row, the background goroutines (asyncWithPaidChangeRefund) that     *)
(* carry it through intake, concepts, plan, safety gate and sandboxed      *)
(* builds, the recovery sweep (RecoverInterrupted, Reap) and crashes.      *)
(*                                                                         *)
(* Concurrency control is the version column: UpdateProject succeeds only  *)
(* for a copy loaded at the current version.  Every successful write bumps *)
(* the version, so a held copy is worth keeping only as long as it is      *)
(* identical to the row: `fresh' is the set of actors whose copy is.       *)
(* A handler that loads, checks and saves without a slow call in between   *)
(* is one action: its save succeeds exactly if nothing came in between,    *)
(* and a conflict changes nothing.  A goroutine that holds its copy over a *)
(* slow call (an LLM, a build) has one action for each side of the call.   *)
(* Iteration rows carry no version: the last writer wins.                  *)
(***************************************************************************)
EXTENDS Project, FiniteSets

CONSTANTS
  Workers,        \* goroutine slots for the project's pipeline steps
  MaxBuilds,      \* iteration rows that fit the daily build cap
  MaxCrashes,     \* bound: process crashes or deploys
  MaxFaults,      \* bound: database writes that fail for good
  Allowed         \* optional operations of a run, a subset of Optional

\* Operations a run may leave out to keep its state space small.
Optional == {"payment", "unpay", "fix", "teardown", "expiry", "touch", "doubleclick", "quiet"}

ASSUME PipelineAssumption ==
  /\ MaxBuilds \in Nat \ {0}
  /\ MaxCrashes \in Nat /\ MaxFaults \in Nat
  /\ Allowed \subseteq Optional
  /\ "webhook" \notin Workers

VARIABLES
  row,        \* the projects row
  fresh,      \* actors whose in-memory copy has the row's current version
  its,        \* the project's iterations rows, and the sandbox each names
  worker,     \* the pipeline goroutines
  active,     \* Orchestrator.active[projectID]
  webhook,    \* the tail of SubscriptionStarted: the auto-accept
  janitor,    \* RecoverInterrupted / the zombie pass of Reap
  todo,       \* the iterations the janitor's query returned, not yet handled
  up,         \* startup recovery is over: HTTP is served, the reaper runs
  crashes, faults

vars == <<row, fresh, its, worker, active, webhook, janitor, todo, up, crashes, faults>>

Builds == 1 .. MaxBuilds

\* What a build is for; it decides its number, its prompt and its tail.
\*   first  : no prompt, numbered       change : customer's prompt, numbered
\*   fix    : operator's prompt, #0     review : a fix on an accepted project
Kind == {"first", "change", "fix", "review"}

Internal(kind) == kind \in {"fix", "review"}

\* Program counters: before a load, before a save, or inside a slow call.
SetupPC == {"intake", "intakeSave", "questions", "concepts", "art", "plan",
            "planSave", "planner", "gate", "approve", "approveSave", "sweep"}
BuildPC == {"load", "prepare", "spawn", "session", "resume", "agent", "verify",
            "record", "publish"}
TailPC  == {"reaccept", "reacceptSave", "fail"}
PC      == {"idle"} \cup SetupPC \cup BuildPC \cup TailPC

Goroutine == [pc : PC, it : 0 .. MaxBuilds, kind : Kind]    \* it = 0: none yet

Idle == [pc |-> "idle", it |-> 0, kind |-> "first"]

Iteration == [status : {"none", "building", "failed", "preview_ready"},
              number : Nat, change : BOOLEAN,
              handle : {"none", "machine", "session"}, alive : BOOLEAN]

NoIteration == [status |-> "none", number |-> 0, change |-> FALSE,
                handle |-> "none", alive |-> FALSE]

ActiveIterations == {i \in Builds : its[i].status = "building"}

TypeOK ==
  /\ row \in Row
  /\ fresh \subseteq Workers \cup {"webhook"}
  /\ its \in [Builds -> Iteration]
  /\ worker \in [Workers -> Goroutine]
  /\ active \in BOOLEAN
  /\ webhook \in {"none", "pending", "loaded"}
  /\ janitor \in {"idle", "sweep", "mark"}
  /\ todo \subseteq Builds
  /\ up \in BOOLEAN
  /\ crashes \in 0 .. MaxCrashes
  /\ faults \in 0 .. MaxFaults

-----------------------------------------------------------------------------
(* Building blocks. *)

\* A save that leaves the writer's copy current, and one that leaves nobody's.
Save(w, r) == row' = r /\ fresh' = {w}
Write(r)   == row' = r /\ fresh' = {}
Load(w)    == fresh' = fresh \cup {w} /\ UNCHANGED row

Goto(w, pc) == worker' = [worker EXCEPT ![w].pc = pc]

\* asyncWithPaidChangeRefund: mark the project active and start a goroutine;
\* when any one of them returns, the mark is gone.
Async(w, pc, kind, i) ==
  /\ worker[w].pc = "idle"
  /\ worker' = [worker EXCEPT ![w] = [pc |-> pc, it |-> i, kind |-> kind]]
  /\ active' = TRUE

Return(w) == worker' = [worker EXCEPT ![w] = Idle] /\ active' = FALSE

NoFault == UNCHANGED faults
Fault   == faults < MaxFaults /\ faults' = faults + 1

\* What a goroutine's step never touches.
Elsewhere == UNCHANGED <<webhook, janitor, todo, up, crashes>>

\* What a request handler never touches.
Request == up /\ UNCHANGED <<its, webhook, janitor, todo, up, crashes, faults>>

-----------------------------------------------------------------------------
(* Requests of the customer and the operator. *)

ApproveAccess(w) ==
  /\ row.status = "pending_access_approval"
  /\ Write(At(row, "created"))
  /\ Async(w, "intake", "first", 0)
  /\ Request

RejectAccess ==
  /\ row.status = "pending_access_approval"
  /\ Write([At(row, "rejected") EXCEPT !.verdict = "reject"])
  /\ Request /\ UNCHANGED <<worker, active>>

\* The answers form always carries a design direction: StartIntake offers at
\* least two and the handler refuses a submission without one.
SubmitAnswers(w) ==
  /\ row.status = "needs_input"
  /\ Write([At(row, "concepting") EXCEPT !.design = TRUE])
  /\ Async(w, "concepts", "first", 0)
  /\ Request

SelectConcept(w) ==
  /\ row.status = "needs_concept"
  /\ Write([At(row, "planning") EXCEPT !.design = TRUE])
  /\ Async(w, "plan", "first", 0)
  /\ Request

ApprovePlan(w) ==
  /\ CanApprovePlan(row)
  /\ Write(At(row, "building"))
  /\ Async(w, "load", "first", 0)
  /\ Request

\* Weakened: the flip to "building" is left to the goroutine.
ReiterateWithoutFlip(w) ==
  /\ IF row.paid THEN CanRequestChange(row) ELSE CanReiterate(row)
  /\ Write(row)
  /\ Async(w, "load", "change", 0)
  /\ Request

Reiterate(w) ==
  /\ IF row.paid THEN CanRequestChange(row) ELSE CanReiterate(row)
  /\ Write(At(row, "building"))
  /\ Async(w, "load", "change", 0)
  /\ Request

RetryBuild(w) ==
  /\ CanRetry(row)
  /\ \/ /\ RetryConcepts(row)
        /\ Write(At(row, "concepting"))
        /\ Async(w, "concepts", "first", 0)
     \/ /\ ~RetryConcepts(row)
        /\ Write(At(row, "building"))
        /\ Async(w, "sweep", "first", 0)
  /\ Request

\* Weakened: paying is enough to go live.
AcceptPreviewPaid ==
  /\ CanAccept(row)
  /\ Write(At(row, IF row.paid THEN "delivered" ELSE "accepted"))
  /\ Request /\ UNCHANGED <<worker, active>>

\* A site delivered once goes live again on the customer's word alone.
AcceptPreview ==
  /\ CanAccept(row)
  /\ Write(At(row, IF row.paid /\ row.delivered THEN "delivered" ELSE "accepted"))
  /\ Request /\ UNCHANGED <<worker, active>>

\* Weakened: handed over before the payment.
DeliverUnpaid ==
  /\ row.status = "accepted"
  /\ Write([At(row, "delivered") EXCEPT !.delivered = TRUE])
  /\ Request /\ UNCHANGED <<worker, active>>

DeliverProject ==
  /\ row.status = "accepted"
  /\ row.paid
  /\ Write([At(row, "delivered") EXCEPT !.delivered = TRUE])
  /\ Request /\ UNCHANGED <<worker, active>>

ReturnToCustomer ==
  /\ row.status = "accepted"
  /\ Write(At(row, "preview_ready"))
  /\ Request /\ UNCHANGED <<worker, active>>

OperatorIterate(w) ==
  /\ "fix" \in Allowed
  /\ row.status \in {"accepted", "preview_ready"}
  /\ Write(At(row, "building"))
  /\ Async(w, "load", IF row.status = "accepted" THEN "review" ELSE "fix", 0)
  /\ Request

\* The status is only checked in the goroutine: two clicks start two of them.
ApproveEscalated(w) ==
  /\ row.status = "escalated"
  /\ "doubleclick" \in Allowed \/ \A v \in Workers : worker[v].pc = "idle"
  /\ Async(w, "approve", "first", 0)
  /\ UNCHANGED <<row, fresh>>
  /\ Request

\* Weakened: the status lands in the verdict column.
RejectEscalatedTwice ==
  /\ row.status = "escalated"
  /\ Write([At(row, "rejected") EXCEPT !.verdict = "rejected"])
  /\ Request /\ UNCHANGED <<worker, active>>

RejectEscalated ==
  /\ row.status = "escalated"
  /\ Write([At(row, "rejected") EXCEPT !.verdict = "reject"])
  /\ Request /\ UNCHANGED <<worker, active>>

\* The operator's takedown has no guard on the status.
DestroyPreview ==
  /\ "teardown" \in Allowed
  /\ Write(At(row, "expired"))
  /\ Request /\ UNCHANGED <<worker, active>>

MarkPaid ==
  /\ "payment" \in Allowed
  /\ ~row.paid
  /\ Write([row EXCEPT !.paid = TRUE])
  /\ Request /\ UNCHANGED <<worker, active>>

MarkUnpaid ==
  /\ "unpay" \in Allowed
  /\ Write([row EXCEPT !.paid = FALSE])
  /\ Request /\ UNCHANGED <<worker, active>>

\* Any other writer of the row: content answers, model settings, the code
\* review, the preview healer.  It changes no column kept here.
TouchRow ==
  /\ "touch" \in Allowed
  /\ fresh # {}
  /\ Write(row)
  /\ Request /\ UNCHANGED <<worker, active>>

-----------------------------------------------------------------------------
(* The goroutines before the first build. *)

\* A step that loads the project and returns at once unless it is where the
\* step expects it.
LoadOrReturn(w, pc, expected, next) ==
  /\ worker[w].pc = pc
  /\ \/ /\ row.status = expected
        /\ Load(w) /\ Goto(w, next) /\ UNCHANGED active
     \/ /\ row.status # expected
        /\ Return(w) /\ UNCHANGED <<row, fresh>>
  /\ UNCHANGED its /\ NoFault /\ Elsewhere

\* A save of the copy loaded earlier, which ErrConflict turns into a failure.
SaveOrFail(w, pc, r, next) ==
  /\ worker[w].pc = pc
  /\ \/ w \in fresh /\ Save(w, r) /\ Goto(w, next)
     \/ w \notin fresh /\ Goto(w, "fail") /\ UNCHANGED <<row, fresh>>
  /\ UNCHANGED <<its, active>> /\ NoFault /\ Elsewhere

\* The same when the save is the goroutine's last step.
FinishOrFail(w, pc, r) ==
  /\ worker[w].pc = pc
  /\ \/ w \in fresh /\ Write(r) /\ Return(w)
     \/ w \notin fresh /\ Goto(w, "fail") /\ UNCHANGED <<row, fresh, active>>
  /\ UNCHANGED its /\ NoFault /\ Elsewhere

StartIntake(w) ==
  \/ LoadOrReturn(w, "intake", "created", "intakeSave")
  \/ SaveOrFail(w, "intakeSave", At(row, "clarifying"), "questions")
  \/ FinishOrFail(w, "questions", At(row, "needs_input"))

RunConcepts(w) ==
  \/ LoadOrReturn(w, "concepts", "concepting", "art")
  \/ FinishOrFail(w, "art", [At(row, "needs_concept") EXCEPT !.concepts = TRUE])

\* Planning starts from whatever status the row has.
LoadPlan(w) ==
  /\ worker[w].pc = "plan"
  /\ Load(w) /\ Goto(w, "planSave")
  /\ UNCHANGED <<its, active>> /\ NoFault /\ Elsewhere

\* The plan is saved before the safety gate is asked about it.
RunPlanGate(w) ==
  \/ LoadPlan(w)
  \/ SaveOrFail(w, "planSave", At(row, "planning"), "planner")
  \/ SaveOrFail(w, "planner", [At(row, "screening") EXCEPT !.plan = TRUE], "gate")
  \/ FinishOrFail(w, "gate", [At(row, "rejected") EXCEPT !.verdict = "reject"])
  \/ FinishOrFail(w, "gate", [At(row, "escalated") EXCEPT !.verdict = "escalate"])
  \/ FinishOrFail(w, "gate", [At(row, "awaiting_approval") EXCEPT !.verdict = "allow"])

\* An LLM call that errors or times out, or returns the wrong number of concepts.
StepFails(w) ==
  /\ worker[w].pc \in {"questions", "art", "planner", "gate"}
  /\ Goto(w, "fail")
  /\ UNCHANGED <<row, fresh, its, active>> /\ NoFault /\ Elsewhere

ClearEscalation(w) ==
  \/ LoadOrReturn(w, "approve", "escalated", "approveSave")
  \/ FinishOrFail(w, "approveSave", [At(row, "awaiting_approval") EXCEPT !.verdict = "allow"])

\* The end of every goroutine that returns an error.  The row is reloaded and
\* saved even when markFailed leaves it as it is.  The pipeline's own deadline
\* or the database can make the write fail: then nothing records the failure.
MarkFailed(w) ==
  /\ worker[w].pc = "fail"
  /\ Return(w)
  /\ \/ Write(MarkedFailed(row)) /\ NoFault
     \/ UNCHANGED <<row, fresh>> /\ Fault
  /\ UNCHANGED its /\ Elsewhere

-----------------------------------------------------------------------------
(* The goroutines that build. *)

\* The iterations after the sweep, but for the writes that were lost.
Swept(lost) ==
  [i \in Builds |-> IF i \in ActiveIterations
                    THEN [its[i] EXCEPT !.status = IF i \in lost THEN @ ELSE "failed",
                                        !.alive = FALSE]
                    ELSE its[i]]

\* RetryBuild's defensive sweep, then a new plan or the build.  An error of the
\* listing or of an iteration's write is ignored.  (The closure asks the row it
\* flipped; only a planner holding a current copy could have added a plan
\* since, and the flip made every copy stale.)
Sweep(w) ==
  /\ worker[w].pc = "sweep"
  /\ \/ its' = Swept({}) /\ NoFault
     \/ Fault /\ \E lost \in SUBSET ActiveIterations : its' = Swept(lost)
     \/ Fault /\ UNCHANGED its
  /\ Goto(w, IF row.plan THEN "load" ELSE "plan")
  /\ UNCHANGED <<row, fresh, active>> /\ Elsewhere

FreeIterations == {i \in Builds : its[i].status = "none"}

\* Weakened: the budget is left to the request's check.
NeverOverBudget(kind) == FALSE

OverBudget(kind) == kind = "change" /\ ~row.paid /\ row.used >= MaxIterations

\* The first half of runBuild, up to ReserveIteration.
Reserve(w) ==
  LET kind == worker[w].kind
  IN  /\ worker[w].pc = "load"
      /\ ~OverBudget(kind)
      /\ \E i \in FreeIterations :
           /\ \A k \in FreeIterations : i <= k
           /\ its' = [its EXCEPT ![i] =
                        [NoIteration EXCEPT !.status = "building",
                                            !.number = IF Internal(kind) THEN 0 ELSE row.used + 1,
                                            !.change = kind # "first"]]
           /\ worker' = [worker EXCEPT ![w].pc = "prepare", ![w].it = i]
      /\ UNCHANGED <<row, fresh, active>> /\ NoFault /\ Elsewhere

\* No budget left, no capacity for another build (other projects' builds count
\* too), or no key for the agent.
ReserveFails(w) ==
  /\ worker[w].pc = "load"
  /\ Goto(w, "fail")
  /\ UNCHANGED <<row, fresh, its, active>> /\ NoFault /\ Elsewhere

\* Clearing ContentPending is a write of its own; if it fails for good, the
\* reservation is released, unless what made it fail takes that write as well.
Prepare(w) ==
  /\ worker[w].pc = "prepare"
  /\ \/ Save(w, row) /\ Goto(w, "spawn") /\ UNCHANGED its /\ NoFault
     \/ /\ Fault
        /\ its' \in {its, [its EXCEPT ![worker[w].it].status = "failed"]}
        /\ Goto(w, "fail") /\ UNCHANGED <<row, fresh>>
  /\ UNCHANGED active /\ Elsewhere

\* A build's own writes of its iteration row carry every column it holds,
\* the status "building" included.  Spawning frees the machine's name first.
Spawn(w) ==
  /\ worker[w].pc = "spawn"
  /\ its' = [i \in Builds |->
               IF i = worker[w].it
               THEN [its[i] EXCEPT !.status = "building", !.handle = "machine", !.alive = TRUE]
               ELSE [its[i] EXCEPT !.alive = FALSE]]
  /\ Goto(w, "session")
  /\ UNCHANGED <<row, fresh, active>> /\ NoFault /\ Elsewhere

StartSession(w) ==
  /\ worker[w].pc = "session"
  /\ its[worker[w].it].alive
  /\ its' = [its EXCEPT ![worker[w].it] = [@ EXCEPT !.status = "building", !.handle = "session"]]
  /\ Goto(w, "agent")
  /\ UNCHANGED <<row, fresh, active>> /\ NoFault /\ Elsewhere

\* A resumed build loads the project and goes on reading the agent's events.
Resume(w) ==
  /\ worker[w].pc = "resume"
  /\ Load(w) /\ Goto(w, "agent")
  /\ UNCHANGED <<its, active>> /\ NoFault /\ Elsewhere

\* Every eighth log line is persisted.
LogProgress(w) ==
  /\ worker[w].pc = "agent"
  /\ its[worker[w].it].alive
  /\ its' = [its EXCEPT ![worker[w].it].status = "building"]
  /\ UNCHANGED <<row, fresh, worker, active>> /\ NoFault /\ Elsewhere

\* The agent is done; the builder destroys the sandbox before it returns.
AgentReturns(w) ==
  /\ worker[w].pc = "agent"
  /\ its[worker[w].it].alive
  /\ its' = [its EXCEPT ![worker[w].it].alive = FALSE]
  /\ Goto(w, "verify")
  /\ UNCHANGED <<row, fresh, active>> /\ NoFault /\ Elsewhere

\* The build or the verification of the deployed site fails: the iteration is
\* recorded as failed (an error of that write is ignored), and the project gets
\* the key of the snapshot a retry resumes from, if one was saved.
BuildFails(w) ==
  /\ worker[w].pc \in {"spawn", "session", "agent", "verify"}
  /\ \/ its' = [its EXCEPT ![worker[w].it] = [@ EXCEPT !.status = "failed", !.alive = FALSE]]
        /\ NoFault
     \/ its' = [its EXCEPT ![worker[w].it].alive = FALSE] /\ Fault
  /\ fresh' \in {fresh, {}}
  /\ Goto(w, "fail")
  /\ UNCHANGED <<row, active>> /\ Elsewhere

\* The deployed site answers.  A first preview's address is seeded through the
\* copy the build holds, so that the branded host can serve it; a conflict is
\* only logged.
Verified(w) ==
  /\ worker[w].pc = "verify"
  /\ IF w \in fresh /\ ~row.url
     THEN Save(w, [row EXCEPT !.url = TRUE])
     ELSE UNCHANGED <<row, fresh>>
  /\ Goto(w, "record")
  /\ UNCHANGED <<its, active>> /\ NoFault /\ Elsewhere

\* The iteration first, the project after it; each write may fail on its own.
Record(w) ==
  /\ worker[w].pc = "record"
  /\ \/ its' = [its EXCEPT ![worker[w].it].status = "preview_ready"]
        /\ Goto(w, "publish") /\ NoFault
     \/ Goto(w, "fail") /\ Fault /\ UNCHANGED its
  /\ UNCHANGED <<row, fresh, active>> /\ Elsewhere

\* Weakened: counts passes instead of taking the number of this one.
PublishedCounting(number) ==
  [At(row, "preview_ready") EXCEPT !.url = TRUE, !.used = @ + 1]

\* The build's outcome goes onto the current row, whatever its status is now.
Published(number) ==
  [At(row, "preview_ready") EXCEPT !.url = TRUE, !.used = IF number > 0 THEN number ELSE @]

Publish(w) ==
  /\ worker[w].pc = "publish"
  /\ \/ /\ Write(Published(its[worker[w].it].number)) /\ NoFault
        /\ IF worker[w].kind = "review"
           THEN Goto(w, "reaccept") /\ UNCHANGED active
           ELSE Return(w)
     \/ Goto(w, "fail") /\ Fault /\ UNCHANGED <<row, fresh, active>>
  /\ UNCHANGED its /\ Elsewhere

\* OperatorIterate's tail on a project that was accepted.
Reaccept(w) ==
  \/ LoadOrReturn(w, "reaccept", "preview_ready", "reacceptSave")
  \/ FinishOrFail(w, "reacceptSave", At(row, "accepted"))

-----------------------------------------------------------------------------
(* The tail of SubscriptionStarted: paying is accepting. *)

SubscriptionStarted ==
  /\ "payment" \in Allowed
  /\ up /\ webhook = "none" /\ ~row.paid
  /\ Write([row EXCEPT !.paid = TRUE])
  /\ webhook' = "pending"
  /\ UNCHANGED <<its, worker, active, janitor, todo, up, crashes, faults>>

AutoAcceptLoad ==
  /\ webhook = "pending"
  /\ \/ row.status = "preview_ready" /\ webhook' = "loaded" /\ Load("webhook")
     \/ row.status # "preview_ready" /\ webhook' = "none" /\ UNCHANGED <<row, fresh>>
  /\ UNCHANGED <<its, worker, active, janitor, todo, up, crashes, faults>>

\* A conflict is logged and the acceptance is lost.
AutoAcceptSave ==
  /\ webhook = "loaded"
  /\ \/ "webhook" \in fresh /\ Write(At(row, "accepted"))
     \/ "webhook" \notin fresh /\ UNCHANGED <<row, fresh>>
  /\ webhook' = "none"
  /\ UNCHANGED <<its, worker, active, janitor, todo, up, crashes, faults>>

-----------------------------------------------------------------------------
(* Crashes, startup recovery and the periodic reaper. *)

Crash ==
  /\ crashes < MaxCrashes
  /\ crashes' = crashes + 1
  /\ worker' = [w \in Workers |-> Idle]
  /\ active' = FALSE /\ fresh' = {} /\ webhook' = "none"
  /\ up' = FALSE /\ janitor' = "sweep" /\ todo' = ActiveIterations
  /\ UNCHANGED <<row, its, faults>>

\* Weakened: the heartbeat is not looked at.
SilentOrNot == ActiveIterations

\* Iterations whose heartbeat is 20 minutes old: nobody drives them, or the
\* agent of one that is driven has been silent that long.
Silent ==
  {i \in ActiveIterations :
     "quiet" \in Allowed \/ \A w \in Workers : worker[w].it # i}

\* The reaper's tick.
ReaperTick ==
  /\ up /\ janitor = "idle"
  /\ Silent # {}
  /\ janitor' = "sweep" /\ todo' = Silent
  /\ UNCHANGED <<row, fresh, its, worker, active, webhook, up, crashes, faults>>

\* Only the reaper asks hasActive; startup recovery takes every iteration.
Undriven == ~up \/ ~active

ReaperSkips(i) ==
  /\ janitor = "sweep" /\ i \in todo /\ ~Undriven
  /\ todo' = todo \ {i}
  /\ UNCHANGED <<row, fresh, its, worker, active, webhook, janitor, up, crashes, faults>>

Reattach(i, w) ==
  /\ janitor = "sweep" /\ i \in todo /\ Undriven
  /\ its[i].handle = "session" /\ its[i].alive
  /\ todo' = todo \ {i}
  /\ Async(w, "resume", CASE its[i].number = 0 -> "fix"
                          [] its[i].change /\ its[i].number > 0 -> "change"
                          [] OTHER -> "first", i)
  /\ UNCHANGED <<row, fresh, its, webhook, janitor, up, crashes, faults>>

\* Weakened: leaves the iteration as it is.
ReapMachineOnly(i) ==
  /\ janitor = "sweep" /\ i \in todo /\ Undriven
  /\ todo' = todo \ {i}
  /\ its' = [its EXCEPT ![i].alive = FALSE] /\ NoFault
  /\ janitor' = "mark"
  /\ UNCHANGED <<row, fresh, worker, active, webhook, up, crashes>>

\* Past its deadline or out of reach.  The iteration's write may be lost.
Reap(i) ==
  /\ janitor = "sweep" /\ i \in todo /\ Undriven
  /\ todo' = todo \ {i}
  /\ \/ its' = [its EXCEPT ![i] = [@ EXCEPT !.status = "failed", !.alive = FALSE]] /\ NoFault
     \/ its' = [its EXCEPT ![i].alive = FALSE] /\ Fault
  /\ janitor' = "mark"
  /\ UNCHANGED <<row, fresh, worker, active, webhook, up, crashes>>

ReapMark ==
  /\ janitor = "mark"
  /\ Write(MarkedFailed(row))
  /\ janitor' = "sweep"
  /\ UNCHANGED <<its, worker, active, webhook, todo, up, crashes, faults>>

\* The end of a pass.  The reaper then destroys the machines no building
\* iteration owns; startup recovery does not, but serves HTTP from here on.
SweepSandboxes ==
  /\ janitor = "sweep" /\ todo = {}
  /\ its' = [i \in Builds |-> IF up /\ i \notin ActiveIterations
                              THEN [its[i] EXCEPT !.alive = FALSE] ELSE its[i]]
  /\ janitor' = "idle" /\ up' = TRUE
  /\ UNCHANGED <<row, fresh, worker, active, webhook, todo, crashes, faults>>

\* The reaper's pass over the projects.  Each save carries the version the
\* listing returned.
\* Weakened: only planning and screening are looked after.
FailStrandedPlans ==
  /\ up /\ row.status \in {"planning", "screening"} /\ ~active
  /\ Write(At(row, "failed"))
  /\ UNCHANGED <<its, worker, active, webhook, janitor, todo, up, crashes, faults>>

FailStranded ==
  /\ up /\ IsStuckPreBuild(row) /\ ~active
  /\ Write(At(row, "failed"))
  /\ UNCHANGED <<its, worker, active, webhook, janitor, todo, up, crashes, faults>>

ExpireIdle ==
  /\ "expiry" \in Allowed
  /\ up /\ row.status = "preview_ready" /\ ~row.paid
  /\ Write(At(row, "expired"))
  /\ UNCHANGED <<its, worker, active, webhook, janitor, todo, up, crashes, faults>>

-----------------------------------------------------------------------------

\* CreateProject: a first brief waits for the operator, any other starts intake.
Init ==
  /\ \/ /\ row = NewRow("pending_access_approval")
        /\ worker = [w \in Workers |-> Idle] /\ active = FALSE
     \/ /\ row = NewRow("created") /\ active = TRUE
        /\ \E w \in Workers :
             worker = [v \in Workers |-> IF v = w THEN [Idle EXCEPT !.pc = "intake"] ELSE Idle]
  /\ fresh = {} /\ its = [i \in Builds |-> NoIteration]
  /\ webhook = "none" /\ janitor = "idle" /\ todo = {} /\ up = TRUE
  /\ crashes = 0 /\ faults = 0

CustomerRequest(w) ==
  \/ SubmitAnswers(w) \/ SelectConcept(w) \/ ApprovePlan(w) \/ Reiterate(w) \/ RetryBuild(w)

OperatorRequest(w) == ApproveAccess(w) \/ OperatorIterate(w) \/ ApproveEscalated(w)

Decision ==
  \/ RejectAccess \/ AcceptPreview \/ DeliverProject \/ ReturnToCustomer
  \/ RejectEscalated \/ DestroyPreview \/ MarkPaid \/ MarkUnpaid

\* The steps a goroutine takes on its own account, each of which ends.
Proceed(w) ==
  \/ StartIntake(w) \/ RunConcepts(w) \/ RunPlanGate(w) \/ ClearEscalation(w)
  \/ StepFails(w) \/ MarkFailed(w)
  \/ Sweep(w) \/ Reserve(w) \/ ReserveFails(w) \/ Prepare(w) \/ Spawn(w)
  \/ StartSession(w) \/ Resume(w) \/ AgentReturns(w) \/ BuildFails(w)
  \/ Verified(w) \/ Record(w) \/ Publish(w) \/ Reaccept(w)

Webhook == SubscriptionStarted \/ AutoAcceptLoad \/ AutoAcceptSave

RecoveryStep ==
  \/ \E i \in Builds : ReaperSkips(i) \/ Reap(i) \/ \E w \in Workers : Reattach(i, w)
  \/ ReapMark \/ SweepSandboxes

Next ==
  \/ \E w \in Workers : CustomerRequest(w) \/ OperatorRequest(w) \/ Proceed(w) \/ LogProgress(w)
  \/ Decision \/ TouchRow \/ Webhook
  \/ Crash \/ ReaperTick \/ RecoveryStep \/ FailStranded \/ ExpireIdle

Spec == Init /\ [][Next]_vars

\* Goroutines run, slow calls end by their deadline, the reaper ticks.  People
\* need not act.
Fairness ==
  /\ \A w \in Workers : WF_vars(Proceed(w))
  /\ WF_vars(ReaperTick) /\ WF_vars(RecoveryStep) /\ WF_vars(FailStranded)
  /\ WF_vars(AutoAcceptLoad \/ AutoAcceptSave)

FairSpec == Spec /\ Fairness

-----------------------------------------------------------------------------
(* Properties. *)

\* Whatever path a project takes (late failures, retries, resumed builds,
\* operator fixes), what is shown, accepted or delivered has an address and
\* was produced by a build that counted.
ShownHasBuild == row.status \in Shown => row.url /\ row.used >= 1

\* A project the gate or the operator turned down, or sent to the operator,
\* is not built and shows nothing: runPlanGateBuild, RejectEscalated and
\* RejectAccess against RetryBuild and the reaper.
FlaggedNotBuilt ==
  row.verdict \in {"reject", "escalate"} => row.status \notin Shown \cup {"building", "awaiting_approval"}

\* AcceptPreview: nothing reaches "delivered" without the operator's approval,
\* given once by DeliverProject.
DeliveredWasGuaranteed == row.status = "delivered" => row.delivered

\* No build beyond the offer is reserved for a project that is not paid then,
\* whichever way it takes into runBuild and whatever was built while it was paid
\* for: CanReiterate before the flip, the goroutine's own check of the budget
\* after it (a subscription may end in between), and no check at all for a
\* retry.  The operator's fixes and lost writes lift a project over it.
FreeBuildsCapped ==
  [][\A i \in Builds :
       its[i].status = "none" /\ its'[i].status = "building" /\ ~row.paid
         => its'[i].number <= MaxIterations]_vars

\* The build the counter names is on record as the one that succeeded:
\* finishBuild writes the two rows one after the other, and the retry's sweep,
\* the reaper and the log writer overwrite iteration rows unversioned.
CounterHasRecord ==
  row.used >= 1 => \E i \in Builds : its[i].number = row.used /\ its[i].status = "preview_ready"

\* A worker between ReserveIteration and the last write of its build.
Driving(w) == worker[w].pc \in BuildPC

\* markFailed: a late failure from an obsolete pipeline must not move a project
\* whose current build goes on.
DrivenStaysBuilding ==
  [][(\E w \in Workers : Driving(w) /\ Driving(w)') /\ row.status = "building"
       => row'.status = "building"]_vars

\* At most one goroutine builds a project: the flip to "building" serialises them.
SingleBuilder == \A v, w \in Workers : Driving(v) /\ Driving(w) => v = w

\* runPlanGateBuild: nothing builds until ApprovePlan, which comes after the
\* gate.  A build begins when its iteration is reserved.
NothingBuildsUnscreened == ActiveIterations # {} => row.verdict = "allow"

\* No customer waits forever on a step only a goroutine can take.
PreBuildSettles == \A s \in PreBuild : row.status = s ~> row.status # s

\* No iteration stays "building" forever, holding its place under the cap.
IterationSettles == \A i \in Builds : its[i].status = "building" ~> its[i].status # "building"

\* RetryBuild is the recovery path for any failure: a build ends, or fails and
\* can be retried.
BuildSettles == row.status = "building" ~> row.status # "building"
=============================================================================
