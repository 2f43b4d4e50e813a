--------------------------- MODULE PipelineProofs ---------------------------
(***************************************************************************)
(* Theorems of Pipeline for every number of goroutines, builds, crashes    *)
(* and faults, and for every choice of Allowed.                            *)
(*                                                                         *)
(* The types rest on one fact that TypeOK does not say: a goroutine past   *)
(* its reservation names one of the iterations (HoldsBuild).  ShownHasBuild *)
(* rests on where a build pass that does not count can come from: only an  *)
(* operator's fix has number 0, and a fix is only started on a project     *)
(* that has a counted build.                                               *)
(***************************************************************************)
EXTENDS Pipeline, TLAPS

\* Program counters of a goroutine that has an iteration.
HoldingPC == {"prepare", "spawn", "session", "resume", "agent", "verify", "record", "publish"}

HoldsBuild == \A w \in Workers : worker[w].pc \in HoldingPC => worker[w].it \in Builds

\* TypeOK, by the parts of the state a step changes together.
RowTyped    == row \in Row /\ fresh \subseteq Workers \cup {"webhook"}
WorkerTyped == worker \in [Workers -> Goroutine] /\ active \in BOOLEAN /\ HoldsBuild
ItsTyped    == its \in [Builds -> Iteration]
RestTyped   ==
  /\ webhook \in {"none", "pending", "loaded"}
  /\ janitor \in {"idle", "sweep", "mark"}
  /\ todo \subseteq Builds
  /\ up \in BOOLEAN
  /\ crashes \in 0 .. MaxCrashes
  /\ faults \in 0 .. MaxFaults

TypeInv == RowTyped /\ WorkerTyped /\ ItsTyped /\ RestTyped

-----------------------------------------------------------------------------
(* What the building blocks of the actions do to the types. *)

LEMMA AtType ==
  ASSUME NEW p \in Row, NEW s \in Status
  PROVE  At(p, s) \in Row
  BY DEF At, Row

LEMMA MarkedFailedType ==
  ASSUME NEW p \in Row
  PROVE  MarkedFailed(p) \in Row
  BY AtType DEF MarkedFailed, Status, Waiting, PreBuild, Shown

LEMMA PublishedType ==
  ASSUME row \in Row, NEW n \in Nat
  PROVE  Published(n) \in Row
  BY DEF Published, At, Row, Status, Waiting, PreBuild, Shown

LEMMA WriteType ==
  ASSUME NEW r \in Row, Write(r)
  PROVE  RowTyped'
  BY DEF Write, RowTyped

LEMMA SaveType ==
  ASSUME NEW r \in Row, NEW w \in Workers, Save(w, r)
  PROVE  RowTyped'
  BY DEF Save, RowTyped

LEMMA LoadType ==
  ASSUME RowTyped, NEW w \in Workers \cup {"webhook"}, Load(w)
  PROVE  RowTyped'
  BY DEF Load, RowTyped

LEMMA AsyncType ==
  ASSUME WorkerTyped, NEW w \in Workers, NEW pc \in PC, NEW kind \in Kind,
         NEW i \in 0 .. MaxBuilds, pc \in HoldingPC => i \in Builds, Async(w, pc, kind, i)
  PROVE  WorkerTyped'
  BY DEF WorkerTyped, HoldsBuild, Async, Goroutine

LEMMA GotoType ==
  ASSUME WorkerTyped, NEW w \in Workers, NEW pc \in PC,
         pc \in HoldingPC => worker[w].pc \in HoldingPC, Goto(w, pc), UNCHANGED active
  PROVE  WorkerTyped'
  BY DEF WorkerTyped, HoldsBuild, Goto, Goroutine

LEMMA IdleType == Idle \in Goroutine /\ Idle.pc \notin HoldingPC
  BY PipelineAssumption DEF Idle, Goroutine, PC, Kind, HoldingPC

LEMMA ReturnType ==
  ASSUME WorkerTyped, NEW w \in Workers, Return(w)
  PROVE  WorkerTyped'
  BY IdleType DEF WorkerTyped, HoldsBuild, Return

LEMMA PCs ==
  /\ SetupPC \subseteq PC /\ BuildPC \subseteq PC /\ TailPC \subseteq PC
  /\ SetupPC \cap HoldingPC = {} /\ TailPC \cap HoldingPC = {} /\ "load" \notin HoldingPC
  BY DEF PC, HoldingPC, SetupPC, BuildPC, TailPC

-----------------------------------------------------------------------------
(* Type correctness. *)

LEMMA TypeInit == Init => TypeInv
  <1> SUFFICES ASSUME Init PROVE TypeInv
    OBVIOUS
  <1>1. \A s \in Status : NewRow(s) \in Row
    BY DEF NewRow, Row, Verdict
  <1>2. RowTyped
    BY <1>1 DEF Init, RowTyped, Status, Waiting, PreBuild
  <1>3. ItsTyped
    BY DEF Init, ItsTyped, NoIteration, Iteration
  <1>4. [Idle EXCEPT !.pc = "intake"] \in Goroutine
    BY IdleType, PCs DEF Goroutine, SetupPC
  <1>5. WorkerTyped
    BY <1>4, IdleType DEF Init, WorkerTyped, HoldsBuild, HoldingPC, Idle
  <1>6. RestTyped
    BY PipelineAssumption DEF Init, RestTyped
  <1> QED
    BY <1>2, <1>3, <1>5, <1>6 DEF TypeInv

LEMMA RequestType ==
  ASSUME TypeInv, NEW w \in Workers, CustomerRequest(w) \/ OperatorRequest(w)
  PROVE  TypeInv'
  <1> USE DEF TypeInv
  <1>1. RowTyped'
    <2>1. \A s \in Status : [At(row, s) EXCEPT !.design = TRUE] \in Row
      BY DEF RowTyped, At, Row
    <2> QED
      BY <2>1, AtType, WriteType DEF CustomerRequest, OperatorRequest, SubmitAnswers, SelectConcept,
         ApprovePlan, Reiterate, RetryBuild, ApproveAccess, OperatorIterate, ApproveEscalated,
         RowTyped, Status, Waiting, PreBuild
  <1>2. WorkerTyped'
    BY AsyncType, PCs, PipelineAssumption DEF CustomerRequest, OperatorRequest, SubmitAnswers,
       SelectConcept, ApprovePlan, Reiterate, RetryBuild, ApproveAccess, OperatorIterate,
       ApproveEscalated, SetupPC, BuildPC, Kind
  <1>3. UNCHANGED <<its, webhook, janitor, todo, up, crashes, faults>>
    BY DEF CustomerRequest, OperatorRequest, SubmitAnswers, SelectConcept, ApprovePlan,
       Reiterate, RetryBuild, ApproveAccess, OperatorIterate, ApproveEscalated, Request
  <1> QED
    BY <1>1, <1>2, <1>3 DEF ItsTyped, RestTyped

\* Steps that touch the row, the webhook or a goroutine's own place, but no iteration.
LEMMA DecisionType ==
  ASSUME TypeInv, Decision \/ TouchRow \/ Webhook
  PROVE  TypeInv'
  <1> USE DEF TypeInv
  <1>1. RowTyped'
    <2>1. /\ \A s \in Status : /\ At(row, s) \in Row
                              /\ [At(row, s) EXCEPT !.verdict = "reject"] \in Row
                              /\ [At(row, s) EXCEPT !.delivered = TRUE] \in Row
          /\ \A b \in BOOLEAN : [row EXCEPT !.paid = b] \in Row
      BY DEF RowTyped, At, Row, Verdict
    <2>2. CASE Decision
      BY <2>1, <2>2, WriteType DEF Decision, RejectAccess, AcceptPreview, DeliverProject,
         ReturnToCustomer, RejectEscalated, DestroyPreview, MarkPaid, MarkUnpaid,
         RowTyped, Status, Waiting, PreBuild, Shown
    <2>3. CASE TouchRow
      BY <2>3, WriteType DEF TouchRow, RowTyped
    <2>4. CASE Webhook
      BY <2>1, <2>4, WriteType, LoadType DEF Webhook, SubscriptionStarted, AutoAcceptLoad,
         AutoAcceptSave, RowTyped, Status, Shown
    <2> QED
      BY <2>2, <2>3, <2>4
  <1>2. UNCHANGED <<its, worker, active, janitor, todo, up, crashes, faults>>
        /\ webhook' \in {"none", "pending", "loaded"}
    BY DEF Decision, RejectAccess, AcceptPreview, DeliverProject, ReturnToCustomer,
       RejectEscalated, DestroyPreview, MarkPaid, MarkUnpaid, TouchRow, Request,
       Webhook, SubscriptionStarted, AutoAcceptLoad, AutoAcceptSave, RestTyped
  <1> QED
    BY <1>1, <1>2 DEF WorkerTyped, HoldsBuild, ItsTyped, RestTyped

LEMMA FaultType ==
  ASSUME RestTyped, NoFault \/ Fault, Elsewhere
  PROVE  RestTyped'
  BY PipelineAssumption DEF RestTyped, NoFault, Fault, Elsewhere

Setup(w) ==
  StartIntake(w) \/ RunConcepts(w) \/ RunPlanGate(w) \/ StepFails(w) \/ ClearEscalation(w)
  \/ MarkFailed(w) \/ Reaccept(w)

\* The goroutines' steps outside a build: each is one of three shapes.
LEMMA LoadOrReturnType ==
  ASSUME TypeInv, NEW w \in Workers, NEW pc, NEW s, NEW next \in PC \ HoldingPC,
         LoadOrReturn(w, pc, s, next)
  PROVE  TypeInv'
  BY LoadType, GotoType, ReturnType, FaultType
  DEF TypeInv, LoadOrReturn, ItsTyped, RowTyped

LEMMA SaveOrFailType ==
  ASSUME TypeInv, NEW w \in Workers, NEW pc, NEW r \in Row, NEW next \in PC \ HoldingPC,
         SaveOrFail(w, pc, r, next)
  PROVE  TypeInv'
  BY SaveType, GotoType, FaultType, PCs
  DEF TypeInv, SaveOrFail, ItsTyped, RowTyped, TailPC

LEMMA FinishOrFailType ==
  ASSUME TypeInv, NEW w \in Workers, NEW pc, NEW r \in Row, FinishOrFail(w, pc, r)
  PROVE  TypeInv'
  BY WriteType, GotoType, ReturnType, FaultType, PCs
  DEF TypeInv, FinishOrFail, ItsTyped, RowTyped, TailPC

LEMMA SetupType ==
  ASSUME TypeInv, NEW w \in Workers, Setup(w)
  PROVE  TypeInv'
  <1>1. \A s \in Status :
          /\ At(row, s) \in Row
          /\ \A v \in Verdict : [At(row, s) EXCEPT !.verdict = v] \in Row
          /\ [At(row, s) EXCEPT !.concepts = TRUE] \in Row
          /\ [At(row, s) EXCEPT !.plan = TRUE] \in Row
    BY DEF TypeInv, RowTyped, At, Row
  <1>2. {"intakeSave", "questions", "art", "planSave", "planner", "gate", "approveSave",
         "reacceptSave", "fail"} \subseteq PC \ HoldingPC
    BY DEF PC, HoldingPC, SetupPC, TailPC
  <1>3. {"clarifying", "needs_input", "needs_concept", "planning", "screening", "rejected",
         "escalated", "awaiting_approval", "accepted"} \subseteq Status
        /\ {"reject", "escalate", "allow"} \subseteq Verdict
    BY DEF Status, Waiting, PreBuild, Shown, Verdict
  <1>4. CASE StartIntake(w)
    BY <1>1, <1>2, <1>3, <1>4, LoadOrReturnType, SaveOrFailType, FinishOrFailType DEF StartIntake
  <1>5. CASE RunConcepts(w)
    BY <1>1, <1>2, <1>3, <1>5, LoadOrReturnType, FinishOrFailType DEF RunConcepts
  <1>6. CASE RunPlanGate(w)
    <2>1. CASE LoadPlan(w)
      BY <2>1, <1>2, LoadType, GotoType, FaultType DEF LoadPlan, TypeInv, ItsTyped
    <2> QED
      BY <2>1, <1>1, <1>2, <1>3, <1>6, SaveOrFailType, FinishOrFailType DEF RunPlanGate
  <1>7. CASE StepFails(w)
    BY <1>2, <1>7, GotoType, FaultType DEF StepFails, TypeInv, ItsTyped, RowTyped
  <1>8. CASE ClearEscalation(w)
    BY <1>1, <1>2, <1>3, <1>8, LoadOrReturnType, FinishOrFailType DEF ClearEscalation
  <1>9. CASE MarkFailed(w)
    BY <1>9, ReturnType, FaultType, WriteType, MarkedFailedType
    DEF MarkFailed, TypeInv, ItsTyped, RowTyped
  <1>10. CASE Reaccept(w)
    BY <1>1, <1>2, <1>3, <1>10, LoadOrReturnType, FinishOrFailType DEF Reaccept
  <1> QED
    BY <1>4, <1>5, <1>6, <1>7, <1>8, <1>9, <1>10 DEF Setup

\* Steps of a goroutine on an iteration, or on the way to one.
Building(w) ==
  Sweep(w) \/ Reserve(w) \/ ReserveFails(w) \/ Prepare(w) \/ Spawn(w) \/ StartSession(w)
  \/ Resume(w) \/ LogProgress(w) \/ AgentReturns(w) \/ BuildFails(w) \/ Verified(w)
  \/ Record(w) \/ Publish(w)

LEMMA IterationType ==
  ASSUME NEW f \in [Builds -> Iteration], NEW i,
         NEW s \in {"building", "failed", "preview_ready"}, NEW a \in BOOLEAN,
         NEW h \in {"none", "machine", "session"}
  PROVE  /\ [f EXCEPT ![i].status = s] \in [Builds -> Iteration]
         /\ [f EXCEPT ![i].alive = a] \in [Builds -> Iteration]
         /\ [f EXCEPT ![i] = [@ EXCEPT !.status = s, !.alive = a]] \in [Builds -> Iteration]
         /\ [f EXCEPT ![i] = [@ EXCEPT !.status = s, !.handle = h]] \in [Builds -> Iteration]
         /\ \A j \in Builds :
              /\ [f[j] EXCEPT !.alive = a] \in Iteration
              /\ [f[j] EXCEPT !.status = s, !.alive = a] \in Iteration
              /\ [f[j] EXCEPT !.status = s, !.handle = h, !.alive = a] \in Iteration
  BY DEF Iteration

\* The sweep fails iterations that were building, or leaves them as they are.
LEMMA SweepWrites ==
  ASSUME ItsTyped, NEW w \in Workers, Sweep(w)
  PROVE  /\ ItsTyped'
         /\ \A i \in Builds :
              /\ its[i].status # "building" => its'[i] = its[i]
              /\ its'[i].number = its[i].number /\ its'[i].change = its[i].change
              /\ its'[i].status \in {its[i].status, "failed"}
  <1> USE DEF ItsTyped
  <1>1. PICK lost : its' = Swept(lost) \/ its' = its
    BY DEF Sweep
  <1>2. CASE its' = Swept(lost)
    <2>1. ASSUME NEW i \in Builds, i \in ActiveIterations
          PROVE  /\ Swept(lost)[i] \in Iteration /\ its[i].status = "building"
                 /\ Swept(lost)[i].number = its[i].number /\ Swept(lost)[i].change = its[i].change
                 /\ Swept(lost)[i].status \in {its[i].status, "failed"}
      <3>1. CASE i \in lost
        BY <2>1, <3>1 DEF Swept, ActiveIterations, Iteration
      <3>2. CASE i \notin lost
        BY <2>1, <3>2 DEF Swept, ActiveIterations, Iteration
      <3> QED
        BY <3>1, <3>2
    <2>2. ASSUME NEW i \in Builds, i \notin ActiveIterations
          PROVE  Swept(lost)[i] = its[i] /\ its[i].status # "building"
      BY <2>2 DEF Swept, ActiveIterations
    <2>3. Swept(lost) = [i \in Builds |-> Swept(lost)[i]]
      BY DEF Swept
    <2> QED
      BY <1>2, <2>1, <2>2, <2>3
  <1>3. CASE its' = its
    BY <1>3
  <1> QED
    BY <1>1, <1>2, <1>3

LEMMA ReserveType ==
  ASSUME TypeInv, NEW w \in Workers, Reserve(w)
  PROVE  TypeInv'
  <1> USE DEF TypeInv
  <1>1. PICK i \in FreeIterations :
          /\ its' = [its EXCEPT ![i] =
                       [NoIteration EXCEPT !.status = "building",
                          !.number = IF Internal(worker[w].kind) THEN 0 ELSE row.used + 1,
                          !.change = worker[w].kind # "first"]]
          /\ worker' = [worker EXCEPT ![w].pc = "prepare", ![w].it = i]
    BY DEF Reserve
  <1>2. ItsTyped'
    <2>1. row.used \in Nat
      BY DEF RowTyped, Row
    <2>2. \A n \in Nat, b \in BOOLEAN :
            [NoIteration EXCEPT !.status = "building", !.number = n, !.change = b] \in Iteration
      BY DEF NoIteration, Iteration
    <2>3. (IF Internal(worker[w].kind) THEN 0 ELSE row.used + 1) \in Nat
      BY <2>1
    <2> QED
      BY <1>1, <2>2, <2>3 DEF ItsTyped
  <1>3. WorkerTyped'
    <2>1. i \in Builds /\ i \in 0 .. MaxBuilds
      BY PipelineAssumption DEF FreeIterations, Builds
    <2>2. worker' \in [Workers -> Goroutine]
      BY <1>1, <2>1, PCs DEF WorkerTyped, Goroutine, BuildPC
    <2>3. HoldsBuild'
      BY <1>1, <2>1 DEF WorkerTyped, HoldsBuild, Goroutine
    <2> QED
      BY <2>2, <2>3 DEF Reserve, WorkerTyped
  <1>4. RowTyped' /\ RestTyped'
    BY FaultType DEF Reserve, RowTyped
  <1> QED
    BY <1>2, <1>3, <1>4

LEMMA BuildingType ==
  ASSUME TypeInv, NEW w \in Workers, Building(w)
  PROVE  TypeInv'
  <1> USE DEF TypeInv
  <1>1. RestTyped'
    BY FaultType DEF Building, Sweep, Reserve, ReserveFails, Prepare, Spawn, StartSession,
       Resume, LogProgress, AgentReturns, BuildFails, Verified, Record, Publish
  <1>2. CASE Reserve(w)
    BY <1>2, ReserveType
  <1>3. RowTyped'
    <2>1. row \in Row /\ [row EXCEPT !.url = TRUE] \in Row
      BY DEF RowTyped, Row
    <2>2. CASE Publish(w)
      <3>1. worker[w].pc \in HoldingPC
        BY <2>2 DEF Publish, HoldingPC
      <3>2. its[worker[w].it].number \in Nat
        BY <3>1 DEF WorkerTyped, HoldsBuild, ItsTyped, Iteration
      <3>3. Published(its[worker[w].it].number) \in Row
        BY <2>1, <3>2, PublishedType
      <3> QED
        BY <2>2, <3>3, WriteType DEF Publish, RowTyped
    <2> QED
      BY <2>1, <2>2, SaveType, LoadType DEF Building, Sweep, Reserve, ReserveFails, Prepare,
         Spawn, StartSession, Resume, LogProgress, AgentReturns, BuildFails, Verified,
         Record, RowTyped
  <1>4. CASE Building(w) /\ ~Reserve(w)
    <2>1. WorkerTyped'
      <3>1. {"load", "plan", "fail", "spawn", "session", "agent", "verify", "record",
             "publish", "reaccept"} \subseteq PC
        BY DEF PC, SetupPC, BuildPC, TailPC
      <3>2. CASE LogProgress(w)
        BY <3>2 DEF LogProgress, WorkerTyped, HoldsBuild
      <3> QED
        BY <1>4, <3>1, <3>2, GotoType, ReturnType DEF Building, Sweep, ReserveFails, Prepare,
           Spawn, StartSession, Resume, AgentReturns, BuildFails, Verified, Record, Publish,
           HoldingPC
    <2>2. ItsTyped'
      <3> USE DEF ItsTyped
      <3>1. CASE Sweep(w)
        BY <3>1, SweepWrites
      <3>2. CASE Spawn(w)
        BY <3>2, IterationType DEF Spawn
      <3>3. CASE Prepare(w)
        BY <3>3 DEF Prepare, Iteration
      <3>4. CASE LogProgress(w)
        BY <3>4 DEF LogProgress, Iteration
      <3>5. CASE Record(w)
        BY <3>5 DEF Record, Iteration
      <3>6. CASE StartSession(w)
        BY <3>6 DEF StartSession, Iteration
      <3>7. CASE AgentReturns(w)
        BY <3>7 DEF AgentReturns, Iteration
      <3>8. CASE BuildFails(w)
        <4>1. CASE its' = [its EXCEPT ![worker[w].it] = [@ EXCEPT !.status = "failed", !.alive = FALSE]]
          BY <4>1 DEF Iteration
        <4>2. CASE its' = [its EXCEPT ![worker[w].it].alive = FALSE]
          BY <4>2 DEF Iteration
        <4> QED
          BY <3>8, <4>1, <4>2 DEF BuildFails
      <3>9. CASE ReserveFails(w) \/ Resume(w) \/ Verified(w) \/ Publish(w)
        BY <3>9 DEF ReserveFails, Resume, Verified, Publish
      <3> QED
        BY <1>4, <3>1, <3>2, <3>3, <3>4, <3>5, <3>6, <3>7, <3>8, <3>9 DEF Building
    <2> QED
      BY <1>1, <1>3, <2>1, <2>2
  <1> QED
    BY <1>2, <1>4

LEMMA CrashType ==
  ASSUME TypeInv, Crash
  PROVE  TypeInv'
  <1>1. WorkerTyped'
    BY IdleType DEF Crash, WorkerTyped, HoldsBuild
  <1>2. RestTyped'
    <2>1. todo' \subseteq Builds
      BY DEF Crash, ActiveIterations
    <2>2. crashes' \in 0 .. MaxCrashes
      BY PipelineAssumption DEF Crash, TypeInv, RestTyped
    <2> QED
      BY <2>1, <2>2 DEF Crash, TypeInv, RestTyped
  <1> QED
    BY <1>1, <1>2 DEF Crash, TypeInv, RowTyped, ItsTyped

LEMMA RecoveryType ==
  ASSUME TypeInv, ReaperTick \/ RecoveryStep \/ FailStranded \/ ExpireIdle
  PROVE  TypeInv'
  <1> USE DEF TypeInv
  <1>1. CASE ReaperTick
    BY <1>1 DEF ReaperTick, Silent, ActiveIterations, RowTyped, WorkerTyped, HoldsBuild, ItsTyped, RestTyped
  <1>2. ASSUME NEW i \in Builds, ReaperSkips(i)
        PROVE  TypeInv'
    BY <1>2 DEF ReaperSkips, RowTyped, WorkerTyped, HoldsBuild, ItsTyped, RestTyped
  <1>3. ASSUME NEW i \in Builds, Reap(i)
        PROVE  TypeInv'
    <2>1. ItsTyped'
      <3>1. CASE its' = [its EXCEPT ![i] = [@ EXCEPT !.status = "failed", !.alive = FALSE]]
        BY <3>1 DEF ItsTyped, Iteration
      <3>2. CASE its' = [its EXCEPT ![i].alive = FALSE]
        BY <3>2 DEF ItsTyped, Iteration
      <3> QED
        BY <1>3, <3>1, <3>2 DEF Reap
    <2>2. RestTyped'
      BY <1>3, PipelineAssumption DEF Reap, RestTyped, NoFault, Fault
    <2> QED
      BY <1>3, <2>1, <2>2 DEF Reap, RowTyped, WorkerTyped, HoldsBuild
  <1>4. ASSUME NEW i \in Builds, NEW w \in Workers, Reattach(i, w)
        PROVE  TypeInv'
    <2>1. WorkerTyped'
      <3>1. \E kind \in Kind : Async(w, "resume", kind, i)
        BY <1>4 DEF Reattach, Kind
      <3> QED
        BY <3>1, AsyncType, PCs, PipelineAssumption DEF Builds, BuildPC
    <2> QED
      BY <1>4, <2>1 DEF Reattach, RowTyped, ItsTyped, RestTyped
  <1>5. CASE ReapMark
    BY <1>5, WriteType, MarkedFailedType
    DEF ReapMark, RowTyped, WorkerTyped, HoldsBuild, ItsTyped, RestTyped
  <1>6. CASE SweepSandboxes
    BY <1>6, IterationType
    DEF SweepSandboxes, RowTyped, WorkerTyped, HoldsBuild, ItsTyped, RestTyped
  <1>7. CASE FailStranded \/ ExpireIdle
    <2>1. RowTyped'
      BY <1>7, WriteType, AtType DEF FailStranded, ExpireIdle, RowTyped, Status, Waiting
    <2> QED
      BY <1>7, <2>1 DEF FailStranded, ExpireIdle, WorkerTyped, HoldsBuild, ItsTyped, RestTyped
  <1> QED
    BY <1>1, <1>2, <1>3, <1>4, <1>5, <1>6, <1>7 DEF RecoveryStep

\* The cases of a step, as the lemmas about steps name them.
LEMMA Cases ==
  ASSUME Next
  PROVE  \/ \E w \in Workers : \/ CustomerRequest(w) \/ OperatorRequest(w)
                              \/ Setup(w) \/ Building(w)
         \/ Decision \/ TouchRow \/ Webhook \/ Crash
         \/ ReaperTick \/ RecoveryStep \/ FailStranded \/ ExpireIdle
  BY DEF Next, Proceed, Setup, Building

LEMMA TypeStep == TypeInv /\ [Next]_vars => TypeInv'
  <1> SUFFICES ASSUME TypeInv, [Next]_vars PROVE TypeInv'
    OBVIOUS
  <1>1. CASE UNCHANGED vars
    BY <1>1 DEF vars, TypeInv, RowTyped, WorkerTyped, HoldsBuild, ItsTyped, RestTyped
  <1>2. CASE Next
    BY <1>2, Cases, RequestType, DecisionType, SetupType, BuildingType, CrashType, RecoveryType
  <1> QED
    BY <1>1, <1>2

LEMMA TypeInvariance == Spec => []TypeInv
  BY TypeInit, TypeStep, PTL DEF Spec

\* Every column keeps its type on every path a project can take, crashes and
\* failed writes included: no goroutine stores an iteration's data through a
\* handle it does not hold, no counter leaves its range.
THEOREM TypeCorrect == Spec => []TypeOK
  <1>1. TypeInv => TypeOK
    BY DEF TypeInv, TypeOK, RowTyped, WorkerTyped, ItsTyped, RestTyped
  <1> QED
    BY <1>1, TypeInvariance, PTL

-----------------------------------------------------------------------------
(* What is shown was built. *)

Counted    == row.used >= 1
Started(i) == its[i].status # "none"

\* Whoever names an iteration, names one that was reserved.
ReservedInv ==
  /\ \A w \in Workers : worker[w].pc \in HoldingPC => Started(worker[w].it)
  /\ \A i \in todo : Started(i)

ReacceptPC == {"reaccept", "reacceptSave"}

\* A build that will not count, or whose end does not ask for a counted build,
\* belongs to a project that has one.
CountedInv ==
  /\ Counted => row.url
  /\ row.status \in Shown => Counted
  /\ \A w \in Workers :
       Internal(worker[w].kind) \/ worker[w].pc \in ReacceptPC => Counted
  /\ \A i \in Builds : Started(i) /\ its[i].number = 0 => Counted
  /\ webhook = "loaded" => Counted

ShownInv == TypeInv /\ ReservedInv /\ CountedInv

\* A step that leaves the counter alone and shows nothing new.
Quiet ==
  /\ row'.used = row.used
  /\ row.url => row'.url
  /\ row'.status \in Shown => Counted

\* A step that neither reserves nor renumbers an iteration.
Keeps == \A i \in Builds : its'[i].number = its[i].number /\ (Started(i)' <=> Started(i))

LEMMA MarkedFailedQuiet ==
  ASSUME ShownInv, row' = MarkedFailed(row)
  PROVE  Quiet
  BY DEF ShownInv, TypeInv, RowTyped, Row, CountedInv, Quiet, Counted, MarkedFailed, At, HadPreview, Shown

LEMMA SameRowQuiet ==
  ASSUME ShownInv, row' = row
  PROVE  Quiet
  BY DEF ShownInv, CountedInv, Quiet

LEMMA RequestQuiet ==
  ASSUME ShownInv, NEW w \in Workers, CustomerRequest(w) \/ OperatorRequest(w)
  PROVE  Quiet
  <1> USE DEF ShownInv, TypeInv, RowTyped, Row, CountedInv, Quiet, Write, At, Shown
  <1>1. CASE CustomerRequest(w)
    BY <1>1 DEF CustomerRequest, SubmitAnswers, SelectConcept, ApprovePlan, Reiterate, RetryBuild
  <1>2. CASE OperatorRequest(w)
    BY <1>2 DEF OperatorRequest, ApproveAccess, OperatorIterate, ApproveEscalated
  <1> QED
    BY <1>1, <1>2

LEMMA DecisionQuiet ==
  ASSUME ShownInv, Decision \/ TouchRow \/ Webhook
  PROVE  Quiet
  <1> USE DEF ShownInv, TypeInv, RowTyped, Row, CountedInv, Quiet, Write, Load, At, Shown
  <1>1. CASE Decision
    BY <1>1 DEF Decision, RejectAccess, AcceptPreview, CanAccept, DeliverProject,
       ReturnToCustomer, RejectEscalated, DestroyPreview, MarkPaid, MarkUnpaid
  <1>2. CASE TouchRow \/ Webhook
    BY <1>2 DEF TouchRow, Webhook, SubscriptionStarted, AutoAcceptLoad, AutoAcceptSave
  <1> QED
    BY <1>1, <1>2

LEMMA SetupQuiet ==
  ASSUME ShownInv, NEW w \in Workers, Setup(w)
  PROVE  Quiet
  <1> USE DEF ShownInv, TypeInv, RowTyped, Row, CountedInv, Quiet, Write, Save, Load, At, Shown,
              LoadOrReturn, SaveOrFail, FinishOrFail, ReacceptPC
  <1>1. CASE StartIntake(w)
    BY <1>1 DEF StartIntake
  <1>2. CASE RunConcepts(w)
    BY <1>2 DEF RunConcepts
  <1>3. CASE RunPlanGate(w)
    BY <1>3 DEF RunPlanGate, LoadPlan
  <1>4. CASE ClearEscalation(w)
    BY <1>4 DEF ClearEscalation
  <1>5. CASE StepFails(w)
    BY <1>5 DEF StepFails
  <1>6. CASE MarkFailed(w)
    BY <1>6, MarkedFailedQuiet, SameRowQuiet DEF MarkFailed
  <1>7. CASE Reaccept(w)
    BY <1>7 DEF Reaccept
  <1> QED
    BY <1>1, <1>2, <1>3, <1>4, <1>5, <1>6, <1>7 DEF Setup

\* Publishing is what makes a project show something, and it counts: the pass
\* has a number, or the project already had a build.
LEMMA BuildingCounts ==
  ASSUME ShownInv, NEW w \in Workers, Building(w)
  PROVE  /\ Counted => Counted'
         /\ Counted' => row'.url
         /\ row'.status \in Shown => Counted'
  <1> USE DEF ShownInv, TypeInv, RowTyped, Row, CountedInv, Counted, Shown
  <1>1. CASE Publish(w)
    <2>1. worker[w].pc \in HoldingPC /\ worker[w].it \in Builds
      BY <1>1 DEF Publish, HoldingPC, WorkerTyped, HoldsBuild
    <2>2. its[worker[w].it].number \in Nat
      BY <2>1 DEF ItsTyped, Iteration
    <2>3. its[worker[w].it].number = 0 => Counted
      BY <2>1 DEF ReservedInv
    <2>4. CASE row' = Published(its[worker[w].it].number)
      BY <2>2, <2>3, <2>4 DEF Published, At
    <2>5. CASE row' = row
      BY <2>5
    <2> QED
      BY <1>1, <2>4, <2>5 DEF Publish, Write
  <1>2. CASE Building(w) /\ ~Publish(w)
    BY <1>2 DEF Building, Sweep, Reserve, ReserveFails, Prepare, Spawn, StartSession, Resume,
       LogProgress, AgentReturns, BuildFails, Verified, Record, Save, Load
  <1> QED
    BY <1>1, <1>2

LEMMA RecoveryQuiet ==
  ASSUME ShownInv, Crash \/ ReaperTick \/ RecoveryStep \/ FailStranded \/ ExpireIdle
  PROVE  Quiet
  <1>1. CASE Crash \/ ReaperTick
    BY <1>1, SameRowQuiet DEF Crash, ReaperTick
  <1>2. CASE RecoveryStep
    BY <1>2, SameRowQuiet, MarkedFailedQuiet
    DEF RecoveryStep, ReaperSkips, Reap, Reattach, ReapMark, SweepSandboxes, Write
  <1>3. CASE FailStranded \/ ExpireIdle
    BY <1>3 DEF FailStranded, ExpireIdle, Write, At, ShownInv, TypeInv, RowTyped, Row, CountedInv,
       Quiet, Shown
  <1> QED
    BY <1>1, <1>2, <1>3

\* A counted build is never uncounted, and is behind everything on show.
LEMMA RowStep ==
  ASSUME ShownInv, Next
  PROVE  /\ Counted => Counted'
         /\ Counted' => row'.url
         /\ row'.status \in Shown => Counted'
  <1>1. ASSUME Quiet
        PROVE  /\ Counted => Counted'
               /\ Counted' => row'.url
               /\ row'.status \in Shown => Counted'
    BY <1>1 DEF Quiet, Counted, ShownInv, CountedInv
  <1> QED
    BY <1>1, Cases, RequestQuiet, DecisionQuiet, SetupQuiet, BuildingCounts, RecoveryQuiet

-----------------------------------------------------------------------------

LEMMA BuildingKeeps ==
  ASSUME ShownInv, NEW w \in Workers, Building(w), ~Reserve(w)
  PROVE  Keeps
  <1> USE DEF ShownInv, TypeInv, ItsTyped, Iteration, ReservedInv, Keeps, Started, HoldingPC
  <1>1. CASE Sweep(w)
    BY <1>1, SweepWrites
  <1>2. CASE Prepare(w)
    BY <1>2 DEF Prepare
  <1>3. CASE Spawn(w)
    BY <1>3 DEF Spawn
  <1>4. CASE StartSession(w)
    BY <1>4 DEF StartSession
  <1>5. CASE LogProgress(w)
    BY <1>5 DEF LogProgress
  <1>6. CASE AgentReturns(w)
    BY <1>6 DEF AgentReturns
  <1>7. CASE BuildFails(w)
    <2>1. CASE its' = [its EXCEPT ![worker[w].it] = [@ EXCEPT !.status = "failed", !.alive = FALSE]]
      BY <1>7, <2>1 DEF BuildFails
    <2>2. CASE its' = [its EXCEPT ![worker[w].it].alive = FALSE]
      BY <2>2
    <2> QED
      BY <1>7, <2>1, <2>2 DEF BuildFails
  <1>8. CASE Record(w)
    BY <1>8 DEF Record
  <1>9. CASE ReserveFails(w) \/ Resume(w) \/ Verified(w) \/ Publish(w)
    BY <1>9 DEF ReserveFails, Resume, Verified, Publish
  <1> QED
    BY <1>1, <1>2, <1>3, <1>4, <1>5, <1>6, <1>7, <1>8, <1>9 DEF Building

LEMMA RecoveryKeeps ==
  ASSUME ShownInv, RecoveryStep
  PROVE  Keeps
  <1> USE DEF ShownInv, TypeInv, ItsTyped, Iteration, ReservedInv, Keeps, Started
  <1>1. ASSUME NEW i \in Builds, Reap(i)
        PROVE  Keeps
    <2>1. CASE its' = [its EXCEPT ![i] = [@ EXCEPT !.status = "failed", !.alive = FALSE]]
      BY <1>1, <2>1 DEF Reap
    <2>2. CASE its' = [its EXCEPT ![i].alive = FALSE]
      BY <2>2
    <2> QED
      BY <1>1, <2>1, <2>2 DEF Reap
  <1>2. CASE SweepSandboxes
    BY <1>2 DEF SweepSandboxes
  <1> QED
    BY <1>1, <1>2 DEF RecoveryStep, ReaperSkips, Reattach, ReapMark

LEMMA RequestSetupKeeps ==
  ASSUME ShownInv, NEW w \in Workers, CustomerRequest(w) \/ OperatorRequest(w) \/ Setup(w)
  PROVE  Keeps
  <1>1. UNCHANGED its
    BY DEF CustomerRequest, OperatorRequest, SubmitAnswers, SelectConcept,
       ApprovePlan, Reiterate, RetryBuild, ApproveAccess, OperatorIterate, ApproveEscalated,
       Request, Setup, StartIntake, RunConcepts, RunPlanGate, LoadPlan, StepFails,
       ClearEscalation, MarkFailed, Reaccept, LoadOrReturn, SaveOrFail, FinishOrFail
  <1> QED
    BY <1>1 DEF Keeps, Started

LEMMA OtherKeeps ==
  ASSUME ShownInv, Decision \/ TouchRow \/ Webhook \/ Crash \/ ReaperTick \/ FailStranded \/ ExpireIdle
  PROVE  Keeps
  <1>1. UNCHANGED its
    BY DEF Decision, RejectAccess, AcceptPreview, DeliverProject, ReturnToCustomer,
       RejectEscalated, DestroyPreview, MarkPaid, MarkUnpaid, TouchRow, Request,
       Webhook, SubscriptionStarted, AutoAcceptLoad, AutoAcceptSave, Crash, ReaperTick,
       FailStranded, ExpireIdle
  <1> QED
    BY <1>1 DEF Keeps, Started

-----------------------------------------------------------------------------
(* What ShownInv says of the goroutines. *)

WorkersInv ==
  \A w \in Workers :
    /\ worker[w].pc \in HoldingPC => Started(worker[w].it)
    /\ Internal(worker[w].kind) \/ worker[w].pc \in ReacceptPC => Counted

LEMMA SameWorkers ==
  ASSUME ShownInv, Keeps, Counted => Counted', UNCHANGED worker
  PROVE  WorkersInv'
  BY DEF ShownInv, ReservedInv, CountedInv, WorkersInv, TypeInv, WorkerTyped, HoldsBuild, Keeps

LEMMA GotoWorkers ==
  ASSUME ShownInv, Keeps, Counted => Counted', NEW w \in Workers, NEW pc, Goto(w, pc),
         pc \in HoldingPC => worker[w].pc \in HoldingPC, pc \in ReacceptPC => Counted'
  PROVE  WorkersInv'
  BY DEF ShownInv, ReservedInv, CountedInv, WorkersInv, TypeInv, WorkerTyped, HoldsBuild, Goroutine,
     Keeps, Goto

LEMMA ReturnWorkers ==
  ASSUME ShownInv, Keeps, Counted => Counted', NEW w \in Workers, Return(w)
  PROVE  WorkersInv'
  <1>1. ~Internal(Idle.kind) /\ Idle.pc \notin HoldingPC \cup ReacceptPC
    BY DEF Idle, Internal, HoldingPC, ReacceptPC
  <1> QED
    BY <1>1 DEF ShownInv, ReservedInv, CountedInv, WorkersInv, TypeInv, WorkerTyped, HoldsBuild,
       Keeps, Return

LEMMA AsyncWorkers ==
  ASSUME ShownInv, Keeps, Counted => Counted', NEW w \in Workers, NEW pc, NEW kind, NEW i,
         Async(w, pc, kind, i), pc \in HoldingPC => i \in Builds /\ Started(i),
         pc \notin ReacceptPC, Internal(kind) => Counted
  PROVE  WorkersInv'
  BY DEF ShownInv, ReservedInv, CountedInv, WorkersInv, TypeInv, WorkerTyped, HoldsBuild, Goroutine,
     Keeps, Async

LEMMA RequestWorkers ==
  ASSUME ShownInv, Counted => Counted', NEW w \in Workers, CustomerRequest(w) \/ OperatorRequest(w)
  PROVE  WorkersInv'
  <1>1. Keeps
    BY RequestSetupKeeps
  <1>2. CASE OperatorIterate(w)
    <2>1. Counted
      BY <1>2 DEF OperatorIterate, ShownInv, CountedInv, Shown
    <2> QED
      BY <1>1, <1>2, <2>1, AsyncWorkers DEF OperatorIterate, HoldingPC, ReacceptPC
  <1> QED
    BY <1>1, <1>2, AsyncWorkers DEF CustomerRequest, OperatorRequest, SubmitAnswers, SelectConcept,
       ApprovePlan, Reiterate, RetryBuild, ApproveAccess, ApproveEscalated, HoldingPC, ReacceptPC,
       Internal

LEMMA SetupWorkers ==
  ASSUME ShownInv, Counted => Counted', NEW w \in Workers, Setup(w)
  PROVE  WorkersInv'
  <1>1. Keeps
    BY RequestSetupKeeps
  <1>2. CASE Reaccept(w)
    BY <1>1, <1>2, GotoWorkers, ReturnWorkers
    DEF Reaccept, LoadOrReturn, FinishOrFail, HoldingPC, ReacceptPC, ShownInv, CountedInv
  <1> QED
    BY <1>1, <1>2, GotoWorkers, ReturnWorkers DEF Setup, StartIntake, RunConcepts, RunPlanGate,
       LoadPlan, StepFails, ClearEscalation, MarkFailed, LoadOrReturn, SaveOrFail, FinishOrFail,
       HoldingPC, ReacceptPC

LEMMA BuildingWorkers ==
  ASSUME ShownInv, Counted => Counted', row'.status \in Shown => Counted',
         NEW w \in Workers, Building(w), ~Reserve(w)
  PROVE  WorkersInv'
  <1>1. Keeps
    BY BuildingKeeps
  <1>2. CASE LogProgress(w)
    BY <1>1, <1>2, SameWorkers DEF LogProgress
  <1>3. CASE Publish(w)
    <2>1. CASE Goto(w, "reaccept") /\ row' = Published(its[worker[w].it].number)
      <3>1. row'.status \in Shown
        BY <2>1 DEF Published, At, Shown, ShownInv, TypeInv, RowTyped, Row
      <3> QED
        BY <1>1, <2>1, <3>1, GotoWorkers DEF HoldingPC
    <2> QED
      BY <1>1, <1>3, <2>1, GotoWorkers, ReturnWorkers DEF Publish, Write, HoldingPC, ReacceptPC
  <1> QED
    BY <1>1, <1>2, <1>3, GotoWorkers DEF Building, Sweep, ReserveFails, Prepare, Spawn,
       StartSession, Resume, AgentReturns, BuildFails, Verified, Record, HoldingPC, ReacceptPC

LEMMA RecoveryWorkers ==
  ASSUME ShownInv, Counted => Counted', RecoveryStep
  PROVE  WorkersInv'
  <1>1. Keeps
    BY RecoveryKeeps
  <1>2. ASSUME NEW i \in Builds, NEW w \in Workers, Reattach(i, w)
        PROVE  WorkersInv'
    <2>1. PICK kind \in Kind : Async(w, "resume", kind, i) /\ (Internal(kind) => its[i].number = 0)
      BY <1>2 DEF Reattach, Kind, Internal
    <2>2. Started(i)
      BY <1>2 DEF Reattach, ShownInv, ReservedInv
    <2> QED
      BY <1>1, <2>1, <2>2, AsyncWorkers DEF ReacceptPC, ShownInv, CountedInv
  <1> QED
    BY <1>1, <1>2, SameWorkers DEF RecoveryStep, ReaperSkips, Reap, ReapMark, SweepSandboxes

\* A pass without a number is only reserved for a fix.
LEMMA ReserveCounts ==
  ASSUME ShownInv, NEW w \in Workers, Reserve(w)
  PROVE  WorkersInv' /\ ReservedInv' /\ CountedInv'
  <1> USE DEF ShownInv
  <1>1. PICK i \in FreeIterations :
          /\ its' = [its EXCEPT ![i] =
                       [NoIteration EXCEPT !.status = "building",
                          !.number = IF Internal(worker[w].kind) THEN 0 ELSE row.used + 1,
                          !.change = worker[w].kind # "first"]]
          /\ worker' = [worker EXCEPT ![w].pc = "prepare", ![w].it = i]
    BY DEF Reserve
  <1>2. UNCHANGED <<row, todo, webhook>>
    BY DEF Reserve, Elsewhere
  <1>3. i \in Builds /\ ~Started(i)
    BY DEF FreeIterations, Started
  <1>4. /\ Started(i)' /\ (its'[i].number = 0 => Internal(worker[w].kind))
        /\ \A j \in Builds \ {i} : its'[j] = its[j]
    <2>1. row.used \in Nat
      BY DEF TypeInv, RowTyped, Row
    <2> QED
      BY <1>1, <1>3, <2>1 DEF TypeInv, ItsTyped, NoIteration, Started
  <1>5. /\ worker'[w].pc = "prepare" /\ worker'[w].it = i /\ worker'[w].kind = worker[w].kind
        /\ \A v \in Workers \ {w} : worker'[v] = worker[v]
    BY <1>1 DEF TypeInv, WorkerTyped, Goroutine
  <1>6. \A j \in Builds : Started(j) => Started(j)'
    BY <1>4 DEF Started
  <1>7. WorkersInv'
    <2>1. \A v \in Workers : worker'[v].pc \in HoldingPC => its'[worker'[v].it].status # "none"
      BY <1>3, <1>4, <1>5, <1>6 DEF ReservedInv, TypeInv, WorkerTyped, HoldsBuild, Started
    <2>2. \A v \in Workers :
            Internal(worker'[v].kind) \/ worker'[v].pc \in ReacceptPC => row'.used >= 1
      BY <1>2, <1>5 DEF CountedInv, Counted, ReacceptPC, Internal
    <2> QED
      BY <2>1, <2>2 DEF WorkersInv, Internal, Started, Counted
  <1>8. ReservedInv'
    BY <1>2, <1>6, <1>7 DEF ReservedInv, WorkersInv, TypeInv, RestTyped, Started
  <1>9. CountedInv'
    BY <1>2, <1>3, <1>4, <1>7 DEF CountedInv, WorkersInv, Counted, Started
  <1> QED
    BY <1>7, <1>8, <1>9

\* The janitor's list comes from the iterations that are building; the webhook
\* holds a copy only once it has seen a preview.
LEMMA RestStep ==
  ASSUME Next
  PROVE  /\ todo' \subseteq todo \/ todo' \subseteq ActiveIterations
         /\ webhook' = "loaded" => webhook = "loaded" \/ AutoAcceptLoad
  <1>1. ASSUME NEW w \in Workers, CustomerRequest(w) \/ OperatorRequest(w)
        PROVE  UNCHANGED <<todo, webhook>>
    BY <1>1 DEF CustomerRequest, OperatorRequest, SubmitAnswers, SelectConcept, ApprovePlan, Reiterate,
       RetryBuild, ApproveAccess, OperatorIterate, ApproveEscalated, Request
  <1>2. ASSUME NEW w \in Workers, Setup(w) \/ Building(w)
        PROVE  UNCHANGED <<todo, webhook>>
    BY <1>2 DEF Setup, StartIntake, RunConcepts, RunPlanGate, LoadPlan, StepFails,
       ClearEscalation, MarkFailed, Reaccept, LoadOrReturn, SaveOrFail, FinishOrFail,
       Building, Sweep, Reserve, ReserveFails, Prepare, Spawn, StartSession, Resume,
       LogProgress, AgentReturns, BuildFails, Verified, Record, Publish, Elsewhere
  <1>3. CASE Decision \/ TouchRow \/ Webhook
    <2>1. UNCHANGED todo
      BY <1>3 DEF Decision, RejectAccess, AcceptPreview, DeliverProject, ReturnToCustomer,
         RejectEscalated, DestroyPreview, MarkPaid, MarkUnpaid, TouchRow, Request, Webhook,
         SubscriptionStarted, AutoAcceptLoad, AutoAcceptSave
    <2>2. webhook' = "loaded" => webhook = "loaded" \/ AutoAcceptLoad
      BY <1>3 DEF Decision, RejectAccess, AcceptPreview, DeliverProject, ReturnToCustomer,
         RejectEscalated, DestroyPreview, MarkPaid, MarkUnpaid, TouchRow, Request, Webhook,
         SubscriptionStarted, AutoAcceptSave
    <2> QED
      BY <2>1, <2>2
  <1>4. CASE Crash \/ ReaperTick
    BY <1>4 DEF Crash, ReaperTick, Silent
  <1>5. CASE RecoveryStep
    <2>1. todo' \subseteq todo /\ UNCHANGED webhook
      BY <1>5 DEF RecoveryStep, ReaperSkips, Reap, Reattach, ReapMark, SweepSandboxes
    <2> QED
      BY <2>1
  <1>6. CASE FailStranded \/ ExpireIdle
    BY <1>6 DEF FailStranded, ExpireIdle
  <1> QED
    BY <1>1, <1>2, <1>3, <1>4, <1>5, <1>6, Cases

LEMMA ShownInit == Init => ShownInv
  <1> SUFFICES ASSUME Init PROVE ShownInv
    OBVIOUS
  <1>1. row.used = 0 /\ row.status \notin Shown
    BY DEF Init, NewRow, Shown
  <1>2. ReservedInv
    BY DEF Init, Idle, ReservedInv, HoldingPC
  <1>3. CountedInv
    BY <1>1 DEF Init, Idle, CountedInv, Counted, Internal, ReacceptPC, Started, NoIteration
  <1> QED
    BY <1>2, <1>3, TypeInit DEF ShownInv

LEMMA ShownStep == ShownInv /\ [Next]_vars => ShownInv'
  <1> SUFFICES ASSUME ShownInv, [Next]_vars PROVE ShownInv'
    OBVIOUS
  <1>1. TypeInv'
    BY TypeStep DEF ShownInv
  <1>2. CASE UNCHANGED vars
    BY <1>1, <1>2 DEF vars, ShownInv, ReservedInv, CountedInv, Counted, Started
  <1>3. ASSUME Next, NEW w \in Workers, Reserve(w)
        PROVE  ShownInv'
    BY <1>1, <1>3, ReserveCounts DEF ShownInv
  <1>4. CASE Next /\ ~(\E w \in Workers : Reserve(w))
    <2>1. /\ Counted => Counted'
          /\ Counted' => row'.url
          /\ row'.status \in Shown => Counted'
      BY <1>4, RowStep
    <2>2. Keeps
      BY <1>4, Cases, BuildingKeeps, RecoveryKeeps, RequestSetupKeeps, OtherKeeps
    <2>3. WorkersInv'
      <3>1. CASE Decision \/ TouchRow \/ Webhook \/ ReaperTick \/ FailStranded \/ ExpireIdle
        <4>1. UNCHANGED worker
          BY <3>1 DEF Decision, RejectAccess, AcceptPreview, DeliverProject, ReturnToCustomer,
             RejectEscalated, DestroyPreview, MarkPaid, MarkUnpaid, TouchRow, Webhook,
             SubscriptionStarted, AutoAcceptLoad, AutoAcceptSave, ReaperTick, FailStranded, ExpireIdle
        <4> QED
          BY <2>1, <2>2, <4>1, SameWorkers
      <3>2. CASE Crash
        BY <3>2 DEF Crash, Idle, WorkersInv, Internal, HoldingPC, ReacceptPC
      <3> QED
        BY <1>4, <2>1, <3>1, <3>2, Cases, RequestWorkers, SetupWorkers, BuildingWorkers,
           RecoveryWorkers
    <2>4. \A i \in todo' : Started(i)'
      <3>1. todo' \subseteq todo \/ todo' \subseteq ActiveIterations
        BY <1>4, RestStep
      <3> QED
        BY <1>1, <2>2, <3>1 DEF TypeInv, RestTyped, ShownInv, ReservedInv, Keeps, Started, ActiveIterations
    <2>5. \A i \in Builds : Started(i)' /\ its'[i].number = 0 => Counted'
      BY <2>1, <2>2 DEF Keeps, ShownInv, CountedInv
    <2>6. webhook' = "loaded" => Counted'
      <3>1. webhook' = "loaded" => webhook = "loaded" \/ AutoAcceptLoad
        BY <1>4, RestStep
      <3>2. AutoAcceptLoad /\ webhook' = "loaded" => Counted
        BY DEF AutoAcceptLoad, ShownInv, CountedInv, Shown
      <3> QED
        BY <2>1, <3>1, <3>2 DEF ShownInv, CountedInv
    <2> QED
      BY <1>1, <2>1, <2>3, <2>4, <2>5, <2>6 DEF ShownInv, ReservedInv, CountedInv, WorkersInv
  <1> QED
    BY <1>2, <1>3, <1>4

LEMMA ShownInvariance == Spec => []ShownInv
  BY ShownInit, ShownStep, PTL DEF Spec

\* What a customer is shown, accepts or is delivered was produced by a build
\* that counted and has an address: no late failure, retry, resumed build,
\* operator's fix, crash or lost write shows a project nothing was built for.
THEOREM ShownWasBuilt == Spec => []ShownHasBuild
  <1>1. ShownInv => ShownHasBuild
    BY DEF ShownInv, CountedInv, ShownHasBuild, Counted
  <1> QED
    BY <1>1, ShownInvariance, PTL

-----------------------------------------------------------------------------
(* Nothing is delivered without the operator. *)

GuaranteeInv == TypeInv /\ DeliveredWasGuaranteed

\* The two ways to "delivered" ask for or give the operator's approval, which
\* no write takes back.
LEMMA GuaranteeStep == GuaranteeInv /\ [Next]_vars => GuaranteeInv'
  <1> SUFFICES ASSUME GuaranteeInv, [Next]_vars PROVE DeliveredWasGuaranteed'
    BY TypeStep DEF GuaranteeInv
  <1> USE DEF GuaranteeInv, TypeInv, RowTyped, Row, DeliveredWasGuaranteed
  <1>1. CASE UNCHANGED vars
    BY <1>1 DEF vars
  <1>2. ASSUME row' = MarkedFailed(row)
        PROVE  DeliveredWasGuaranteed'
    BY <1>2 DEF MarkedFailed, At
  <1>3. ASSUME NEW w \in Workers, CustomerRequest(w) \/ OperatorRequest(w)
        PROVE  DeliveredWasGuaranteed'
    BY <1>3 DEF Write, At, CustomerRequest, SubmitAnswers, SelectConcept, ApprovePlan, Reiterate,
       RetryBuild, OperatorRequest, ApproveAccess, OperatorIterate, ApproveEscalated
  <1>4. ASSUME NEW w \in Workers, Setup(w)
        PROVE  DeliveredWasGuaranteed'
    BY <1>2, <1>4 DEF Setup, StartIntake, RunConcepts, RunPlanGate, LoadPlan, StepFails,
       ClearEscalation, MarkFailed, Reaccept, LoadOrReturn, SaveOrFail, FinishOrFail,
       Write, Save, Load, At
  <1>5. ASSUME NEW w \in Workers, Building(w)
        PROVE  DeliveredWasGuaranteed'
    BY <1>5 DEF Building, Sweep, Reserve, ReserveFails, Prepare, Spawn, StartSession, Resume,
       LogProgress, AgentReturns, BuildFails, Verified, Record, Publish, Published,
       Write, Save, Load, At
  <1>6. CASE Decision
    BY <1>6 DEF Decision, RejectAccess, AcceptPreview, DeliverProject, ReturnToCustomer,
       RejectEscalated, DestroyPreview, MarkPaid, MarkUnpaid, Write, At
  <1>7. CASE TouchRow \/ Webhook \/ Crash \/ ReaperTick \/ FailStranded \/ ExpireIdle
    BY <1>7 DEF TouchRow, Webhook, SubscriptionStarted, AutoAcceptLoad, AutoAcceptSave, Crash,
       ReaperTick, FailStranded, ExpireIdle, Write, Load, At
  <1>8. CASE RecoveryStep
    BY <1>2, <1>8 DEF RecoveryStep, ReaperSkips, Reap, Reattach, ReapMark, SweepSandboxes, Write
  <1> QED
    BY <1>1, <1>3, <1>4, <1>5, <1>6, <1>7, <1>8, Cases

\* AcceptPreview's promise: a site is live only if DeliverProject gave the
\* guarantee at some time, whoever paid or accepted what and when.
THEOREM DeliveryIsGuaranteed == Spec => []DeliveredWasGuaranteed
  <1>1. Init => GuaranteeInv
    BY TypeInit DEF Init, NewRow, GuaranteeInv, DeliveredWasGuaranteed
  <1>2. GuaranteeInv => DeliveredWasGuaranteed
    BY DEF GuaranteeInv
  <1> QED
    BY <1>1, <1>2, GuaranteeStep, PTL DEF Spec

-----------------------------------------------------------------------------
(***************************************************************************)
(* What the safety gate or the operator turned down is never built, in     *)
(* Pipeline, for every number of goroutines, builds, crashes and faults and *)
(* every choice of Allowed.                                                 *)
(*                                                                         *)
(* A publish looks at no status, so the theorem rests on there being no     *)
(* goroutine that could publish.  Until a plan is stored there is one       *)
(* goroutine at most and no iteration (BeforePlan); a goroutine that holds   *)
(* a current copy at the gate is still alone (AtGate), because whatever      *)
(* starts another one writes the row first; so a verdict finds nothing      *)
(* under way, and nothing starts after it (TurnedDown).                     *)
(***************************************************************************)

\* No iteration was ever reserved, nothing is left for the janitor, nothing was accepted.
Untouched ==
  /\ \A i \in Builds : its[i].status = "none"
  /\ todo = {} /\ janitor # "mark" /\ webhook # "loaded"

\* Where a project and its goroutine are before the plan is stored.
EarlyPC == {"intake", "intakeSave", "questions", "concepts", "art", "plan", "planSave", "planner"}
PlanlessPC == EarlyPC \cup {"idle", "sweep", "fail"}
Resting == {"pending_access_approval", "rejected", "needs_input", "needs_concept", "failed"}
PlanlessStatus ==
  Resting \cup {"created", "clarifying", "concepting", "planning", "building", "expired"}

BeforePlan ==
  ~row.plan =>
    /\ Untouched /\ row.used = 0 /\ row.status \in PlanlessStatus
    /\ \A w \in Workers : worker[w].pc \in PlanlessPC
    /\ \A v, w \in Workers : worker[v].pc # "idle" /\ worker[w].pc # "idle" => v = w
    /\ \A w \in Workers : worker[w].pc # "idle" => active /\ row.status \notin Resting

AtGate ==
  \A w \in Workers :
    worker[w].pc = "gate" /\ w \in fresh =>
      /\ Untouched /\ row.status = "screening"
      /\ \A v \in Workers : v # w => worker[v].pc = "idle"

Flagged == row.verdict \in {"reject", "escalate"}

TurnedDown ==
  Flagged =>
    /\ Untouched /\ row.status \in {"rejected", "escalated", "expired"}
    /\ \A w \in Workers : worker[w].pc \in {"idle", "approve", "approveSave", "fail"}
    /\ \A w \in Workers : worker[w].pc = "approveSave" /\ w \in fresh => row.status = "escalated"

\* The statuses and steps that come before the plan, and the one that is a verdict.
InOrder ==
  /\ row.status \in {"pending_access_approval", "needs_input", "needs_concept"} => ~row.plan
  /\ \A w \in Workers : worker[w].pc \in EarlyPC => ~row.plan
  /\ row.status = "escalated" => row.verdict = "escalate"

VerdictInv == BeforePlan /\ AtGate /\ TurnedDown /\ InOrder

-----------------------------------------------------------------------------
(* The shapes of steps.                                                     *)

\* A request that flips the row and starts a goroutine.
LEMMA FlipKeeps ==
  ASSUME TypeInv, VerdictInv, NEW w \in Workers, NEW r \in Row, NEW pc, NEW kind,
         Write(r), Async(w, pc, kind, 0), UNCHANGED <<its, todo, janitor, webhook>>,
         r.plan = row.plan, r.verdict = row.verdict, r.used = row.used,
         row.status \notin {"rejected", "escalated", "expired"},
         ~row.plan => row.status \in Resting /\ r.status \in PlanlessStatus \ Resting /\ pc \in PlanlessPC,
         r.status \notin {"pending_access_approval", "needs_input", "needs_concept", "escalated"},
         pc \in EarlyPC => ~row.plan
  PROVE  VerdictInv'
  <1> USE DEF VerdictInv, TypeInv, WorkerTyped, Goroutine, Write, Async
  <1>1. BeforePlan'
    BY DEF BeforePlan, Untouched, Resting
  <1>2. AtGate'
    BY DEF AtGate
  <1>3. TurnedDown'
    BY DEF TurnedDown, Flagged
  <1>4. InOrder'
    BY DEF InOrder
  <1> QED
    BY <1>1, <1>2, <1>3, <1>4

\* A write that leaves the goroutines where they are.
LEMMA WriteKeeps ==
  ASSUME TypeInv, VerdictInv, NEW r \in Row, Write(r),
         UNCHANGED <<its, worker, active, todo, janitor>>, webhook' = "loaded" => webhook = "loaded",
         r.plan = row.plan, r.used = row.used,
         ~row.plan => /\ r.status \in PlanlessStatus
                      /\ r.status \in Resting =>
                           row.status \in Resting \/ \A w \in Workers : worker[w].pc = "idle",
         r.verdict \in {"reject", "escalate"} =>
           /\ Flagged \/ (Untouched /\ \A w \in Workers : worker[w].pc = "idle")
           /\ r.status \in {"rejected", "escalated", "expired"},
         r.status \in {"pending_access_approval", "needs_input", "needs_concept"} => ~row.plan,
         r.status = "escalated" => r.verdict = "escalate"
  PROVE  VerdictInv'
  <1> USE DEF VerdictInv, Write
  <1>1. BeforePlan'
    BY DEF BeforePlan, Untouched
  <1>2. AtGate'
    BY DEF AtGate
  <1>3. TurnedDown'
    BY DEF TurnedDown, Flagged, Untouched
  <1>4. InOrder'
    BY DEF InOrder
  <1> QED
    BY <1>1, <1>2, <1>3, <1>4

\* A goroutine at work that leaves the row alone: it moves to another step, or returns,
\* and may have loaded a copy.
LEMMA MoveKeeps ==
  ASSUME TypeInv, VerdictInv, NEW w \in Workers, NEW pc, worker[w].pc # "idle",
         \/ Goto(w, pc) /\ UNCHANGED active
         \/ pc = "idle" /\ Return(w),
         UNCHANGED <<row, its, todo, janitor, webhook>>, fresh' \subseteq fresh \cup {w},
         pc # "gate",
         worker[w].pc \in PlanlessPC /\ ~row.plan => pc \in PlanlessPC,
         Flagged => pc \in {"idle", "fail"} \/ (pc = "approveSave" /\ row.status = "escalated"),
         pc \in EarlyPC => ~row.plan
  PROVE  VerdictInv'
  <1> USE DEF VerdictInv, TypeInv, WorkerTyped, Goroutine
  <1>1. /\ worker'[w].pc = pc
        /\ \A v \in Workers : v # w => worker'[v] = worker[v]
        /\ active' = active \/ pc = "idle"
    BY DEF Goto, Return, Idle
  <1>2. BeforePlan'
    BY <1>1 DEF BeforePlan, Untouched
  <1>3. AtGate'
    BY <1>1 DEF AtGate
  <1>4. TurnedDown'
    BY <1>1 DEF TurnedDown, Flagged, Untouched
  <1>5. InOrder'
    BY <1>1 DEF InOrder
  <1> QED
    BY <1>2, <1>3, <1>4, <1>5

\* A goroutine whose last step writes the row.
LEMMA FinishKeeps ==
  ASSUME TypeInv, VerdictInv, NEW w \in Workers, NEW r \in Row, worker[w].pc # "idle",
         Write(r), Return(w), UNCHANGED <<its, todo, janitor, webhook>>,
         r.plan = row.plan, r.used = row.used, ~row.plan => r.status \in PlanlessStatus,
         r.verdict \in {"reject", "escalate"} =>
           /\ Flagged \/ (Untouched /\ \A v \in Workers : v # w => worker[v].pc = "idle")
           /\ r.status \in {"rejected", "escalated", "expired"},
         r.status \in {"pending_access_approval", "needs_input", "needs_concept"} => ~row.plan,
         r.status = "escalated" => r.verdict = "escalate"
  PROVE  VerdictInv'
  <1> USE DEF VerdictInv, TypeInv, WorkerTyped, Goroutine, Write
  <1>1. /\ worker'[w].pc = "idle"
        /\ \A v \in Workers : v # w => worker'[v] = worker[v]
    BY DEF Return, Idle
  <1>2. BeforePlan'
    BY <1>1 DEF BeforePlan, Untouched, PlanlessPC
  <1>3. AtGate'
    BY DEF AtGate
  <1>4. TurnedDown'
    BY <1>1 DEF TurnedDown, Flagged, Untouched
  <1>5. InOrder'
    BY <1>1 DEF InOrder, EarlyPC
  <1> QED
    BY <1>2, <1>3, <1>4, <1>5

-----------------------------------------------------------------------------
(* The steps.                                                               *)

LEMMA RowKeepsType ==
  ASSUME row \in Row
  PROVE  /\ \A s \in Status :
              /\ At(row, s) \in Row /\ At(row, s).status = s
              /\ At(row, s).plan = row.plan /\ At(row, s).verdict = row.verdict
              /\ At(row, s).used = row.used
         /\ \A s \in Status, v \in Verdict :
              LET r == [At(row, s) EXCEPT !.verdict = v]
              IN  r \in Row /\ r.status = s /\ r.plan = row.plan /\ r.verdict = v /\ r.used = row.used
         /\ \A s \in Status :
              LET r == [At(row, s) EXCEPT !.design = TRUE]
              IN  /\ r \in Row /\ r.status = s /\ r.plan = row.plan /\ r.verdict = row.verdict
                  /\ r.used = row.used
         /\ \A s \in Status :
              LET r == [At(row, s) EXCEPT !.concepts = TRUE]
              IN  /\ r \in Row /\ r.status = s /\ r.plan = row.plan /\ r.verdict = row.verdict
                  /\ r.used = row.used
         /\ \A s \in Status :
              LET r == [At(row, s) EXCEPT !.delivered = TRUE]
              IN  /\ r \in Row /\ r.status = s /\ r.plan = row.plan /\ r.verdict = row.verdict
                  /\ r.used = row.used
         /\ \A b \in BOOLEAN :
              LET r == [row EXCEPT !.paid = b]
              IN  /\ r \in Row /\ r.status = row.status /\ r.plan = row.plan
                  /\ r.verdict = row.verdict /\ r.used = row.used
  BY DEF Row, At

LEMMA StatusesUsed ==
  /\ Resting \cup PlanlessStatus \subseteq Status
  /\ {"screening", "awaiting_approval", "escalated", "preview_ready", "accepted", "delivered",
      "building", "rejected", "expired"} \subseteq Status
  /\ PlanlessStatus \cap {"screening", "awaiting_approval", "escalated", "preview_ready",
                          "accepted", "delivered"} = {}
  /\ PlanlessPC \cap {"gate", "approve", "approveSave", "load", "prepare", "spawn", "session",
                      "resume", "agent", "verify", "record", "publish", "reaccept", "reacceptSave"} = {}
  BY DEF Resting, PlanlessStatus, PlanlessPC, EarlyPC, Status, Waiting, PreBuild, Shown

LEMMA RequestVerdict ==
  ASSUME TypeInv, VerdictInv, NEW w \in Workers, CustomerRequest(w) \/ OperatorRequest(w)
  PROVE  VerdictInv'
  <1> row \in Row
    BY DEF TypeInv, RowTyped
  <1> USE DEF Request, Resting, PlanlessStatus, PlanlessPC, EarlyPC
  <1>9. row.status \in {"awaiting_approval", "preview_ready", "accepted", "delivered"} => row.plan
    BY DEF VerdictInv, BeforePlan, TypeInv, RowTyped, Row
  <1>1. CASE SubmitAnswers(w)
    <2> DEFINE r == [At(row, "concepting") EXCEPT !.design = TRUE]
    <2>1. r \in Row /\ r.status = "concepting" /\ r.plan = row.plan /\ r.verdict = row.verdict /\ r.used = row.used
      BY RowKeepsType, StatusesUsed
    <2>2. ~row.plan
      BY <1>1 DEF SubmitAnswers, VerdictInv, InOrder
    <2> QED
      BY <1>1, <2>1, <2>2, FlipKeeps DEF SubmitAnswers
  <1>2. CASE SelectConcept(w)
    <2> DEFINE r == [At(row, "planning") EXCEPT !.design = TRUE]
    <2>1. r \in Row /\ r.status = "planning" /\ r.plan = row.plan /\ r.verdict = row.verdict /\ r.used = row.used
      BY RowKeepsType, StatusesUsed
    <2>2. ~row.plan
      BY <1>2 DEF SelectConcept, VerdictInv, InOrder
    <2> QED
      BY <1>2, <2>1, <2>2, FlipKeeps DEF SelectConcept
  <1>3. CASE ApprovePlan(w)
    BY <1>3, <1>9, RowKeepsType, StatusesUsed, FlipKeeps DEF ApprovePlan, CanApprovePlan
  <1>4. CASE Reiterate(w)
    BY <1>4, <1>9, RowKeepsType, StatusesUsed, FlipKeeps DEF Reiterate, CanReiterate, CanRequestChange
  <1>5. CASE RetryBuild(w)
    BY <1>5, RowKeepsType, StatusesUsed, FlipKeeps DEF RetryBuild, CanRetry, RetryConcepts
  <1>6. CASE ApproveAccess(w)
    BY <1>6, RowKeepsType, StatusesUsed, FlipKeeps DEF ApproveAccess, VerdictInv, InOrder
  <1>7. CASE OperatorIterate(w)
    BY <1>7, <1>9, RowKeepsType, StatusesUsed, FlipKeeps DEF OperatorIterate
  <1>8. CASE ApproveEscalated(w)
    <2>1. Flagged /\ row.plan /\ worker[w].pc = "idle"
      BY <1>8 DEF ApproveEscalated, Async, VerdictInv, InOrder, Flagged, BeforePlan, TypeInv, RowTyped, Row
    <2>2. /\ worker'[w].pc = "approve" /\ \A v \in Workers : v # w => worker'[v] = worker[v]
          /\ UNCHANGED <<row, fresh, its, todo, janitor, webhook>>
      BY <1>8 DEF ApproveEscalated, Async, TypeInv, WorkerTyped, Goroutine
    <2> QED
      BY <1>8, <2>1, <2>2 DEF VerdictInv, BeforePlan, AtGate, TurnedDown, InOrder, Flagged, Untouched,
         ApproveEscalated
  <1> QED
    BY <1>1, <1>2, <1>3, <1>4, <1>5, <1>6, <1>7, <1>8 DEF CustomerRequest, OperatorRequest

LEMMA DecisionVerdict ==
  ASSUME TypeInv, VerdictInv, Decision \/ TouchRow \/ Webhook
  PROVE  VerdictInv'
  <1> row \in Row
    BY DEF TypeInv, RowTyped
  <1> USE DEF Request
  <1>1. CASE RejectAccess
    <2> DEFINE r == [At(row, "rejected") EXCEPT !.verdict = "reject"]
    <2>1. /\ r \in Row /\ r.status = "rejected" /\ r.plan = row.plan /\ r.verdict = "reject"
          /\ r.used = row.used
      BY RowKeepsType, StatusesUsed DEF Verdict
    <2>2. ~row.plan /\ Untouched /\ \A w \in Workers : worker[w].pc = "idle"
      BY <1>1 DEF RejectAccess, VerdictInv, InOrder, BeforePlan, Resting
    <2> QED
      BY <1>1, <2>1, <2>2, WriteKeeps DEF RejectAccess, PlanlessStatus, Resting
  <1>2. CASE RejectEscalated
    <2> DEFINE r == [At(row, "rejected") EXCEPT !.verdict = "reject"]
    <2>1. /\ r \in Row /\ r.status = "rejected" /\ r.plan = row.plan /\ r.verdict = "reject"
          /\ r.used = row.used
      BY RowKeepsType, StatusesUsed DEF Verdict
    <2>2. row.plan /\ Flagged
      BY <1>2, StatusesUsed DEF RejectEscalated, VerdictInv, InOrder, BeforePlan, Flagged, TypeInv, RowTyped, Row
    <2> QED
      BY <1>2, <2>1, <2>2, WriteKeeps DEF RejectEscalated
  <1>3. CASE DestroyPreview
    <2>1. /\ At(row, "expired") \in Row /\ At(row, "expired").status = "expired"
          /\ At(row, "expired").plan = row.plan /\ At(row, "expired").verdict = row.verdict
          /\ At(row, "expired").used = row.used
      BY RowKeepsType, StatusesUsed
    <2> QED
      BY <1>3, <2>1, WriteKeeps DEF DestroyPreview, PlanlessStatus, Resting, Flagged
  \* A project on show has a plan and no verdict against it.
  <1>4. ASSUME NEW r \in Row, Write(r), r.status \in {"accepted", "delivered", "preview_ready"},
               r.plan = row.plan, r.verdict = row.verdict, r.used = row.used,
               row.status \in {"preview_ready", "accepted"}
               \/ webhook = "loaded",
               UNCHANGED <<its, worker, active, todo, janitor>>, webhook' = "loaded" => webhook = "loaded"
        PROVE  VerdictInv'
    <2>1. row.plan /\ ~Flagged
      BY <1>4, StatusesUsed DEF VerdictInv, BeforePlan, TurnedDown, Untouched, TypeInv, RowTyped, Row
    <2> QED
      BY <1>4, <2>1, WriteKeeps DEF Flagged
  <1>5. CASE AcceptPreview
    BY <1>4, <1>5, RowKeepsType, StatusesUsed DEF AcceptPreview, CanAccept
  <1>6. CASE DeliverProject
    <2> DEFINE r == [At(row, "delivered") EXCEPT !.delivered = TRUE]
    <2>1. /\ r \in Row /\ r.status = "delivered" /\ r.plan = row.plan /\ r.verdict = row.verdict
          /\ r.used = row.used
      BY RowKeepsType, StatusesUsed
    <2> QED
      BY <1>4, <1>6, <2>1 DEF DeliverProject
  <1>7. CASE ReturnToCustomer
    BY <1>4, <1>7, RowKeepsType, StatusesUsed DEF ReturnToCustomer
  <1>8. CASE AutoAcceptSave
    <2>1. CASE Write(At(row, "accepted"))
      BY <1>4, <1>8, <2>1, RowKeepsType, StatusesUsed DEF AutoAcceptSave
    <2>2. CASE UNCHANGED <<row, fresh>>
      <3>1. UNCHANGED <<row, fresh, its, worker, active, janitor, todo>> /\ webhook' = "none"
        BY <1>8, <2>2 DEF AutoAcceptSave
      <3> QED
        BY <3>1 DEF VerdictInv, BeforePlan, AtGate, TurnedDown, InOrder, Untouched, Flagged
    <2> QED
      BY <1>8, <2>1, <2>2 DEF AutoAcceptSave
  \* Writes that move no status.
  <1>9. ASSUME NEW r \in Row, Write(r), r.status = row.status, r.plan = row.plan,
               r.verdict = row.verdict, r.used = row.used,
               UNCHANGED <<its, worker, active, todo, janitor>>, webhook' = "loaded" => webhook = "loaded"
        PROVE  VerdictInv'
    BY <1>9, WriteKeeps DEF VerdictInv, BeforePlan, TurnedDown, InOrder, Flagged
  <1>10. CASE MarkPaid
    BY <1>9, <1>10, RowKeepsType DEF MarkPaid
  <1>11. CASE MarkUnpaid
    BY <1>9, <1>11, RowKeepsType DEF MarkUnpaid
  <1>12. CASE TouchRow
    BY <1>9, <1>12 DEF TouchRow
  <1>13. CASE SubscriptionStarted
    BY <1>9, <1>13, RowKeepsType DEF SubscriptionStarted
  <1>14. CASE AutoAcceptLoad
    <2>1. UNCHANGED <<row, its, worker, active, janitor, todo>>
      BY <1>14 DEF AutoAcceptLoad, Load
    <2>2. CASE row.status = "preview_ready"
      <3>1. row.plan /\ ~Flagged
        BY <2>2, StatusesUsed DEF VerdictInv, BeforePlan, TurnedDown, TypeInv, RowTyped, Row
      <3>2. fresh' \subseteq fresh \cup {"webhook"}
        BY <1>14 DEF AutoAcceptLoad, Load
      <3> QED
        BY <2>1, <2>2, <3>1, <3>2, PipelineAssumption
        DEF VerdictInv, BeforePlan, AtGate, TurnedDown, InOrder, Flagged
    <2>3. CASE row.status # "preview_ready"
      BY <1>14, <2>1, <2>3
      DEF AutoAcceptLoad, VerdictInv, BeforePlan, AtGate, TurnedDown, InOrder, Untouched, Flagged
    <2> QED
      BY <2>2, <2>3
  <1> QED
    BY <1>1, <1>2, <1>3, <1>5, <1>6, <1>7, <1>8, <1>10, <1>11, <1>12, <1>13, <1>14
    DEF Decision, Webhook

\* The planner's answer makes its goroutine the one at the gate.
LEMMA PlannerVerdict ==
  ASSUME TypeInv, VerdictInv, NEW w \in Workers,
         SaveOrFail(w, "planner", [At(row, "screening") EXCEPT !.plan = TRUE], "gate")
  PROVE  VerdictInv'
  <1> USE DEF SaveOrFail, TypeInv, WorkerTyped, Goroutine, Elsewhere
  <1>1. ~row.plan /\ ~Flagged
    BY DEF VerdictInv, InOrder, EarlyPC, TurnedDown
  <1>2. CASE Save(w, [At(row, "screening") EXCEPT !.plan = TRUE]) /\ Goto(w, "gate")
    <2>1. row'.plan /\ row'.status = "screening" /\ row'.verdict = row.verdict /\ fresh' = {w}
      BY <1>2 DEF Save, At, RowTyped, Row
    <2>2. \A v \in Workers : v # w => worker'[v].pc = "idle"
      BY <1>1, <1>2 DEF VerdictInv, BeforePlan, Goto
    <2>3. Untouched'
      BY <1>1 DEF VerdictInv, BeforePlan, Untouched
    <2>4. worker'[w].pc = "gate"
      BY <1>2 DEF Goto
    <2> QED
      BY <1>1, <2>1, <2>2, <2>3, <2>4
      DEF VerdictInv, BeforePlan, AtGate, TurnedDown, InOrder, Flagged, EarlyPC
  <1>3. CASE Goto(w, "fail") /\ UNCHANGED <<row, fresh>>
    BY <1>1, <1>3, MoveKeeps DEF PlanlessPC, EarlyPC
  <1> QED
    BY <1>2, <1>3

\* The gate decides on a copy that is current: nothing else is under way.
LEMMA GateVerdict ==
  ASSUME TypeInv, VerdictInv, NEW w \in Workers, NEW s \in Status, NEW d \in Verdict,
         FinishOrFail(w, "gate", [At(row, s) EXCEPT !.verdict = d]),
         <<s, d>> \in {<<"rejected", "reject">>, <<"escalated", "escalate">>, <<"awaiting_approval", "allow">>}
  PROVE  VerdictInv'
  <1> DEFINE r == [At(row, s) EXCEPT !.verdict = d]
  <1> USE DEF FinishOrFail, Elsewhere
  <1>1. r \in Row /\ r.status = s /\ r.plan = row.plan /\ r.verdict = d /\ r.used = row.used
    BY RowKeepsType DEF TypeInv, RowTyped
  <1>2. row.plan /\ ~Flagged
    BY StatusesUsed DEF VerdictInv, BeforePlan, TurnedDown
  <1>3. CASE w \in fresh /\ Write(r) /\ Return(w)
    <2>1. Untouched /\ \A v \in Workers : v # w => worker[v].pc = "idle"
      BY <1>3 DEF VerdictInv, AtGate
    <2> HIDE DEF r
    <2> QED
      BY <1>1, <1>2, <1>3, <2>1, FinishKeeps
  <1>4. CASE Goto(w, "fail") /\ UNCHANGED <<row, fresh, active>>
    BY <1>2, <1>4, MoveKeeps DEF PlanlessPC, EarlyPC
  <1> QED
    BY <1>3, <1>4

LEMMA SetupVerdict ==
  ASSUME TypeInv, VerdictInv, NEW w \in Workers, Setup(w)
  PROVE  VerdictInv'
  <1> row \in Row
    BY DEF TypeInv, RowTyped
  <1>1. ASSUME NEW pc, NEW s, NEW next, LoadOrReturn(w, pc, s, next), pc # "idle",
               next \notin {"idle", "gate"}, next \in EarlyPC <=> pc \in EarlyPC, next # "sweep",
               pc \in {"approve", "fail"} => pc = "approve" /\ next = "approveSave" /\ s = "escalated",
               pc # "approveSave", pc \notin {"sweep", "fail"}
        PROVE  VerdictInv'
    <2>1. worker[w].pc = pc /\ UNCHANGED <<row, its, todo, janitor, webhook>>
      BY <1>1 DEF LoadOrReturn, Load, Elsewhere
    <2>2. CASE row.status = s /\ Load(w) /\ Goto(w, next) /\ UNCHANGED active
      BY <1>1, <2>1, <2>2, MoveKeeps DEF Load, VerdictInv, TurnedDown, InOrder, PlanlessPC
    <2>3. CASE Return(w) /\ UNCHANGED <<row, fresh>>
      BY <1>1, <2>1, <2>3, MoveKeeps DEF PlanlessPC, EarlyPC
    <2> QED
      BY <1>1, <2>2, <2>3 DEF LoadOrReturn
  \* Before the plan: a status or a column of no consequence.
  <1>2. ASSUME NEW pc \in EarlyPC, NEW next \in EarlyPC, NEW s \in {"clarifying", "planning"},
               SaveOrFail(w, pc, At(row, s), next)
        PROVE  VerdictInv'
    <2>1. ~row.plan /\ ~Flagged /\ worker[w].pc = pc
      BY <1>2 DEF SaveOrFail, VerdictInv, InOrder, TurnedDown, EarlyPC
    <2>2. /\ At(row, s) \in Row /\ At(row, s).status = s
          /\ At(row, s).plan = row.plan /\ At(row, s).verdict = row.verdict /\ At(row, s).used = row.used
      BY RowKeepsType, StatusesUsed DEF PlanlessStatus
    <2>3. CASE Save(w, At(row, s)) /\ Goto(w, next) /\ UNCHANGED active
      <3>1. row' = At(row, s) /\ fresh' = {w}
        BY <2>3 DEF Save
      <3>2. worker'[w].pc = next /\ \A v \in Workers : v # w => worker'[v] = worker[v]
        BY <2>3 DEF Goto, TypeInv, WorkerTyped, Goroutine
      <3>3. UNCHANGED <<its, active, todo, janitor, webhook>>
        BY <1>2 DEF SaveOrFail, Elsewhere
      <3>4. BeforePlan'
        BY <1>2, <2>1, <2>2, <3>1, <3>2, <3>3
        DEF VerdictInv, BeforePlan, Untouched, PlanlessPC, EarlyPC, PlanlessStatus, Resting
      <3> QED
        BY <1>2, <2>1, <2>2, <3>1, <3>2, <3>3, <3>4
        DEF VerdictInv, AtGate, TurnedDown, InOrder, Flagged, EarlyPC
    <2>4. CASE Goto(w, "fail") /\ UNCHANGED <<row, fresh, active>>
      <3>1. UNCHANGED <<its, todo, janitor, webhook>>
        BY <1>2 DEF SaveOrFail, Elsewhere
      <3> QED
        BY <1>2, <2>1, <2>4, <3>1, MoveKeeps DEF PlanlessPC, EarlyPC
    <2> QED
      BY <1>2, <2>3, <2>4 DEF SaveOrFail
  <1>3. ASSUME NEW pc \in EarlyPC, NEW r \in Row, r.status \in {"needs_input", "needs_concept"},
               r.plan = row.plan, r.verdict = row.verdict, r.used = row.used, FinishOrFail(w, pc, r)
        PROVE  VerdictInv'
    <2>1. ~row.plan /\ ~Flagged /\ worker[w].pc = pc /\ pc # "idle" /\ UNCHANGED <<its, todo, janitor, webhook>>
      BY <1>3 DEF FinishOrFail, Elsewhere, VerdictInv, InOrder, TurnedDown, EarlyPC
    <2>2. CASE Write(r) /\ Return(w)
      BY <1>3, <2>1, <2>2, FinishKeeps DEF Flagged, PlanlessStatus, Resting
    <2>3. CASE Goto(w, "fail") /\ UNCHANGED <<row, fresh, active>>
      BY <2>1, <2>3, MoveKeeps DEF PlanlessPC, EarlyPC
    <2> QED
      BY <1>3, <2>2, <2>3 DEF FinishOrFail
  <1>4. CASE StartIntake(w)
    BY <1>1, <1>2, <1>3, <1>4, RowKeepsType, StatusesUsed DEF StartIntake, EarlyPC, Resting
  <1>5. CASE RunConcepts(w)
    <2> DEFINE r == [At(row, "needs_concept") EXCEPT !.concepts = TRUE]
    <2>1. /\ r \in Row /\ r.status = "needs_concept" /\ r.plan = row.plan /\ r.verdict = row.verdict
          /\ r.used = row.used
      BY RowKeepsType, StatusesUsed DEF Resting
    <2>2. CASE LoadOrReturn(w, "concepts", "concepting", "art")
      BY <1>1, <2>2 DEF EarlyPC
    <2>3. CASE FinishOrFail(w, "art", r)
      <3> HIDE DEF r
      <3> QED
        BY <1>3, <2>1, <2>3 DEF EarlyPC
    <2> QED
      BY <1>5, <2>2, <2>3 DEF RunConcepts
  <1>6. CASE RunPlanGate(w)
    <2>1. CASE LoadPlan(w)
      <3>1. ~row.plan /\ ~Flagged
        BY <2>1 DEF LoadPlan, VerdictInv, InOrder, TurnedDown, EarlyPC
      <3> QED
        BY <2>1, <3>1, MoveKeeps DEF LoadPlan, Load, Elsewhere, PlanlessPC, EarlyPC
    <2>2. CASE SaveOrFail(w, "planSave", At(row, "planning"), "planner")
      BY <1>2, <2>2 DEF EarlyPC
    <2> QED
      BY <1>6, <2>1, <2>2, PlannerVerdict, GateVerdict, StatusesUsed DEF RunPlanGate, Verdict
  <1>7. CASE StepFails(w)
    BY <1>7, MoveKeeps DEF StepFails, Elsewhere, PlanlessPC, EarlyPC
  <1>8. CASE ClearEscalation(w)
    <2>1. CASE LoadOrReturn(w, "approve", "escalated", "approveSave")
      BY <1>1, <2>1 DEF EarlyPC
    <2> DEFINE r == [At(row, "awaiting_approval") EXCEPT !.verdict = "allow"]
    <2>2. CASE FinishOrFail(w, "approveSave", r)
      <3>1. /\ r \in Row /\ r.status = "awaiting_approval" /\ r.plan = row.plan /\ r.verdict = "allow"
            /\ r.used = row.used
        BY RowKeepsType, StatusesUsed DEF Verdict
      <3>2. row.plan /\ worker[w].pc = "approveSave" /\ UNCHANGED <<its, todo, janitor, webhook>>
        BY <2>2, StatusesUsed DEF FinishOrFail, Elsewhere, VerdictInv, BeforePlan
      <3>3. CASE Write(r) /\ Return(w)
        BY <3>1, <3>2, <3>3, FinishKeeps
      <3>4. CASE Goto(w, "fail") /\ UNCHANGED <<row, fresh, active>>
        BY <3>2, <3>4, MoveKeeps DEF PlanlessPC, EarlyPC
      <3> QED
        BY <2>2, <3>3, <3>4 DEF FinishOrFail
    <2> QED
      BY <1>8, <2>1, <2>2 DEF ClearEscalation
  <1>9. CASE MarkFailed(w)
    <2>1. worker[w].pc = "fail" /\ Return(w) /\ UNCHANGED <<its, todo, janitor, webhook>>
      BY <1>9 DEF MarkFailed, Elsewhere
    <2>2. CASE Write(MarkedFailed(row))
      <3> DEFINE r == MarkedFailed(row)
      <3>1. r \in Row /\ r.plan = row.plan /\ r.verdict = row.verdict /\ r.used = row.used
        BY MarkedFailedType DEF MarkedFailed, At, Row
      <3>2. \/ r.status = row.status
            \/ row.status = "building" /\ r.status = "failed"
            \/ row.status = "building" /\ r.status = "preview_ready" /\ row.used >= 1
        BY DEF MarkedFailed, At, Row, HadPreview
      <3>3. ~row.plan => r.status \in PlanlessStatus
        BY <3>2 DEF VerdictInv, BeforePlan, PlanlessStatus, Resting
      <3>4. Flagged => r.status = row.status
        BY <3>2 DEF VerdictInv, TurnedDown
      <3> HIDE DEF r
      <3> QED
        BY <2>1, <2>2, <3>1, <3>2, <3>3, <3>4, FinishKeeps
        DEF r, VerdictInv, TurnedDown, InOrder, Flagged
    <2>3. CASE UNCHANGED <<row, fresh>>
      BY <2>1, <2>3, MoveKeeps DEF PlanlessPC, EarlyPC
    <2> QED
      BY <1>9, <2>2, <2>3 DEF MarkFailed
  <1>10. CASE Reaccept(w)
    <2>1. CASE LoadOrReturn(w, "reaccept", "preview_ready", "reacceptSave")
      BY <1>1, <2>1 DEF EarlyPC
    <2>2. CASE FinishOrFail(w, "reacceptSave", At(row, "accepted"))
      <3>1. /\ At(row, "accepted") \in Row /\ At(row, "accepted").status = "accepted"
            /\ At(row, "accepted").plan = row.plan /\ At(row, "accepted").verdict = row.verdict
            /\ At(row, "accepted").used = row.used
        BY RowKeepsType, StatusesUsed
      <3>2. /\ row.plan /\ ~Flagged /\ worker[w].pc = "reacceptSave"
            /\ UNCHANGED <<its, todo, janitor, webhook>>
        BY <2>2, StatusesUsed DEF FinishOrFail, Elsewhere, VerdictInv, BeforePlan, TurnedDown
      <3>3. CASE Write(At(row, "accepted")) /\ Return(w)
        BY <3>1, <3>2, <3>3, FinishKeeps DEF Flagged
      <3>4. CASE Goto(w, "fail") /\ UNCHANGED <<row, fresh, active>>
        BY <3>2, <3>4, MoveKeeps DEF PlanlessPC, EarlyPC
      <3> QED
        BY <2>2, <3>3, <3>4 DEF FinishOrFail
    <2> QED
      BY <1>10, <2>1, <2>2 DEF Reaccept
  <1> QED
    BY <1>4, <1>5, <1>6, <1>7, <1>8, <1>9, <1>10 DEF Setup

\* A goroutine that builds finds neither a project without a plan, except on the way to
\* one, nor a verdict against it.
LEMMA BuildingVerdict ==
  ASSUME TypeInv, VerdictInv, NEW w \in Workers, Building(w)
  PROVE  VerdictInv'
  <1>1. ~Flagged
    BY DEF VerdictInv, TurnedDown, Building, Sweep, Reserve, ReserveFails, Prepare, Spawn, StartSession,
       Resume, LogProgress, AgentReturns, BuildFails, Verified, Record, Publish
  <1>2. worker[w].pc # "idle" /\ worker[w].pc # "gate"
    BY DEF Building, Sweep, Reserve, ReserveFails, Prepare, Spawn, StartSession,
       Resume, LogProgress, AgentReturns, BuildFails, Verified, Record, Publish
  <1>3. /\ row'.plan = row.plan /\ row'.verdict = row.verdict
        /\ row'.status = row.status \/ row'.status = "preview_ready"
    BY DEF Building, Sweep, Reserve, ReserveFails, Prepare, Spawn, StartSession, Resume, LogProgress,
       AgentReturns, BuildFails, Verified, Record, Publish, Published, At, Save, Write, Load,
       TypeInv, RowTyped, Row
  <1>4. /\ fresh' \subseteq fresh \cup {w}
        /\ \A v \in Workers : v # w => worker'[v] = worker[v]
        /\ worker'[w].pc # "gate" /\ (worker'[w].pc \in EarlyPC => worker'[w].pc = "plan" /\ ~row.plan)
    <2> DEFINE Later == {"load", "spawn", "session", "agent", "verify", "record", "publish",
                         "reaccept", "fail"}
    <2> worker \in [Workers -> Goroutine]
      BY DEF TypeInv, WorkerTyped
    <2>1. fresh' \subseteq fresh \cup {w}
      BY DEF Building, Sweep, Reserve, ReserveFails, Prepare, Spawn, StartSession, Resume, LogProgress,
         AgentReturns, BuildFails, Verified, Record, Publish, Save, Write, Load
    <2>2. ASSUME NEW pc, Goto(w, pc)
          PROVE  worker'[w].pc = pc /\ \A v \in Workers : v # w => worker'[v] = worker[v]
      BY <2>2 DEF Goto, Goroutine
    <2>3. CASE \E pc \in Later : Goto(w, pc)
      BY <2>1, <2>2, <2>3 DEF EarlyPC
    <2>4. CASE Return(w)
      BY <2>1, <2>4 DEF Return, Idle, EarlyPC
    <2>5. CASE LogProgress(w)
      BY <2>1, <2>5 DEF LogProgress, EarlyPC
    <2>6. CASE Sweep(w)
      <3>1. Goto(w, IF row.plan THEN "load" ELSE "plan")
        BY <2>6 DEF Sweep
      <3>2. CASE row.plan
        BY <2>3, <3>1, <3>2
      <3>3. CASE ~row.plan
        BY <2>1, <2>2, <3>1, <3>3
      <3> QED
        BY <3>2, <3>3
    <2>7. CASE Reserve(w)
      <3>1. PICK i \in Builds : worker' = [worker EXCEPT ![w].pc = "prepare", ![w].it = i]
        BY <2>7 DEF Reserve, FreeIterations
      <3>2. worker'[w].pc = "prepare" /\ \A v \in Workers : v # w => worker'[v] = worker[v]
        BY <3>1 DEF Goroutine
      <3> QED
        BY <2>1, <3>2 DEF EarlyPC
    <2>8. CASE ReserveFails(w) \/ Prepare(w) \/ Spawn(w) \/ StartSession(w) \/ Resume(w)
      BY <2>3, <2>8 DEF ReserveFails, Prepare, Spawn, StartSession, Resume
    <2>9. CASE AgentReturns(w) \/ BuildFails(w) \/ Verified(w) \/ Record(w)
      BY <2>3, <2>9 DEF AgentReturns, BuildFails, Verified, Record
    <2>10. CASE Publish(w)
      BY <2>3, <2>4, <2>10 DEF Publish
    <2> QED
      BY <2>5, <2>6, <2>7, <2>8, <2>9, <2>10 DEF Building
  <1>5. UNCHANGED <<todo, janitor, webhook>>
    BY DEF Building, Sweep, Reserve, ReserveFails, Prepare, Spawn, StartSession, Resume, LogProgress,
       AgentReturns, BuildFails, Verified, Record, Publish, Elsewhere
  <1>6. CASE ~row.plan
    <2>1. Sweep(w) /\ Untouched
      BY <1>6, StatusesUsed DEF VerdictInv, BeforePlan, Building, Reserve, ReserveFails, Prepare, Spawn,
         StartSession, Resume, LogProgress, AgentReturns, BuildFails, Verified, Record, Publish
    <2>2. Goto(w, "plan") /\ UNCHANGED <<row, fresh, active>> /\ \A i \in Builds : its'[i] = its[i]
      BY <1>6, <2>1, SweepWrites DEF Sweep, Untouched, TypeInv
    <2>3. worker'[w].pc = "plan"
      BY <2>2 DEF Goto, TypeInv, WorkerTyped, Goroutine
    <2>4. BeforePlan'
      BY <1>2, <1>4, <1>5, <1>6, <2>2, <2>3 DEF VerdictInv, BeforePlan, Untouched, PlanlessPC, EarlyPC
    <2> QED
      BY <1>1, <1>2, <1>4, <1>5, <1>6, <2>2, <2>3, <2>4
      DEF VerdictInv, AtGate, TurnedDown, InOrder, Flagged, EarlyPC
  <1>7. CASE row.plan
    <2>1. BeforePlan'
      BY <1>3, <1>7 DEF BeforePlan
    <2>2. AtGate'
      <3> SUFFICES ASSUME NEW v \in Workers, worker'[v].pc = "gate", v \in fresh' PROVE FALSE
        BY DEF AtGate
      <3>1. v # w /\ worker[v].pc = "gate" /\ v \in fresh
        BY <1>4
      <3> QED
        BY <1>2, <3>1 DEF VerdictInv, AtGate
    <2>3. TurnedDown'
      BY <1>1, <1>3 DEF TurnedDown, Flagged
    <2>4. InOrder'
      BY <1>3, <1>4, <1>7 DEF VerdictInv, InOrder
    <2> QED
      BY <2>1, <2>2, <2>3, <2>4 DEF VerdictInv
  <1> QED
    BY <1>6, <1>7 DEF TypeInv, RowTyped, Row

\* Recovery and the reaper work from iterations: there are none.
LEMMA RecoveryVerdict ==
  ASSUME TypeInv, VerdictInv, Crash \/ ReaperTick \/ RecoveryStep \/ FailStranded \/ ExpireIdle
  PROVE  VerdictInv'
  <1> row \in Row
    BY DEF TypeInv, RowTyped
  <1>1. CASE Crash
    BY <1>1 DEF Crash, Idle, ActiveIterations, VerdictInv, BeforePlan, AtGate, TurnedDown, InOrder,
       Flagged, Untouched, EarlyPC, PlanlessPC
  <1>2. ASSUME Untouched PROVE ~ReaperTick /\ ~ReapMark /\ \A i \in Builds : i \notin todo
    BY <1>2 DEF Untouched, ReaperTick, Silent, ActiveIterations, ReapMark
  \* A step that only moves what recovery keeps, where an iteration is.
  <1>3. ASSUME UNCHANGED <<row, fresh, worker>>, ~Untouched
        PROVE  VerdictInv'
    BY <1>3 DEF VerdictInv, BeforePlan, AtGate, TurnedDown, InOrder, Flagged
  <1>4. CASE ReaperTick
    BY <1>2, <1>3, <1>4 DEF ReaperTick
  <1>5. ASSUME NEW i \in Builds, ReaperSkips(i) \/ Reap(i)
        PROVE  VerdictInv'
    BY <1>2, <1>3, <1>5 DEF ReaperSkips, Reap
  <1>6. ASSUME NEW i \in Builds, NEW w \in Workers, Reattach(i, w)
        PROVE  VerdictInv'
    <2>1. ~Untouched /\ UNCHANGED <<row, fresh>>
      BY <1>2, <1>6 DEF Reattach
    <2>2. \A v \in Workers : worker'[v].pc # worker[v].pc => worker'[v].pc = "resume"
      BY <1>6 DEF Reattach, Async, TypeInv, WorkerTyped
    <2> QED
      BY <2>1, <2>2 DEF VerdictInv, BeforePlan, AtGate, TurnedDown, InOrder, Flagged, EarlyPC
  <1>7. CASE ReapMark
    <2>1. ~Untouched /\ row' = MarkedFailed(row) /\ fresh' = {} /\ UNCHANGED worker
      BY <1>2, <1>7 DEF ReapMark, Write
    <2>2. /\ row'.plan = row.plan /\ row'.verdict = row.verdict
          /\ row'.status \in {row.status, "failed", "preview_ready"}
      BY <2>1 DEF MarkedFailed, At, Row
    <2> QED
      BY <2>1, <2>2 DEF VerdictInv, BeforePlan, AtGate, TurnedDown, InOrder, Flagged
  <1>8. CASE SweepSandboxes
    <2>1. UNCHANGED <<row, fresh, worker, active, todo, webhook>> /\ janitor' # "mark"
          /\ \A i \in Builds : its'[i].status = its[i].status
      BY <1>8 DEF SweepSandboxes, TypeInv, ItsTyped, Iteration
    <2> QED
      BY <2>1 DEF VerdictInv, BeforePlan, AtGate, TurnedDown, InOrder, Flagged, Untouched
  <1>9. CASE FailStranded
    <2>1. ~Flagged /\ (~row.plan => \A w \in Workers : worker[w].pc = "idle")
      BY <1>9 DEF FailStranded, IsStuckPreBuild, PreBuild, VerdictInv, TurnedDown, BeforePlan
    <2> QED
      BY <1>9, <2>1, RowKeepsType, StatusesUsed, WriteKeeps
      DEF FailStranded, PlanlessStatus, Resting, Flagged
  <1>10. CASE ExpireIdle
    <2>1. row.plan /\ ~Flagged
      BY <1>10, StatusesUsed DEF ExpireIdle, VerdictInv, BeforePlan, TurnedDown, Row
    <2> QED
      BY <1>10, <2>1, RowKeepsType, StatusesUsed, WriteKeeps DEF ExpireIdle, Flagged
  <1> QED
    BY <1>1, <1>4, <1>5, <1>6, <1>7, <1>8, <1>9, <1>10 DEF RecoveryStep

-----------------------------------------------------------------------------

LEMMA VerdictInit == Init => VerdictInv
  <1> SUFFICES ASSUME Init PROVE VerdictInv
    OBVIOUS
  <1>1. /\ row.status \in {"pending_access_approval", "created"} /\ ~row.plan /\ row.used = 0
        /\ row.verdict = "none"
    BY DEF Init, NewRow
  <1>2. Untouched
    BY DEF Init, Untouched, NoIteration
  <1>3. /\ \A w \in Workers : worker[w].pc \in {"idle", "intake"}
        /\ \A v, w \in Workers : worker[v].pc # "idle" /\ worker[w].pc # "idle" => v = w
        /\ \A w \in Workers : worker[w].pc # "idle" => active /\ row.status = "created"
    BY DEF Init, Idle, NewRow
  <1> QED
    BY <1>1, <1>2, <1>3 DEF VerdictInv, BeforePlan, AtGate, TurnedDown, InOrder, Flagged, PlanlessPC,
       EarlyPC, PlanlessStatus, Resting

LEMMA VerdictStep == TypeInv /\ VerdictInv /\ [Next]_vars => VerdictInv'
  <1> SUFFICES ASSUME TypeInv, VerdictInv, [Next]_vars PROVE VerdictInv'
    OBVIOUS
  <1>1. CASE UNCHANGED vars
    BY <1>1 DEF vars, VerdictInv, BeforePlan, AtGate, TurnedDown, InOrder, Flagged, Untouched
  <1>2. CASE Next
    BY <1>2, Cases, RequestVerdict, DecisionVerdict, SetupVerdict, BuildingVerdict, RecoveryVerdict
  <1> QED
    BY <1>1, <1>2

\* What the gate rejected or escalated, and what the operator rejected, is neither built
\* nor waiting to be, and shows nothing: no retry, late save, resumed build, crash or
\* second click brings it back.
THEOREM FlaggedIsNotBuilt == Spec => []FlaggedNotBuilt
  <1>1. TypeInv /\ VerdictInv => FlaggedNotBuilt
    BY DEF VerdictInv, TurnedDown, Flagged, FlaggedNotBuilt, Shown
  <1> QED
    BY <1>1, TypeInvariance, VerdictInit, VerdictStep, PTL DEF Spec
=============================================================================
