---------------------------- MODULE SerialProofs ----------------------------
(***************************************************************************)
(* The flip serialises a project's builds, in Pipeline, for every number   *)
(* of goroutines, builds and crashes, in the regime of Calm: no write      *)
(* fails for good, no agent goes silent, and the operator neither orders a *)
(* fix nor clicks twice.  (Each of these lets two goroutines build at      *)
(* once: TLC shows it.)                                                    *)
(*                                                                         *)
(* SingleBuilder is far from inductive.  A second goroutine can only come  *)
(* from a request, which asks for a status no goroutine at work leaves the *)
(* row in (Claimed), or from recovery, which works on iterations that are  *)
(* building: one is, at most, and either the goroutine at work drives it   *)
(* or startup has it on its list while nobody works (Driven, Startup).     *)
(***************************************************************************)
EXTENDS PipelineLifecycle, PipelineProofs

Calm == MaxFaults = 0 /\ Allowed \subseteq {"payment", "unpay", "touch", "expiry", "teardown"}

\* The statuses a request may start a goroutine from.
Startable == {"pending_access_approval", "needs_input", "needs_concept", "awaiting_approval",
              "failed", "preview_ready", "accepted", "delivered"}

AtWork(w) == worker[w].pc # "idle"
Nobody    == \A w \in Workers : ~AtWork(w)

\* A goroutine whose iteration is building.
OnBuild == {"prepare", "spawn", "session", "resume", "agent", "verify", "record"}

Alone == \A v, w \in Workers : AtWork(v) /\ AtWork(w) => v = w

Claimed ==
  \A w \in Workers : AtWork(w) =>
    /\ active /\ row.status \notin Startable
    /\ worker[w].kind \in {"first", "change"} /\ worker[w].pc \notin ReacceptPC

IsBuilding(i) == its[i].status = "building"

Driven ==
  /\ \A i \in Builds : IsBuilding(i) =>
       i \in todo \/ \E w \in Workers : worker[w].it = i /\ worker[w].pc \in OnBuild
  /\ \A w \in Workers : worker[w].pc \in OnBuild => IsBuilding(worker[w].it)

\* Startup recovery has at most one iteration to deal with, and the project to itself.
Startup ==
  /\ up => janitor = "idle" /\ todo = {}
  /\ janitor = "mark" => todo = {}
  /\ todo # {} \/ janitor = "mark" => Nobody
  /\ \A i, j \in todo : i = j
  /\ \A i \in todo : IsBuilding(i) /\ row.status \notin Startable

AcceptsPreview == webhook = "loaded" /\ "webhook" \in fresh => row.status = "preview_ready"

\* The pass under way is the one after the last that counted.
Numbered ==
  /\ \A i \in Builds : IsBuilding(i) => its[i].number = row.used + 1
  /\ \A w \in Workers : worker[w].pc = "publish" =>
       its[worker[w].it].number = row.used + 1 /\ its[worker[w].it].status = "preview_ready"

SerialInv == Alone /\ Claimed /\ Driven /\ Startup /\ AcceptsPreview /\ Numbered

-----------------------------------------------------------------------------
(* The shapes of steps.                                                    *)

\* A request starts a goroutine: the status it asks for, or its own look at the
\* goroutines, says that nobody is at work.
LEMMA StartKeeps ==
  ASSUME TypeInv, SerialInv, up, NEW w \in Workers, NEW pc, NEW kind \in {"first", "change"},
         row.status \in Startable \/ Nobody, Async(w, pc, kind, 0),
         pc \notin OnBuild \cup ReacceptPC \cup {"idle", "publish"},
         row'.status \notin Startable, row'.used = row.used, fresh' = {} \/ UNCHANGED <<row, fresh>>,
         UNCHANGED <<its, webhook, janitor, todo, up>>
  PROVE  SerialInv'
  <1> USE DEF SerialInv, AtWork, IsBuilding
  <1>1. Nobody
    BY DEF Claimed, Nobody
  <1>2. /\ worker'[w].pc = pc /\ worker'[w].kind = kind /\ active'
        /\ \A v \in Workers : v # w => worker'[v] = worker[v] /\ worker'[v].pc = "idle"
    BY <1>1 DEF Async, Nobody, TypeInv, WorkerTyped
  <1>3. todo = {} /\ janitor = "idle" /\ \A i \in Builds : its[i].status # "building"
    BY <1>1 DEF Startup, Driven, Nobody, OnBuild
  <1>4. Alone' /\ Claimed'
    BY <1>2 DEF Alone, Claimed
  <1>5. Driven' /\ Startup'
    BY <1>2, <1>3 DEF Driven, Startup, OnBuild
  <1>6. AcceptsPreview' /\ Numbered'
    BY <1>2, <1>3 DEF AcceptsPreview, Numbered
  <1> QED
    BY <1>4, <1>5, <1>6

\* A step that leaves goroutines and iterations alone; if it makes the project one a
\* request may start from, nobody is at work and startup is over.
LEMMA RowKeeps ==
  ASSUME TypeInv, SerialInv, row'.used = row.used,
         row'.status \in Startable => todo = {} /\ Nobody,
         webhook' = "loaded" /\ "webhook" \in fresh' => row'.status = "preview_ready",
         UNCHANGED <<its, worker, active, janitor, todo, up>>
  PROVE  SerialInv'
  <1> USE DEF SerialInv, AtWork, IsBuilding, Nobody
  <1>1. Alone' /\ Claimed'
    BY DEF Alone, Claimed
  <1>2. Driven' /\ Startup'
    BY DEF Driven, Startup
  <1>3. AcceptsPreview' /\ Numbered'
    BY DEF AcceptsPreview, Numbered
  <1> QED
    BY <1>1, <1>2, <1>3

\* The step of the goroutine at work.
LEMMA OwnKeeps ==
  ASSUME TypeInv, SerialInv, NEW w \in Workers, AtWork(w),
         \A v \in Workers : v # w => worker'[v] = worker[v],
         \/ ~AtWork(w)'
         \/ /\ active' = active /\ row'.status \notin Startable /\ worker'[w].kind = worker[w].kind
            /\ worker'[w].pc \notin ReacceptPC,
         \A i \in Builds : IsBuilding(i)' =>
           worker'[w].it = i /\ worker'[w].pc \in OnBuild /\ its'[i].number = row'.used + 1,
         worker'[w].pc \in OnBuild => IsBuilding(worker[w].it)',
         worker'[w].pc = "publish" =>
           its'[worker'[w].it].number = row'.used + 1 /\ its'[worker'[w].it].status = "preview_ready",
         "webhook" \in fresh' => "webhook" \in fresh /\ row'.status = row.status,
         UNCHANGED <<webhook, janitor, todo, up>>
  PROVE  SerialInv'
  <1> USE DEF SerialInv, AtWork, IsBuilding
  <1>1. \A v \in Workers : v # w => worker'[v].pc = "idle"
    BY DEF Alone
  <1>2. todo = {} /\ janitor # "mark"
    BY DEF Startup, Nobody
  <1>3. Alone' /\ Claimed'
    BY <1>1 DEF Alone, Claimed
  <1>4. Driven' /\ Startup'
    BY <1>1, <1>2 DEF Driven, Startup, OnBuild
  <1>5. AcceptsPreview' /\ Numbered'
    BY <1>1 DEF AcceptsPreview, Numbered
  <1> QED
    BY <1>3, <1>4, <1>5

\* A step of a goroutine that has no iteration building, before and after it.
LEMMA SetupKeeps ==
  ASSUME TypeInv, SerialInv, NEW w \in Workers, AtWork(w), worker[w].pc \notin OnBuild,
         NEW pc, pc \notin OnBuild \cup ReacceptPC \cup {"publish"},
         \/ Goto(w, pc) /\ pc # "idle" /\ UNCHANGED active /\ row'.status \notin Startable
         \/ Return(w),
         row'.used = row.used,
         \/ fresh' \subseteq {w}
         \/ fresh' \subseteq fresh \cup {w} /\ UNCHANGED row,
         \A i \in Builds : IsBuilding(i)' => IsBuilding(i), Elsewhere
  PROVE  SerialInv'
  <1>1. \A i \in Builds : ~IsBuilding(i)
    BY DEF SerialInv, Alone, Driven, Startup, Nobody, OnBuild, AtWork
  <1>2. /\ worker'[w].pc = "idle" \/ worker'[w].pc = pc
        /\ worker'[w].pc = "idle" \/ worker'[w].kind = worker[w].kind
        /\ \A v \in Workers : v # w => worker'[v] = worker[v]
        /\ worker'[w].pc = "idle" \/ (active' = active /\ row'.status \notin Startable)
    BY DEF Goto, Return, Idle, TypeInv, WorkerTyped, Goroutine
  <1>3. "webhook" \in fresh' => "webhook" \in fresh /\ row'.status = row.status
    BY PipelineAssumption
  <1>4. worker'[w].pc \notin OnBuild \cup ReacceptPC \cup {"publish"}
    BY <1>2 DEF OnBuild, ReacceptPC
  <1> QED
    BY <1>1, <1>2, <1>3, <1>4, OwnKeeps DEF AtWork, Elsewhere

-----------------------------------------------------------------------------
(* The steps.                                                              *)

LEMMA StatusSplit ==
  Startable \cap {"created", "concepting", "planning", "building", "clarifying", "screening",
                  "escalated", "rejected", "expired"} = {}
  BY DEF Startable

LEMMA RequestSerial ==
  ASSUME Calm, TypeInv, SerialInv, NEW w \in Workers, CustomerRequest(w) \/ OperatorRequest(w)
  PROVE  SerialInv'
  <1> row \in Row
    BY DEF TypeInv, RowTyped
  <1> USE DEF Request, Write
  <1>1. CASE SubmitAnswers(w)
    <2>1. row'.status = "concepting" /\ row'.used = row.used
      BY <1>1 DEF SubmitAnswers, At, Row
    <2> QED
      BY <1>1, <2>1, StartKeeps, StatusSplit DEF SubmitAnswers, OnBuild, ReacceptPC, Startable
  <1>2. CASE SelectConcept(w)
    <2>1. row'.status = "planning" /\ row'.used = row.used
      BY <1>2 DEF SelectConcept, At, Row
    <2> QED
      BY <1>2, <2>1, StartKeeps, StatusSplit DEF SelectConcept, OnBuild, ReacceptPC, Startable
  <1>3. CASE ApprovePlan(w)
    <2>1. row'.status = "building" /\ row'.used = row.used
      BY <1>3 DEF ApprovePlan, At, Row
    <2> QED
      BY <1>3, <2>1, StartKeeps, StatusSplit
      DEF ApprovePlan, CanApprovePlan, OnBuild, ReacceptPC, Startable
  <1>4. CASE Reiterate(w)
    <2>1. row'.status = "building" /\ row'.used = row.used
      BY <1>4 DEF Reiterate, At, Row
    <2>2. row.status \in Startable
      BY <1>4 DEF Reiterate, CanReiterate, CanRequestChange, Startable
    <2> QED
      BY <1>4, <2>1, <2>2, StartKeeps, StatusSplit DEF Reiterate, OnBuild, ReacceptPC
  <1>5. CASE RetryBuild(w)
    <2>1. row'.status \in {"concepting", "building"} /\ row'.used = row.used /\ row.status \in Startable
      BY <1>5 DEF RetryBuild, CanRetry, Startable, At, Row
    <2>2. \E pc \in {"concepts", "sweep"} : Async(w, pc, "first", 0)
      BY <1>5 DEF RetryBuild
    <2>3. up /\ fresh' = {} /\ UNCHANGED <<its, webhook, janitor, todo, up>>
      BY <1>5 DEF RetryBuild
    <2> QED
      BY <2>1, <2>2, <2>3, StartKeeps, StatusSplit DEF OnBuild, ReacceptPC
  <1>6. CASE ApproveAccess(w)
    <2>1. row'.status = "created" /\ row'.used = row.used
      BY <1>6 DEF ApproveAccess, At, Row
    <2> QED
      BY <1>6, <2>1, StartKeeps, StatusSplit DEF ApproveAccess, OnBuild, ReacceptPC, Startable
  <1>7. CASE OperatorIterate(w)
    BY <1>7 DEF OperatorIterate, Calm
  <1>8. CASE ApproveEscalated(w)
    <2>1. Nobody /\ row'.status \notin Startable
      BY <1>8 DEF ApproveEscalated, Calm, Nobody, AtWork, Startable
    <2> QED
      BY <1>8, <2>1, StartKeeps DEF ApproveEscalated, OnBuild, ReacceptPC
  <1> QED
    BY <1>1, <1>2, <1>3, <1>4, <1>5, <1>6, <1>7, <1>8 DEF CustomerRequest, OperatorRequest

\* Nobody is at work on a project a request may start from, and startup is over with it.
LEMMA StartableIsIdle ==
  ASSUME SerialInv, row.status \in Startable
  PROVE  Nobody /\ todo = {}
  BY DEF SerialInv, Claimed, Startup, Nobody

LEMMA DecisionSerial ==
  ASSUME TypeInv, SerialInv, Decision \/ TouchRow \/ Webhook \/ FailStranded \/ ExpireIdle
  PROVE  SerialInv'
  <1> row \in Row
    BY DEF TypeInv, RowTyped
  <1>1. row'.used = row.used /\ UNCHANGED <<its, worker, active, janitor, todo, up>>
    BY DEF Decision, RejectAccess, AcceptPreview, DeliverProject, ReturnToCustomer, RejectEscalated,
       DestroyPreview, MarkPaid, MarkUnpaid, TouchRow, Request, Webhook, SubscriptionStarted,
       AutoAcceptLoad, AutoAcceptSave, FailStranded, ExpireIdle, Write, Load, At, Row
  <1>2. row'.status \in Startable => todo = {} /\ Nobody
    <2>1. CASE RejectAccess \/ RejectEscalated \/ DestroyPreview \/ ExpireIdle
      <3>1. row'.status \in {"rejected", "expired"}
        BY <2>1 DEF RejectAccess, RejectEscalated, DestroyPreview, ExpireIdle, Write, At, Row
      <3> QED
        BY <3>1, StatusSplit
    <2>2. CASE AcceptPreview \/ DeliverProject \/ ReturnToCustomer
      <3>1. row.status \in Startable
        BY <2>2 DEF AcceptPreview, CanAccept, DeliverProject, ReturnToCustomer, Startable
      <3> QED
        BY <3>1, StartableIsIdle
    <2>3. CASE MarkPaid \/ MarkUnpaid \/ TouchRow \/ SubscriptionStarted \/ AutoAcceptLoad
      <3>1. row'.status = row.status
        BY <2>3 DEF MarkPaid, MarkUnpaid, TouchRow, SubscriptionStarted, AutoAcceptLoad, Write, Load, Row
      <3> QED
        BY <3>1, StartableIsIdle
    <2>4. CASE AutoAcceptSave
      <3>1. row'.status = row.status \/ row.status = "preview_ready"
        BY <2>4 DEF AutoAcceptSave, SerialInv, AcceptsPreview
      <3>2. row'.status \in Startable => row.status \in Startable
        BY <3>1 DEF Startable
      <3> QED
        BY <3>2, StartableIsIdle
    <2>5. CASE FailStranded
      BY <2>5 DEF FailStranded, SerialInv, Claimed, Startup, Nobody
    <2> QED
      BY <2>1, <2>2, <2>3, <2>4, <2>5 DEF Decision, Webhook
  <1>3. webhook' = "loaded" /\ "webhook" \in fresh' => row'.status = "preview_ready"
    <2>1. CASE AutoAcceptLoad
      BY <2>1 DEF AutoAcceptLoad, Load
    <2>2. CASE ~AutoAcceptLoad
      <3>1. fresh' = {} \/ webhook' = "none" \/ webhook' = "pending"
        BY <2>2 DEF Decision, RejectAccess, AcceptPreview, DeliverProject, ReturnToCustomer, RejectEscalated,
           DestroyPreview, MarkPaid, MarkUnpaid, TouchRow, Request, Webhook, SubscriptionStarted,
           AutoAcceptSave, FailStranded, ExpireIdle, Write
      <3> QED
        BY <3>1
    <2> QED
      BY <2>1, <2>2
  <1> QED
    BY <1>1, <1>2, <1>3, RowKeeps

LEMMA SetupSerial ==
  ASSUME Calm, TypeInv, SerialInv, NEW w \in Workers, Setup(w)
  PROVE  SerialInv'
  <1> row \in Row
    BY DEF TypeInv, RowTyped
  <1>0. AtWork(w) /\ worker[w].pc \notin OnBuild
    BY DEF Setup, StartIntake, RunConcepts, RunPlanGate, LoadPlan, StepFails, ClearEscalation, MarkFailed,
       Reaccept, LoadOrReturn, SaveOrFail, FinishOrFail, AtWork, OnBuild
  <1>9. row.status \notin Startable
    BY <1>0 DEF SerialInv, Claimed
  <1> DEFINE Calmly == {"intakeSave", "questions", "art", "planSave", "planner", "gate", "approveSave", "fail"}
  <1>10. Calmly \cap (OnBuild \cup ReacceptPC \cup {"publish", "idle"}) = {}
    BY DEF OnBuild, ReacceptPC
  <1>1. ASSUME NEW pc, NEW s, NEW next \in Calmly, LoadOrReturn(w, pc, s, next)
        PROVE  SerialInv'
    BY <1>0, <1>1, <1>9, <1>10, SetupKeeps DEF LoadOrReturn, Load, IsBuilding
  <1>2. ASSUME NEW pc, NEW r \in Row, r.used = row.used, r.status \notin Startable, NEW next \in Calmly,
               SaveOrFail(w, pc, r, next)
        PROVE  SerialInv'
    BY <1>0, <1>2, <1>9, <1>10, SetupKeeps DEF SaveOrFail, Save, IsBuilding
  <1>3. ASSUME NEW pc, NEW r \in Row, r.used = row.used, FinishOrFail(w, pc, r)
        PROVE  SerialInv'
    BY <1>0, <1>3, <1>9, <1>10, SetupKeeps DEF FinishOrFail, Write, IsBuilding
  <1>4. CASE StartIntake(w)
    BY <1>1, <1>2, <1>3, <1>4, RowKeepsType, StatusesUsed, StatusSplit
    DEF StartIntake, Resting, PlanlessStatus
  <1>5. CASE RunConcepts(w)
    <2> DEFINE r == [At(row, "needs_concept") EXCEPT !.concepts = TRUE]
    <2>1. r \in Row /\ r.used = row.used
      BY RowKeepsType, StatusesUsed DEF Resting
    <2>2. CASE LoadOrReturn(w, "concepts", "concepting", "art")
      BY <1>1, <2>2
    <2>3. CASE FinishOrFail(w, "art", r)
      <3> HIDE DEF r
      <3> QED
        BY <1>3, <2>1, <2>3
    <2> QED
      BY <1>5, <2>2, <2>3 DEF RunConcepts
  <1>6. CASE RunPlanGate(w)
    <2>1. CASE LoadPlan(w)
      BY <1>0, <2>1, <1>9, <1>10, SetupKeeps DEF LoadPlan, Load, IsBuilding
    <2>2. CASE SaveOrFail(w, "planSave", At(row, "planning"), "planner")
      BY <1>2, <2>2, RowKeepsType, StatusesUsed, StatusSplit DEF PlanlessStatus
    <2>3. CASE SaveOrFail(w, "planner", [At(row, "screening") EXCEPT !.plan = TRUE], "gate")
      <3> DEFINE r == [At(row, "screening") EXCEPT !.plan = TRUE]
      <3>1. r \in Row /\ r.used = row.used /\ r.status \notin Startable
        BY StatusSplit, StatusesUsed DEF Row, At
      <3> HIDE DEF r
      <3>2. SaveOrFail(w, "planner", r, "gate")
        BY <2>3 DEF r
      <3> QED
        BY <1>2, <3>1, <3>2
    <2>4. ASSUME NEW s \in Status, NEW v \in Verdict, FinishOrFail(w, "gate", [At(row, s) EXCEPT !.verdict = v])
          PROVE  SerialInv'
      <3> DEFINE r == [At(row, s) EXCEPT !.verdict = v]
      <3>1. r \in Row /\ r.used = row.used
        BY RowKeepsType
      <3> HIDE DEF r
      <3>2. FinishOrFail(w, "gate", r)
        BY <2>4 DEF r
      <3> QED
        BY <1>3, <3>1, <3>2
    <2> QED
      BY <1>6, <2>1, <2>2, <2>3, <2>4, StatusesUsed DEF RunPlanGate, Verdict
  <1>7. CASE StepFails(w)
    BY <1>0, <1>7, <1>9, <1>10, SetupKeeps DEF StepFails, IsBuilding
  <1>8. CASE ClearEscalation(w)
    <2> DEFINE r == [At(row, "awaiting_approval") EXCEPT !.verdict = "allow"]
    <2>1. r \in Row /\ r.used = row.used
      BY RowKeepsType, StatusesUsed DEF Verdict
    <2>2. CASE LoadOrReturn(w, "approve", "escalated", "approveSave")
      BY <1>1, <2>2
    <2>3. CASE FinishOrFail(w, "approveSave", r)
      <3> HIDE DEF r
      <3> QED
        BY <1>3, <2>1, <2>3
    <2> QED
      BY <1>8, <2>2, <2>3 DEF ClearEscalation
  <1>11. CASE MarkFailed(w)
    <2>1. row'.used = row.used /\ (fresh' \subseteq {w} \/ (fresh' \subseteq fresh \cup {w} /\ UNCHANGED row))
      BY <1>11 DEF MarkFailed, Write, MarkedFailed, At, Row
    <2> QED
      BY <1>0, <1>10, <1>11, <2>1, SetupKeeps DEF MarkFailed, IsBuilding
  <1>12. CASE Reaccept(w)
    BY <1>12 DEF Reaccept, LoadOrReturn, FinishOrFail, SerialInv, Claimed, AtWork, ReacceptPC
  <1> QED
    BY <1>4, <1>5, <1>6, <1>7, <1>8, <1>11, <1>12 DEF Setup

\* While a goroutine builds, its iteration is the only one that is building.
LEMMA OneBuilding ==
  ASSUME TypeInv, SerialInv, NEW w \in Workers, worker[w].pc \in OnBuild
  PROVE  /\ worker[w].it \in Builds /\ AtWork(w) /\ IsBuilding(worker[w].it)
         /\ its[worker[w].it].number = row.used + 1
         /\ \A i \in Builds : IsBuilding(i) => i = worker[w].it
         /\ row.status \notin Startable
  <1>1. worker[w].it \in Builds /\ AtWork(w)
    BY DEF TypeInv, WorkerTyped, HoldsBuild, HoldingPC, OnBuild, AtWork
  <1>2. todo = {}
    BY <1>1 DEF SerialInv, Startup, Nobody
  <1> QED
    BY <1>1, <1>2 DEF SerialInv, Driven, Alone, Numbered, Claimed, AtWork, OnBuild

\* A step of the build that goes on with it.
LEMMA BuildKeeps ==
  ASSUME TypeInv, SerialInv, NEW w \in Workers, worker[w].pc \in OnBuild, NEW pc \in OnBuild,
         worker' = [worker EXCEPT ![w].pc = pc], UNCHANGED active,
         \A i \in Builds : its'[i].number = its[i].number /\ (IsBuilding(i)' <=> IsBuilding(i)),
         row'.used = row.used, row'.status = row.status,
         "webhook" \in fresh' => "webhook" \in fresh, Elsewhere
  PROVE  SerialInv'
  <1>1. /\ worker'[w].pc = pc /\ worker'[w].it = worker[w].it /\ worker'[w].kind = worker[w].kind
        /\ \A v \in Workers : v # w => worker'[v] = worker[v]
    BY DEF TypeInv, WorkerTyped, Goroutine
  <1>2. pc \notin ReacceptPC \cup {"publish", "idle"}
    BY DEF OnBuild, ReacceptPC
  <1> QED
    BY <1>1, <1>2, OneBuilding, OwnKeeps DEF Elsewhere, IsBuilding

\* A step that ends the build's work on its iteration.
LEMMA BuildEnds ==
  ASSUME TypeInv, SerialInv, NEW w \in Workers, worker[w].pc \in OnBuild, NEW pc \in {"publish", "fail"},
         Goto(w, pc), UNCHANGED <<row, active>>, fresh' \subseteq fresh,
         \A i \in Builds : its'[i].number = its[i].number /\ (IsBuilding(i)' => IsBuilding(i)),
         its'[worker[w].it].status \in {"failed", "preview_ready"},
         pc = "publish" => its'[worker[w].it].status = "preview_ready", Elsewhere
  PROVE  SerialInv'
  <1>1. /\ worker'[w].pc = pc /\ worker'[w].it = worker[w].it /\ worker'[w].kind = worker[w].kind
        /\ \A v \in Workers : v # w => worker'[v] = worker[v]
    BY DEF Goto, TypeInv, WorkerTyped, Goroutine
  <1>2. pc \notin ReacceptPC \cup OnBuild
    BY DEF OnBuild, ReacceptPC
  <1>3. \A i \in Builds : ~IsBuilding(i)'
    BY OneBuilding DEF IsBuilding
  <1> QED
    BY <1>1, <1>2, <1>3, OneBuilding, OwnKeeps DEF Elsewhere, IsBuilding

LEMMA ReserveSerial ==
  ASSUME TypeInv, SerialInv, NEW w \in Workers, Reserve(w)
  PROVE  SerialInv'
  <1>1. PICK i \in FreeIterations :
          /\ its' = [its EXCEPT ![i] =
                       [NoIteration EXCEPT !.status = "building",
                          !.number = IF Internal(worker[w].kind) THEN 0 ELSE row.used + 1,
                          !.change = worker[w].kind # "first"]]
          /\ worker' = [worker EXCEPT ![w].pc = "prepare", ![w].it = i]
    BY DEF Reserve
  <1>2. AtWork(w) /\ worker[w].pc \notin OnBuild /\ row.status \notin Startable /\ ~Internal(worker[w].kind)
    BY DEF Reserve, AtWork, OnBuild, SerialInv, Claimed, Internal
  <1>3. /\ worker'[w].pc = "prepare" /\ worker'[w].it = i /\ worker'[w].kind = worker[w].kind
        /\ \A v \in Workers : v # w => worker'[v] = worker[v]
    BY <1>1 DEF TypeInv, WorkerTyped, Goroutine
  <1>4. /\ i \in Builds /\ its'[i].status = "building" /\ its'[i].number = row.used + 1
        /\ \A j \in Builds : j # i => its'[j] = its[j]
    BY <1>1, <1>2 DEF FreeIterations, TypeInv, ItsTyped, NoIteration
  <1>5. \A j \in Builds : ~IsBuilding(j)
    BY <1>2 DEF SerialInv, Alone, Driven, Startup, Nobody, OnBuild, AtWork
  <1>6. UNCHANGED <<row, fresh, active, webhook, janitor, todo, up>>
    BY DEF Reserve, Elsewhere
  <1> QED
    BY <1>2, <1>3, <1>4, <1>5, <1>6, OwnKeeps DEF IsBuilding, OnBuild, ReacceptPC, AtWork

LEMMA BuildingSerial ==
  ASSUME Calm, TypeInv, SerialInv, NEW w \in Workers, Building(w)
  PROVE  SerialInv'
  <1> its \in [Builds -> Iteration] /\ row \in Row /\ "webhook" \notin Workers
    BY PipelineAssumption DEF TypeInv, ItsTyped, RowTyped
  <1>0. ~Fault
    BY DEF Calm, Fault, TypeInv, RestTyped
  <1>1. CASE Sweep(w)
    <2>1. \A i \in Builds : IsBuilding(i)' => IsBuilding(i)
      BY <1>1, SweepWrites DEF TypeInv, IsBuilding
    <2>2. \E pc \in {"load", "plan"} : Goto(w, pc)
      BY <1>1 DEF Sweep
    <2> QED
      BY <1>1, <2>1, <2>2, SetupKeeps DEF Sweep, OnBuild, ReacceptPC, AtWork, SerialInv, Claimed
  <1>2. CASE Reserve(w)
    BY <1>2, ReserveSerial
  <1>3. CASE ReserveFails(w)
    BY <1>3, SetupKeeps DEF ReserveFails, OnBuild, ReacceptPC, AtWork, SerialInv, Claimed, IsBuilding
  <1>4. CASE Prepare(w)
    BY <1>0, <1>4, BuildKeeps DEF Prepare, Goto, Save, OnBuild, IsBuilding
  <1>5. CASE Spawn(w)
    <2>1. worker[w].pc \in OnBuild /\ worker' = [worker EXCEPT ![w].pc = "session"] /\ "session" \in OnBuild
      BY <1>5 DEF Spawn, Goto, OnBuild
    <2>2. \A i \in Builds : its'[i].number = its[i].number /\ (IsBuilding(i)' <=> IsBuilding(i))
      BY <1>5, <2>1, OneBuilding DEF Spawn, IsBuilding, Iteration
    <2> QED
      BY <1>5, <2>1, <2>2, BuildKeeps DEF Spawn
  <1>6. CASE StartSession(w)
    <2>1. worker[w].pc \in OnBuild /\ worker' = [worker EXCEPT ![w].pc = "agent"] /\ "agent" \in OnBuild
      BY <1>6 DEF StartSession, Goto, OnBuild
    <2>2. \A i \in Builds : its'[i].number = its[i].number /\ (IsBuilding(i)' <=> IsBuilding(i))
      BY <1>6, <2>1, OneBuilding DEF StartSession, IsBuilding, Iteration
    <2> QED
      BY <1>6, <2>1, <2>2, BuildKeeps DEF StartSession
  <1>7. CASE Resume(w)
    BY <1>7, BuildKeeps DEF Resume, Goto, Load, OnBuild, IsBuilding
  <1>8. CASE LogProgress(w)
    <2>1. worker[w].pc \in OnBuild /\ worker[w].pc = "agent"
      BY <1>8 DEF LogProgress, OnBuild
    <2>2. \A i \in Builds : its'[i].number = its[i].number /\ (IsBuilding(i)' <=> IsBuilding(i))
      BY <1>8, <2>1, OneBuilding DEF LogProgress, IsBuilding, Iteration
    <2>3. worker' = [worker EXCEPT ![w].pc = "agent"]
      BY <1>8, <2>1 DEF LogProgress, TypeInv, WorkerTyped, Goroutine
    <2> QED
      BY <1>8, <2>1, <2>2, <2>3, BuildKeeps DEF LogProgress
  <1>9. CASE AgentReturns(w)
    <2>1. worker[w].pc \in OnBuild /\ worker' = [worker EXCEPT ![w].pc = "verify"] /\ "verify" \in OnBuild
      BY <1>9 DEF AgentReturns, Goto, OnBuild
    <2>2. \A i \in Builds : its'[i].number = its[i].number /\ (IsBuilding(i)' <=> IsBuilding(i))
      BY <1>9, <2>1, OneBuilding DEF AgentReturns, IsBuilding, Iteration
    <2> QED
      BY <1>9, <2>1, <2>2, BuildKeeps DEF AgentReturns
  <1>10. CASE BuildFails(w)
    <2>1. worker[w].pc \in OnBuild /\ fresh' \subseteq fresh /\ Goto(w, "fail") /\ UNCHANGED <<row, active>>
      BY <1>10 DEF BuildFails, OnBuild
    <2>2. its' = [its EXCEPT ![worker[w].it] = [@ EXCEPT !.status = "failed", !.alive = FALSE]]
      BY <1>0, <1>10 DEF BuildFails
    <2>3. /\ \A i \in Builds : its'[i].number = its[i].number /\ (IsBuilding(i)' => IsBuilding(i))
          /\ its'[worker[w].it].status = "failed"
      BY <2>1, <2>2, OneBuilding DEF IsBuilding, Iteration
    <2> QED
      BY <1>10, <2>1, <2>3, BuildEnds DEF BuildFails
  <1>11. CASE Verified(w)
    <2>1. row'.used = row.used /\ row'.status = row.status /\ ("webhook" \in fresh' => "webhook" \in fresh)
      BY <1>11 DEF Verified, Save, Row
    <2> QED
      BY <1>11, <2>1, BuildKeeps DEF Verified, Goto, OnBuild, IsBuilding
  <1>12. CASE Record(w)
    <2>1. worker[w].pc \in OnBuild /\ Goto(w, "publish") /\ UNCHANGED <<row, fresh, active>>
          /\ its' = [its EXCEPT ![worker[w].it].status = "preview_ready"]
      BY <1>0, <1>12 DEF Record, OnBuild
    <2>2. /\ \A i \in Builds : its'[i].number = its[i].number /\ (IsBuilding(i)' => IsBuilding(i))
          /\ its'[worker[w].it].status = "preview_ready"
      BY <2>1, OneBuilding DEF IsBuilding, Iteration
    <2> QED
      BY <1>12, <2>1, <2>2, BuildEnds DEF Record
  <1>13. CASE Publish(w)
    <2>1. AtWork(w) /\ worker[w].pc = "publish" /\ worker[w].kind # "review" /\ worker[w].pc \notin OnBuild
      BY <1>13 DEF Publish, AtWork, OnBuild, SerialInv, Claimed
    <2>2. \A i \in Builds : ~IsBuilding(i)
      BY <2>1 DEF SerialInv, Alone, Driven, Startup, Nobody, OnBuild, AtWork
    <2>3. Return(w) /\ fresh' = {} /\ UNCHANGED its /\ Elsewhere
      BY <1>0, <1>13, <2>1 DEF Publish, Write
    <2>4. worker'[w].pc = "idle" /\ \A v \in Workers : v # w => worker'[v] = worker[v]
      BY <2>3 DEF Return, Idle, TypeInv, WorkerTyped
    <2> QED
      BY <2>1, <2>2, <2>3, <2>4, OwnKeeps DEF Elsewhere, IsBuilding, AtWork, OnBuild
  <1> QED
    BY <1>1, <1>2, <1>3, <1>4, <1>5, <1>6, <1>7, <1>8, <1>9, <1>10, <1>11, <1>12, <1>13 DEF Building

\* A crash leaves startup the one iteration that was building.
LEMMA CrashSerial ==
  ASSUME TypeInv, SerialInv, Crash
  PROVE  SerialInv'
  <1>1. /\ \A w \in Workers : worker'[w].pc = "idle"
        /\ fresh' = {} /\ up' = FALSE /\ janitor' = "sweep" /\ todo' = ActiveIterations
        /\ UNCHANGED <<row, its>>
    BY DEF Crash, Idle
  <1>2. \A i \in Builds : IsBuilding(i) <=> i \in ActiveIterations
    BY DEF ActiveIterations, IsBuilding
  <1>3. \A i, j \in ActiveIterations : i = j
    <2>1. CASE Nobody
      BY <2>1 DEF SerialInv, Driven, Startup, ActiveIterations, IsBuilding, Nobody, AtWork, OnBuild
    <2>2. ASSUME NEW w \in Workers, AtWork(w) PROVE \A i, j \in ActiveIterations : i = j
      BY <2>2 DEF SerialInv, Alone, Driven, Startup, ActiveIterations, IsBuilding, Nobody, AtWork, OnBuild
    <2> QED
      BY <2>1, <2>2 DEF Nobody
  <1>4. \A i \in ActiveIterations : row.status \notin Startable
    BY DEF SerialInv, Claimed, Driven, Startup, ActiveIterations, IsBuilding, AtWork, OnBuild
  <1>5. Driven' /\ Startup'
    BY <1>1, <1>2, <1>3, <1>4 DEF Driven, Startup, Nobody, AtWork, IsBuilding, OnBuild, ActiveIterations
  <1>6. Alone' /\ Claimed' /\ AcceptsPreview' /\ Numbered'
    BY <1>1 DEF SerialInv, Alone, Claimed, AcceptsPreview, Numbered, AtWork, IsBuilding
  <1> QED
    BY <1>5, <1>6 DEF SerialInv

\* The reaper finds nothing: whatever is building is driven.
LEMMA NothingSilent ==
  ASSUME Calm, TypeInv, SerialInv, up
  PROVE  Silent = {} /\ todo = {} /\ janitor = "idle"
  BY DEF Calm, SerialInv, Driven, Startup, Silent, ActiveIterations, IsBuilding, OnBuild

LEMMA RecoverySerial ==
  ASSUME Calm, TypeInv, SerialInv, ReaperTick \/ RecoveryStep
  PROVE  SerialInv'
  <1> its \in [Builds -> Iteration] /\ row \in Row
    BY DEF TypeInv, ItsTyped, RowTyped
  <1>1. CASE ReaperTick
    BY <1>1, NothingSilent DEF ReaperTick
  <1>2. ASSUME NEW i \in Builds, i \in todo
        PROVE  ~up /\ Nobody /\ IsBuilding(i) /\ todo = {i} /\ row.status \notin Startable
    BY <1>2 DEF SerialInv, Startup
  <1>3. ASSUME NEW i \in Builds, ReaperSkips(i)
        PROVE  SerialInv'
    BY <1>2, <1>3 DEF ReaperSkips, Undriven
  <1>4. ASSUME NEW i \in Builds, Reap(i)
        PROVE  SerialInv'
    <2>1. ~up /\ Nobody /\ IsBuilding(i) /\ todo = {i}
      BY <1>2, <1>4 DEF Reap
    <2>2. /\ its' = [its EXCEPT ![i] = [@ EXCEPT !.status = "failed", !.alive = FALSE]]
          /\ todo' = {} /\ janitor' = "mark" /\ UNCHANGED <<row, fresh, worker, active, webhook, up>>
      BY <1>4, <2>1 DEF Reap, Fault, Calm, TypeInv, RestTyped
    <2>3. \A j \in Builds : ~IsBuilding(j)'
      BY <2>1, <2>2 DEF SerialInv, Driven, Nobody, AtWork, OnBuild, IsBuilding, Iteration
    <2>4. Driven' /\ Startup'
      BY <2>1, <2>2, <2>3 DEF Driven, Startup, Nobody, AtWork, OnBuild
    <2>5. Alone' /\ Claimed' /\ AcceptsPreview' /\ Numbered'
      BY <2>1, <2>2, <2>3 DEF SerialInv, Alone, Claimed, AcceptsPreview, Numbered, Nobody, AtWork
    <2> QED
      BY <2>4, <2>5 DEF SerialInv
  <1>5. ASSUME NEW i \in Builds, NEW w \in Workers, Reattach(i, w)
        PROVE  SerialInv'
    <2>1. ~up /\ Nobody /\ IsBuilding(i) /\ todo = {i} /\ row.status \notin Startable
      BY <1>2, <1>5 DEF Reattach
    <2>2. its[i].number # 0
      BY <2>1 DEF SerialInv, Numbered, IsBuilding, Row
    <2>3. PICK kind \in {"first", "change"} : Async(w, "resume", kind, i)
      BY <1>5, <2>2 DEF Reattach
    <2>4. /\ worker'[w].pc = "resume" /\ worker'[w].it = i /\ worker'[w].kind = kind /\ active'
          /\ \A v \in Workers : v # w => worker'[v].pc = "idle"
      BY <2>1, <2>3 DEF Async, TypeInv, WorkerTyped, Nobody, AtWork
    <2>5. todo' = {} /\ UNCHANGED <<row, fresh, its, webhook, janitor, up>> /\ janitor = "sweep"
      BY <1>5, <2>1 DEF Reattach
    <2>6. Alone' /\ Claimed'
      BY <2>1, <2>4, <2>5 DEF Alone, Claimed, AtWork, ReacceptPC
    <2>7. \A j \in Builds : IsBuilding(j) => j = i
      BY <2>1 DEF SerialInv, Driven, Nobody, AtWork, OnBuild
    <2>8. Driven' /\ Startup'
      BY <2>1, <2>4, <2>5, <2>7 DEF Driven, Startup, IsBuilding, OnBuild
    <2>9. AcceptsPreview' /\ Numbered'
      BY <2>4, <2>5 DEF SerialInv, AcceptsPreview, Numbered, IsBuilding
    <2> QED
      BY <2>6, <2>8, <2>9 DEF SerialInv
  <1>6. CASE ReapMark
    <2>1. Nobody /\ todo = {}
      BY <1>6 DEF ReapMark, SerialInv, Startup
    <2>2. row'.used = row.used /\ fresh' = {} /\ janitor' = "sweep"
          /\ UNCHANGED <<its, worker, active, webhook, todo, up>>
      BY <1>6 DEF ReapMark, Write, MarkedFailed, At, Row
    <2>3. ~up
      BY <1>6 DEF ReapMark, SerialInv, Startup
    <2>4. Driven' /\ Startup'
      BY <2>1, <2>2, <2>3 DEF SerialInv, Driven, Startup, IsBuilding
    <2>5. Alone' /\ Claimed' /\ AcceptsPreview' /\ Numbered'
      BY <2>1, <2>2 DEF SerialInv, Alone, Claimed, AcceptsPreview, Numbered, Nobody, AtWork, IsBuilding
    <2> QED
      BY <2>4, <2>5 DEF SerialInv
  <1>7. CASE SweepSandboxes
    <2>1. /\ \A i \in Builds : its'[i].status = its[i].status /\ its'[i].number = its[i].number
          /\ todo = {} /\ janitor' = "idle" /\ UNCHANGED <<row, fresh, worker, active, webhook, todo>>
      BY <1>7 DEF SweepSandboxes, Iteration
    <2>2. \A w \in Workers : worker[w].pc = "publish" \/ worker[w].pc \in OnBuild => worker[w].it \in Builds
      BY DEF TypeInv, WorkerTyped, HoldsBuild, HoldingPC, OnBuild
    <2>3. Driven' /\ Startup'
      BY <2>1, <2>2 DEF SerialInv, Driven, Startup, IsBuilding
    <2>4. Alone' /\ Claimed' /\ AcceptsPreview' /\ Numbered'
      BY <2>1, <2>2 DEF SerialInv, Alone, Claimed, AcceptsPreview, Numbered, Nobody, AtWork, IsBuilding
    <2> QED
      BY <2>3, <2>4 DEF SerialInv
  <1> QED
    BY <1>1, <1>3, <1>4, <1>5, <1>6, <1>7 DEF RecoveryStep

LEMMA SerialInit == Init => SerialInv
  <1> SUFFICES ASSUME Init PROVE SerialInv
    OBVIOUS
  <1>1. /\ \A i \in Builds : ~IsBuilding(i)
        /\ janitor = "idle" /\ todo = {} /\ webhook = "none"
        /\ \A w \in Workers : worker[w].pc \in {"idle", "intake"} /\ worker[w].kind = "first"
    BY DEF Init, IsBuilding, NoIteration, Idle
  <1>2. Alone /\ Claimed
    BY DEF Init, Alone, Claimed, AtWork, Idle, NewRow, Startable, ReacceptPC
  <1>3. Driven /\ Startup /\ AcceptsPreview /\ Numbered
    BY <1>1 DEF Driven, Startup, AcceptsPreview, Numbered, OnBuild
  <1> QED
    BY <1>2, <1>3 DEF SerialInv

LEMMA SerialStep ==
  ASSUME Calm
  PROVE  TypeInv /\ SerialInv /\ [Next]_vars => SerialInv'
  <1> SUFFICES ASSUME TypeInv, SerialInv, [Next]_vars PROVE SerialInv'
    OBVIOUS
  <1>1. CASE UNCHANGED vars
    BY <1>1 DEF vars, SerialInv, Alone, Claimed, Driven, Startup, AcceptsPreview, Numbered, Nobody,
       AtWork, IsBuilding
  <1>2. CASE Next
    BY <1>2, Cases, RequestSerial, DecisionSerial, SetupSerial, BuildingSerial, CrashSerial, RecoverySerial
  <1> QED
    BY <1>1, <1>2

LEMMA SerialInvariance == ASSUME Calm PROVE Spec => [](TypeInv /\ SerialInv)
  BY TypeInit, TypeStep, SerialInit, SerialStep, PTL DEF Spec

\* The flip to "building" is the lock: whatever requests, retries, payments, takedowns,
\* crashes and recoveries come together, at most one goroutine builds a project.
THEOREM OneBuilder == ASSUME Calm PROVE Spec => []SingleBuilder
  <1>1. TypeInv /\ SerialInv => SingleBuilder
    BY DEF SerialInv, Alone, SingleBuilder, Driving, BuildPC, AtWork
  <1> QED
    BY <1>1, SerialInvariance, PTL

\* Nothing but the end of a build moves a project that is being built: no late failure
\* of an older goroutine, no webhook, no reaper.
THEOREM BuildIsLeftAlone ==
  ASSUME Calm, "teardown" \notin Allowed
  PROVE  Spec => DrivenStaysBuilding
  <1> DEFINE Stays == (\E w \in Workers : Driving(w) /\ Driving(w)') /\ row.status = "building"
                        => row'.status = "building"
  <1>1. TypeInv /\ SerialInv /\ [Next]_vars => [Stays]_vars
    <2> SUFFICES ASSUME TypeInv, SerialInv, Next, row.status = "building",
                        NEW w \in Workers, Driving(w), Driving(w)'
                 PROVE  row'.status = "building"
      OBVIOUS
    <2> row \in Row /\ worker \in [Workers -> Goroutine]
      BY DEF TypeInv, RowTyped, WorkerTyped
    <2>1. \A v \in Workers : AtWork(v) => v = w
      BY DEF SerialInv, Alone, AtWork, Driving, BuildPC
    <2>2. ~Nobody /\ active /\ todo = {} /\ janitor # "mark"
      BY DEF SerialInv, Claimed, Startup, Nobody, AtWork, Driving, BuildPC
    <2>3. ASSUME NEW v \in Workers, CustomerRequest(v) \/ OperatorRequest(v)
          PROVE  row'.status = "building"
      BY <2>3 DEF CustomerRequest, SubmitAnswers, SelectConcept, ApprovePlan, CanApprovePlan, Reiterate,
         CanReiterate, CanRequestChange, RetryBuild, CanRetry, OperatorRequest, ApproveAccess,
         OperatorIterate, ApproveEscalated
    <2>4. ASSUME NEW v \in Workers, Setup(v)
          PROVE  row'.status = "building"
      <3>1. v = w
        BY <2>1, <2>4 DEF Setup, StartIntake, RunConcepts, RunPlanGate, LoadPlan, StepFails, ClearEscalation,
           MarkFailed, Reaccept, LoadOrReturn, SaveOrFail, FinishOrFail, AtWork
      <3> QED
        BY <2>4, <3>1 DEF Setup, StartIntake, RunConcepts, RunPlanGate, LoadPlan, StepFails, ClearEscalation,
           MarkFailed, Reaccept, LoadOrReturn, SaveOrFail, FinishOrFail, Driving, BuildPC
    <2>5. ASSUME NEW v \in Workers, Building(v)
          PROVE  row'.status = "building"
      <3>1. v = w
        BY <2>1, <2>5 DEF Building, Sweep, Reserve, ReserveFails, Prepare, Spawn, StartSession, Resume,
           LogProgress, AgentReturns, BuildFails, Verified, Record, Publish, AtWork
      <3>2. ~Publish(w)
        BY DEF Publish, Return, Goto, Idle, Driving, BuildPC, Goroutine
      <3> QED
        BY <2>5, <3>1, <3>2 DEF Building, Sweep, Reserve, ReserveFails, Prepare, Spawn, StartSession, Resume,
           LogProgress, AgentReturns, BuildFails, Verified, Record, Save, Load, Row
    <2>6. CASE Decision \/ TouchRow \/ Webhook \/ FailStranded \/ ExpireIdle
      BY <2>2, <2>6 DEF Decision, RejectAccess, AcceptPreview, CanAccept, DeliverProject, ReturnToCustomer,
         RejectEscalated, DestroyPreview, MarkPaid, MarkUnpaid, TouchRow, Webhook, SubscriptionStarted,
         AutoAcceptLoad, AutoAcceptSave, FailStranded, ExpireIdle, Write, Load, Row, SerialInv, AcceptsPreview
    <2>7. CASE Crash \/ ReaperTick \/ RecoveryStep
      BY <2>2, <2>7 DEF Crash, ReaperTick, RecoveryStep, ReaperSkips, Reap, Reattach, ReapMark, SweepSandboxes
    <2> QED
      BY <2>3, <2>4, <2>5, <2>6, <2>7, Cases
  <1>2. [][Stays]_vars => DrivenStaysBuilding
    BY DEF DrivenStaysBuilding
  <1> QED
    BY <1>1, <1>2, SerialInvariance, PTL DEF Spec

-----------------------------------------------------------------------------
(* The counter and the record of what it counts.                           *)

\* Publishing is the only step that counts, and the last of its build.
LEMMA UsedStep ==
  ASSUME TypeInv, Next, ~(\E w \in Workers : Publish(w))
  PROVE  /\ row'.used = row.used
         /\ "unpay" \notin Allowed /\ row.paid => row'.paid
  <1> row \in Row
    BY DEF TypeInv, RowTyped
  <1> DEFINE Same == row'.used = row.used /\ ("unpay" \notin Allowed /\ row.paid => row'.paid)
  <1>0. ASSUME row' = MarkedFailed(row) PROVE Same
    BY <1>0 DEF MarkedFailed, At, Row
  <1>1. ASSUME NEW w \in Workers, CustomerRequest(w) \/ OperatorRequest(w)
        PROVE  Same
    BY <1>1 DEF CustomerRequest, SubmitAnswers, SelectConcept, ApprovePlan, Reiterate, RetryBuild,
       OperatorRequest, ApproveAccess, OperatorIterate, ApproveEscalated, Write, At, Row
  <1>2. ASSUME NEW w \in Workers, Setup(w)
        PROVE  Same
    BY <1>0, <1>2 DEF Setup, StartIntake, RunConcepts, RunPlanGate, LoadPlan, StepFails, ClearEscalation,
       MarkFailed, Reaccept, LoadOrReturn, SaveOrFail, FinishOrFail, Write, Save, Load, At, Row
  <1>3. ASSUME NEW w \in Workers, Building(w)
        PROVE  Same
    BY <1>3 DEF Building, Sweep, Reserve, ReserveFails, Prepare, Spawn, StartSession, Resume,
       LogProgress, AgentReturns, BuildFails, Verified, Record, Write, Save, Load, Row
  <1>4. CASE Decision \/ TouchRow \/ Webhook \/ FailStranded \/ ExpireIdle
    BY <1>4 DEF Decision, RejectAccess, AcceptPreview, DeliverProject, ReturnToCustomer, RejectEscalated,
       DestroyPreview, MarkPaid, MarkUnpaid, TouchRow, Webhook, SubscriptionStarted, AutoAcceptLoad,
       AutoAcceptSave, FailStranded, ExpireIdle, Write, Load, At, Row
  <1>5. CASE Crash \/ ReaperTick \/ RecoveryStep
    BY <1>0, <1>5 DEF Crash, ReaperTick, RecoveryStep, ReaperSkips, Reap, Reattach, ReapMark, SweepSandboxes, Write
  <1> QED
    BY <1>1, <1>2, <1>3, <1>4, <1>5, Cases

Succeeded(i) == its[i].status = "preview_ready"

\* Nobody overwrites the row of a pass that succeeded.
LEMMA SuccessStays ==
  ASSUME Calm, TypeInv, SerialInv, Next, NEW i \in Builds, Succeeded(i)
  PROVE  Succeeded(i)' /\ its'[i].number = its[i].number
  <1> its \in [Builds -> Iteration]
    BY DEF TypeInv, ItsTyped
  <1> USE DEF Succeeded, Iteration
  <1>1. ASSUME NEW w \in Workers, CustomerRequest(w) \/ OperatorRequest(w) \/ Setup(w)
        PROVE  UNCHANGED its
    BY <1>1 DEF CustomerRequest, SubmitAnswers, SelectConcept, ApprovePlan, Reiterate, RetryBuild,
       OperatorRequest, ApproveAccess, OperatorIterate, ApproveEscalated, Request, Setup, StartIntake,
       RunConcepts, RunPlanGate, LoadPlan, StepFails, ClearEscalation, MarkFailed, Reaccept, LoadOrReturn,
       SaveOrFail, FinishOrFail
  <1>2. CASE Decision \/ TouchRow \/ Webhook \/ FailStranded \/ ExpireIdle \/ Crash \/ ReaperTick
    BY <1>2 DEF Decision, RejectAccess, AcceptPreview, DeliverProject, ReturnToCustomer, RejectEscalated,
       DestroyPreview, MarkPaid, MarkUnpaid, TouchRow, Request, Webhook, SubscriptionStarted, AutoAcceptLoad,
       AutoAcceptSave, FailStranded, ExpireIdle, Crash, ReaperTick
  <1>3. ASSUME NEW w \in Workers, Building(w)
        PROVE  Succeeded(i)' /\ its'[i].number = its[i].number
    <2>1. CASE Sweep(w)
      BY <2>1, SweepWrites DEF TypeInv
    <2>2. CASE Reserve(w)
      BY <2>2 DEF Reserve, FreeIterations
    <2>3. CASE ReserveFails(w) \/ Resume(w) \/ Verified(w) \/ Publish(w)
      BY <2>3 DEF ReserveFails, Resume, Verified, Publish
    <2>4. CASE ~(Sweep(w) \/ Reserve(w) \/ ReserveFails(w) \/ Resume(w) \/ Verified(w) \/ Publish(w))
      <3>1. worker[w].pc \in OnBuild
        BY <1>3, <2>4 DEF Building, Prepare, Spawn, StartSession, LogProgress, AgentReturns, BuildFails,
           Record, OnBuild
      <3>2. i # worker[w].it
        BY <3>1, OneBuilding DEF IsBuilding
      <3>3. CASE Prepare(w)
        BY <3>2, <3>3 DEF Prepare
      <3>7. CASE Spawn(w)
        <4>1. its'[i] = [its[i] EXCEPT !.alive = FALSE]
          BY <3>2, <3>7 DEF Spawn
        <4> QED
          BY <4>1
      <3>4. CASE StartSession(w) \/ LogProgress(w) \/ AgentReturns(w)
        BY <3>2, <3>4 DEF StartSession, LogProgress, AgentReturns
      <3>5. CASE BuildFails(w)
        BY <3>2, <3>5 DEF BuildFails
      <3>6. CASE Record(w)
        BY <3>2, <3>6 DEF Record
      <3> QED
        BY <1>3, <2>4, <3>3, <3>4, <3>5, <3>6, <3>7 DEF Building
    <2> QED
      BY <2>1, <2>2, <2>3, <2>4
  <1>4. CASE RecoveryStep
    <2>1. ASSUME NEW j \in Builds, Reap(j)
          PROVE  Succeeded(i)' /\ its'[i].number = its[i].number
      <3>1. j # i
        BY <2>1 DEF Reap, SerialInv, Startup, IsBuilding
      <3> QED
        BY <2>1, <3>1 DEF Reap
    <2>2. CASE SweepSandboxes
      BY <2>2 DEF SweepSandboxes
    <2> QED
      BY <1>4, <2>1, <2>2 DEF RecoveryStep, ReaperSkips, Reattach, ReapMark
  <1> QED
    BY <1>1, <1>2, <1>3, <1>4, Cases

LEMMA RecordStep ==
  ASSUME Calm
  PROVE  TypeInv /\ SerialInv /\ CounterHasRecord /\ [Next]_vars => CounterHasRecord'
  <1> SUFFICES ASSUME TypeInv, SerialInv, CounterHasRecord, [Next]_vars, row'.used >= 1
               PROVE  \E i \in Builds : its'[i].number = row'.used /\ its'[i].status = "preview_ready"
    BY DEF CounterHasRecord
  <1>1. CASE UNCHANGED vars
    BY <1>1 DEF vars, CounterHasRecord
  <1>2. ASSUME NEW w \in Workers, Publish(w)
        PROVE  \E i \in Builds : its'[i].number = row'.used /\ its'[i].status = "preview_ready"
    <2> DEFINE i == worker[w].it
    <2>1. i \in Builds /\ its[i].number = row.used + 1 /\ its[i].status = "preview_ready" /\ row.used \in Nat
      BY <1>2 DEF Publish, SerialInv, Numbered, TypeInv, WorkerTyped, HoldsBuild, HoldingPC, RowTyped, Row
    <2>2. row' = Published(its[i].number) /\ UNCHANGED its
      BY <1>2 DEF Publish, Write, Calm, Fault, TypeInv, RestTyped
    <2>3. row'.used = its[i].number
      BY <2>1, <2>2 DEF Published, At, TypeInv, RowTyped, Row
    <2> QED
      BY <2>1, <2>2, <2>3
  <1>3. CASE Next /\ ~(\E w \in Workers : Publish(w))
    <2>1. row'.used = row.used
      BY <1>3, UsedStep
    <2>2. PICK i \in Builds : its[i].number = row.used /\ Succeeded(i)
      BY <2>1 DEF CounterHasRecord, Succeeded
    <2> QED
      BY <1>3, <2>1, <2>2, SuccessStays DEF Succeeded
  <1> QED
    BY <1>1, <1>2, <1>3

\* The two rows a build ends with are written one after the other; whatever happens in
\* between, the pass the counter names is on record as the one that succeeded.
THEOREM CountIsOnRecord == ASSUME Calm PROVE Spec => []CounterHasRecord
  <1>1. Init => CounterHasRecord
    BY DEF Init, NewRow, CounterHasRecord
  <1> QED
    BY <1>1, SerialInvariance, RecordStep, PTL DEF Spec

-----------------------------------------------------------------------------
(* The builds nobody pays for.  A reservation only asks a customer's change    *)
(* for its budget; any other pass is the first, because what leads to one is   *)
(* out of reach of a project that has had one.                                 *)

Young == row.status \in Waiting \cup PreBuild => row.used = 0

FirstPasses ==
  \A w \in Workers :
    /\ worker[w].pc \in SetupPC => worker[w].kind = "first"
    /\ AtWork(w) /\ worker[w].kind = "first" => row.used = 0

FirstOrChange == \A i \in Builds : IsBuilding(i) => its[i].change \/ row.used = 0

BudgetInv == Young /\ FirstPasses /\ FirstOrChange

LEMMA YoungStep ==
  ASSUME ShownInv, BudgetInv, Next, ~(\E w \in Workers : Publish(w))
  PROVE  row'.status \in Waiting \cup PreBuild => row.used = 0
  <1> row \in Row
    BY DEF ShownInv, TypeInv, RowTyped
  <1> DEFINE Unseen(r) == r.status \in Waiting \cup PreBuild => row.used = 0
  <1> USE DEF BudgetInv, Young, Waiting, PreBuild
  <1>0. ASSUME row' = MarkedFailed(row) PROVE Unseen(row')
    <2>1. row.used >= 1 => row.url
      BY DEF ShownInv, CountedInv, Counted
    <2> QED
      BY <1>0, <2>1 DEF MarkedFailed, HadPreview, At, Row
  <1>1. ASSUME NEW w \in Workers, CustomerRequest(w) \/ OperatorRequest(w)
        PROVE  Unseen(row')
    BY <1>1 DEF CustomerRequest, SubmitAnswers, SelectConcept, ApprovePlan, Reiterate, RetryBuild, CanRetry,
       OperatorRequest, ApproveAccess, OperatorIterate, ApproveEscalated, Write, At, Row
  <1>2. ASSUME NEW w \in Workers, Setup(w)
        PROVE  Unseen(row')
    <2>1. CASE MarkFailed(w)
      BY <1>0, <2>1 DEF MarkFailed, Write
    <2>2. CASE Reaccept(w)
      BY <2>2 DEF Reaccept, LoadOrReturn, FinishOrFail, Write, Load, At, Row
    <2>3. CASE Setup(w) /\ ~MarkFailed(w) /\ ~Reaccept(w)
      <3>1. worker[w].pc \in SetupPC /\ AtWork(w)
        BY <2>3 DEF Setup, StartIntake, RunConcepts, RunPlanGate, LoadPlan, StepFails, ClearEscalation,
           LoadOrReturn, SaveOrFail, FinishOrFail, SetupPC, AtWork
      <3> QED
        BY <3>1 DEF FirstPasses
    <2> QED
      BY <1>2, <2>1, <2>2, <2>3
  <1>3. ASSUME NEW w \in Workers, Building(w)
        PROVE  Unseen(row')
    BY <1>3 DEF Building, Sweep, Reserve, ReserveFails, Prepare, Spawn, StartSession, Resume,
       LogProgress, AgentReturns, BuildFails, Verified, Record, Write, Save, Load, Row
  <1>4. CASE Decision \/ TouchRow \/ Webhook \/ FailStranded \/ ExpireIdle
    BY <1>4 DEF Decision, RejectAccess, AcceptPreview, DeliverProject, ReturnToCustomer, RejectEscalated,
       DestroyPreview, MarkPaid, MarkUnpaid, TouchRow, Webhook, SubscriptionStarted, AutoAcceptLoad,
       AutoAcceptSave, FailStranded, IsStuckPreBuild, ExpireIdle, Write, Load, At, Row
  <1>5. CASE Crash \/ ReaperTick \/ RecoveryStep
    BY <1>0, <1>5 DEF Crash, ReaperTick, RecoveryStep, ReaperSkips, Reap, Reattach, ReapMark, SweepSandboxes, Write
  <1> QED
    BY <1>1, <1>2, <1>3, <1>4, <1>5, Cases

\* What a step does to a goroutine, by the step it takes it to.
LEMMA FirstStep ==
  ASSUME Calm, TypeInv, SerialInv, BudgetInv, Next, NEW v \in Workers
  PROVE  /\ worker'[v].pc \in SetupPC => worker'[v].kind = "first"
         /\ worker'[v].pc # "idle" /\ worker'[v].kind = "first" => row.used = 0
  <1> worker \in [Workers -> Goroutine]
    BY DEF TypeInv, WorkerTyped
  <1> DEFINE Goal == /\ worker'[v].pc \in SetupPC => worker'[v].kind = "first"
                     /\ worker'[v].pc # "idle" /\ worker'[v].kind = "first" => row.used = 0
  <1>0. ASSUME worker'[v] = worker[v] \/ worker'[v].pc = "idle" PROVE Goal
    BY <1>0 DEF BudgetInv, FirstPasses, AtWork, SetupPC
  <1>1. ASSUME NEW w \in Workers, NEW pc, Goto(w, pc), worker[w].pc # "idle",
               pc \in SetupPC => worker[w].pc \in SetupPC
        PROVE  Goal
    BY <1>0, <1>1 DEF Goto, Goroutine, BudgetInv, FirstPasses, AtWork
  <1>2. ASSUME NEW w \in Workers, Return(w) PROVE Goal
    BY <1>0, <1>2 DEF Return, Idle
  <1>3. ASSUME NEW w \in Workers, NEW pc, NEW kind, NEW i, Async(w, pc, kind, i),
               pc \in SetupPC => kind = "first", kind = "first" => row.used = 0
        PROVE  Goal
    BY <1>0, <1>3 DEF Async
  <1>4. ASSUME NEW w \in Workers, CustomerRequest(w) \/ OperatorRequest(w)
        PROVE  Goal
    <2>1. CASE Reiterate(w)
      BY <1>3, <2>1 DEF Reiterate, SetupPC
    <2>2. CASE ~Reiterate(w)
      <3>1. row.status \in Waiting
        BY <1>4, <2>2 DEF CustomerRequest, SubmitAnswers, SelectConcept, ApprovePlan, CanApprovePlan, RetryBuild,
           CanRetry, OperatorRequest, ApproveAccess, OperatorIterate, ApproveEscalated, Calm, Waiting
      <3>2. row.used = 0
        BY <3>1 DEF BudgetInv, Young
      <3>3. \E pc \in {"concepts", "plan", "load", "sweep", "intake", "approve"} : Async(w, pc, "first", 0)
        BY <1>4, <2>2 DEF CustomerRequest, SubmitAnswers, SelectConcept, ApprovePlan, RetryBuild,
           OperatorRequest, ApproveAccess, OperatorIterate, ApproveEscalated, Calm
      <3> QED
        BY <1>3, <3>2, <3>3
    <2> QED
      BY <2>1, <2>2
  <1>5. ASSUME NEW w \in Workers, Setup(w)
        PROVE  Goal
    <2>1. CASE StartIntake(w) \/ RunConcepts(w) \/ ClearEscalation(w) \/ StepFails(w)
      BY <1>1, <1>2, <2>1 DEF StartIntake, RunConcepts, ClearEscalation, StepFails, LoadOrReturn, SaveOrFail,
         FinishOrFail, SetupPC
    <2>2. CASE RunPlanGate(w)
      BY <1>1, <1>2, <2>2 DEF RunPlanGate, LoadPlan, SaveOrFail, FinishOrFail, SetupPC
    <2>3. CASE MarkFailed(w) \/ Reaccept(w)
      BY <1>1, <1>2, <2>3 DEF MarkFailed, Reaccept, LoadOrReturn, FinishOrFail, SetupPC
    <2> QED
      BY <1>5, <2>1, <2>2, <2>3 DEF Setup
  <1>6. ASSUME NEW w \in Workers, Building(w)
        PROVE  Goal
    <2>1. CASE Reserve(w)
      <3>1. PICK i \in FreeIterations : worker' = [worker EXCEPT ![w].pc = "prepare", ![w].it = i]
        BY <2>1 DEF Reserve
      <3>2. worker'[w].pc = "prepare" /\ worker'[w].kind = worker[w].kind /\ worker[w].pc = "load"
        BY <2>1, <3>1 DEF Reserve, Goroutine
      <3>3. v # w => worker'[v] = worker[v]
        BY <3>1
      <3> QED
        BY <1>0, <3>2, <3>3 DEF SetupPC, BudgetInv, FirstPasses, AtWork
    <2>2. CASE Sweep(w)
      <3>1. \E pc \in {"load", "plan"} : Goto(w, pc)
        BY <2>2 DEF Sweep
      <3> QED
        BY <1>1, <2>2, <3>1 DEF Sweep, SetupPC
    <2>3. CASE Publish(w)
      <3>1. Goto(w, "reaccept") \/ Goto(w, "fail") \/ Return(w)
        BY <2>3 DEF Publish
      <3> QED
        BY <1>1, <1>2, <2>3, <3>1 DEF Publish, SetupPC
    <2>4. CASE LogProgress(w)
      BY <1>0, <2>4 DEF LogProgress
    <2>5. CASE ReserveFails(w) \/ Prepare(w) \/ Spawn(w) \/ StartSession(w) \/ Resume(w)
      BY <1>1, <2>5 DEF ReserveFails, Prepare, Spawn, StartSession, Resume, SetupPC
    <2>6. CASE AgentReturns(w) \/ BuildFails(w) \/ Verified(w) \/ Record(w)
      BY <1>1, <2>6 DEF AgentReturns, BuildFails, Verified, Record, SetupPC
    <2> QED
      BY <1>6, <2>1, <2>2, <2>3, <2>4, <2>5, <2>6 DEF Building
  <1>7. CASE Decision \/ TouchRow \/ Webhook \/ FailStranded \/ ExpireIdle \/ Crash \/ ReaperTick
    BY <1>0, <1>7 DEF Decision, RejectAccess, AcceptPreview, DeliverProject, ReturnToCustomer, RejectEscalated,
       DestroyPreview, MarkPaid, MarkUnpaid, TouchRow, Request, Webhook, SubscriptionStarted, AutoAcceptLoad,
       AutoAcceptSave, FailStranded, ExpireIdle, Crash, ReaperTick, Idle
  <1>8. CASE RecoveryStep
    <2>1. ASSUME NEW i \in Builds, NEW w \in Workers, Reattach(i, w)
          PROVE  Goal
      <3>1. IsBuilding(i)
        BY <2>1 DEF Reattach, SerialInv, Startup
      <3>2. PICK kind : Async(w, "resume", kind, i) /\ (kind = "first" => ~its[i].change)
        <4>1. its[i].number \in Nat
          BY <2>1 DEF TypeInv, ItsTyped, Iteration
        <4>2. its[i].number # 0
          BY <3>1 DEF SerialInv, Numbered, TypeInv, RowTyped, Row
        <4>3. CASE its[i].change
          BY <2>1, <4>1, <4>2, <4>3 DEF Reattach
        <4>4. CASE ~its[i].change
          BY <2>1, <4>2, <4>4 DEF Reattach
        <4> QED
          BY <4>3, <4>4
      <3>3. kind = "first" => row.used = 0
        BY <3>1, <3>2 DEF BudgetInv, FirstOrChange
      <3> QED
        BY <1>3, <3>2, <3>3 DEF SetupPC
    <2> QED
      BY <1>0, <1>8, <2>1 DEF RecoveryStep, ReaperSkips, Reap, ReapMark, SweepSandboxes
  <1> QED
    BY <1>4, <1>5, <1>6, <1>7, <1>8, Cases

\* What a goroutine reserves is within the budget, or paid for.
LEMMA ReservedWithin ==
  ASSUME Calm, TypeInv, SerialInv, BudgetInv, NEW w \in Workers, Reserve(w)
  PROVE  /\ worker[w].kind = "first" => row.used = 0
         /\ worker[w].kind # "first" => worker[w].kind = "change"
         /\ row.paid \/ row.used < MaxIterations
         /\ ~Internal(worker[w].kind)
  <1>1. worker[w].kind \in {"first", "change"} /\ AtWork(w)
    BY DEF Reserve, AtWork, SerialInv, Claimed
  <1>2. worker[w].kind = "first" => row.used = 0
    BY <1>1 DEF BudgetInv, FirstPasses
  <1>3. worker[w].kind = "change" => row.paid \/ row.used < MaxIterations
    BY MaxIterationsAssumption DEF Reserve, OverBudget, TypeInv, RowTyped, Row
  <1>4. row.used = 0 => row.used < MaxIterations
    BY MaxIterationsAssumption
  <1> QED
    BY <1>1, <1>2, <1>3, <1>4 DEF Internal

\* The iteration a reservation takes, and what it leaves alone.
LEMMA ReserveWrites ==
  ASSUME TypeInv, NEW w \in Workers, Reserve(w)
  PROVE  \E j \in FreeIterations :
           /\ its'[j].change = (worker[w].kind # "first")
           /\ its'[j].number = IF Internal(worker[w].kind) THEN 0 ELSE row.used + 1
           /\ \A i \in Builds : i # j => its'[i] = its[i]
  BY DEF Reserve, FreeIterations, NoIteration, TypeInv, ItsTyped, Iteration

\* Any other step leaves no iteration building that was not.
LEMMA NotReserved ==
  ASSUME Calm, TypeInv, SerialInv, Next, \A w \in Workers : ~Reserve(w), NEW i \in Builds, IsBuilding(i)'
  PROVE  IsBuilding(i) /\ its'[i].change = its[i].change
  <1> its \in [Builds -> Iteration]
    BY DEF TypeInv, ItsTyped
  <1> USE DEF IsBuilding, Iteration
  <1>2. ASSUME NEW w \in Workers, Building(w), ~Reserve(w)
        PROVE  IsBuilding(i) /\ its'[i].change = its[i].change
    <2>1. CASE Sweep(w)
      BY <2>1, SweepWrites DEF TypeInv
    <2>2. CASE ReserveFails(w) \/ Resume(w) \/ Verified(w) \/ Publish(w)
      BY <2>2 DEF ReserveFails, Resume, Verified, Publish
    <2>3. CASE ~(Sweep(w) \/ ReserveFails(w) \/ Resume(w) \/ Verified(w) \/ Publish(w))
      <3>1. worker[w].pc \in OnBuild
        BY <1>2, <2>3 DEF Building, Prepare, Spawn, StartSession, LogProgress, AgentReturns, BuildFails,
           Record, OnBuild
      <3>2. IsBuilding(worker[w].it) /\ worker[w].it \in Builds
        BY <3>1, OneBuilding
      <3>3. CASE Prepare(w)
        BY <3>2, <3>3 DEF Prepare, Fault, Calm, TypeInv, RestTyped
      <3>4. CASE Spawn(w)
        <4>1. i # worker[w].it => its'[i] = [its[i] EXCEPT !.alive = FALSE]
          BY <3>4 DEF Spawn
        <4>2. i = worker[w].it => its'[i] = [its[i] EXCEPT !.status = "building", !.handle = "machine", !.alive = TRUE]
          BY <3>4 DEF Spawn
        <4> QED
          BY <3>2, <4>1, <4>2
      <3>5. CASE StartSession(w)
        BY <3>2, <3>5 DEF StartSession
      <3>8. CASE LogProgress(w)
        BY <3>2, <3>8 DEF LogProgress
      <3>9. CASE AgentReturns(w)
        BY <3>2, <3>9 DEF AgentReturns
      <3>6. CASE BuildFails(w)
        <4>1. its' = [its EXCEPT ![worker[w].it] = [@ EXCEPT !.status = "failed", !.alive = FALSE]]
          BY <3>6 DEF BuildFails, Fault, Calm, TypeInv, RestTyped
        <4> QED
          BY <3>2, <4>1
      <3>7. CASE Record(w)
        BY <3>2, <3>7 DEF Record
      <3> QED
        BY <1>2, <2>3, <3>3, <3>4, <3>5, <3>6, <3>7, <3>8, <3>9 DEF Building
    <2> QED
      BY <2>1, <2>2, <2>3
  <1>3. ASSUME NEW w \in Workers, CustomerRequest(w) \/ OperatorRequest(w) \/ Setup(w)
        PROVE  UNCHANGED its
    BY <1>3 DEF CustomerRequest, SubmitAnswers, SelectConcept, ApprovePlan, Reiterate, RetryBuild,
       OperatorRequest, ApproveAccess, OperatorIterate, ApproveEscalated, Request, Setup, StartIntake,
       RunConcepts, RunPlanGate, LoadPlan, StepFails, ClearEscalation, MarkFailed, Reaccept, LoadOrReturn,
       SaveOrFail, FinishOrFail
  <1>4. CASE Decision \/ TouchRow \/ Webhook \/ FailStranded \/ ExpireIdle \/ Crash \/ ReaperTick
    BY <1>4 DEF Decision, RejectAccess, AcceptPreview, DeliverProject, ReturnToCustomer, RejectEscalated,
       DestroyPreview, MarkPaid, MarkUnpaid, TouchRow, Request, Webhook, SubscriptionStarted, AutoAcceptLoad,
       AutoAcceptSave, FailStranded, ExpireIdle, Crash, ReaperTick
  <1>5. CASE RecoveryStep
    <2>1. ASSUME NEW j \in Builds, Reap(j)
          PROVE  IsBuilding(i) /\ its'[i].change = its[i].change
      <3>1. its' = [its EXCEPT ![j] = [@ EXCEPT !.status = "failed", !.alive = FALSE]]
        BY <2>1 DEF Reap, Fault, Calm, TypeInv, RestTyped
      <3> QED
        BY <3>1
    <2>2. CASE SweepSandboxes
      BY <2>2 DEF SweepSandboxes
    <2> QED
      BY <1>5, <2>1, <2>2 DEF RecoveryStep, ReaperSkips, Reattach, ReapMark
  <1> QED
    BY <1>2, <1>3, <1>4, <1>5, Cases

\* An iteration that is building is a change, or the project's first pass.
LEMMA BuildingStep ==
  ASSUME Calm, TypeInv, SerialInv, BudgetInv, Next, NEW i \in Builds, IsBuilding(i)'
  PROVE  its'[i].change \/ row.used = 0
  <1>1. ASSUME NEW w \in Workers, Reserve(w)
        PROVE  its'[i].change \/ row.used = 0
    BY <1>1, ReservedWithin, ReserveWrites DEF BudgetInv, FirstOrChange, IsBuilding
  <1>2. CASE \A w \in Workers : ~Reserve(w)
    BY <1>2, NotReserved DEF BudgetInv, FirstOrChange
  <1> QED
    BY <1>1, <1>2

LEMMA BudgetStep ==
  ASSUME Calm
  PROVE  ShownInv /\ SerialInv /\ BudgetInv /\ [Next]_vars => BudgetInv'
  <1> SUFFICES ASSUME ShownInv, SerialInv, BudgetInv, [Next]_vars PROVE BudgetInv'
    OBVIOUS
  <1> TypeInv /\ row \in Row /\ row.used \in Nat
    BY DEF ShownInv, TypeInv, RowTyped, Row
  <1>1. CASE UNCHANGED vars
    BY <1>1 DEF vars, BudgetInv, Young, FirstPasses, FirstOrChange, AtWork, IsBuilding
  <1>2. ASSUME NEW w \in Workers, Publish(w)
        PROVE  BudgetInv'
    <2>1. /\ worker[w].pc = "publish" /\ AtWork(w) /\ worker[w].kind # "review"
          /\ its[worker[w].it].number = row.used + 1
      BY <1>2 DEF Publish, AtWork, SerialInv, Claimed, Numbered
    <2>2. /\ row' = Published(row.used + 1) /\ Return(w) /\ UNCHANGED its
      BY <1>2, <2>1 DEF Publish, Write, Calm, Fault, TypeInv, RestTyped
    <2>3. row'.status = "preview_ready"
      BY <2>2 DEF Published, At, Row
    <2>4. \A v \in Workers : worker'[v].pc = "idle"
      BY <2>1, <2>2 DEF Return, Idle, SerialInv, Alone, AtWork, TypeInv, WorkerTyped
    <2>5. \A i \in Builds : ~IsBuilding(i)'
      BY <2>1, <2>2 DEF SerialInv, Alone, Driven, Startup, Nobody, OnBuild, AtWork, IsBuilding
    <2> QED
      BY <2>3, <2>4, <2>5 DEF BudgetInv, Young, FirstPasses, FirstOrChange, AtWork, SetupPC, Waiting, PreBuild
  <1>3. CASE Next /\ ~(\E w \in Workers : Publish(w))
    <2>1. row'.used = row.used
      BY <1>3, UsedStep
    <2>2. Young'
      BY <1>3, <2>1, YoungStep DEF Young
    <2>3. FirstPasses'
      BY <1>3, <2>1, FirstStep DEF FirstPasses, AtWork
    <2>4. FirstOrChange'
      BY <1>3, <2>1, BuildingStep DEF FirstOrChange
    <2> QED
      BY <2>2, <2>3, <2>4 DEF BudgetInv
  <1> QED
    BY <1>1, <1>2, <1>3

\* Only a reservation makes an iteration out of a free row.
LEMMA OnlyReserved ==
  ASSUME Calm, TypeInv, SerialInv, Next, NEW i \in Builds,
         its[i].status = "none", its'[i].status = "building"
  PROVE  \E w \in Workers : Reserve(w)
  <1> SUFFICES ASSUME \A w \in Workers : ~Reserve(w) PROVE FALSE
    OBVIOUS
  <1> its \in [Builds -> Iteration]
    BY DEF TypeInv, ItsTyped
  <1>1. ~IsBuilding(i)
    BY DEF IsBuilding
  <1> QED
    BY <1>1, NotReserved DEF IsBuilding

\* Nobody gets a build beyond the offer reserved for free, whichever of the ways into
\* runBuild he takes (an offer, a retry, a change, a build that startup resumes) and
\* however payments, cancellations and builds alternate.
THEOREM FreeBuildsAreCapped ==
  ASSUME Calm
  PROVE  Spec => FreeBuildsCapped
  <1>1. Init => BudgetInv
    <2> SUFFICES ASSUME Init PROVE BudgetInv
      OBVIOUS
    <2>1. row.used = 0 /\ \A w \in Workers : worker[w].kind = "first" /\ worker[w].pc \in {"idle", "intake"}
      BY DEF Init, NewRow, Idle
    <2>2. \A i \in Builds : ~IsBuilding(i)
      BY DEF Init, IsBuilding, NoIteration
    <2> QED
      BY <2>1, <2>2 DEF BudgetInv, Young, FirstPasses, FirstOrChange
  <1> DEFINE Step == \A i \in Builds :
                       its[i].status = "none" /\ its'[i].status = "building" /\ ~row.paid
                         => its'[i].number <= MaxIterations
  <1>2. ShownInv /\ SerialInv /\ BudgetInv /\ [Next]_vars => [Step]_vars
    <2> SUFFICES ASSUME ShownInv, SerialInv, BudgetInv, Next, NEW i \in Builds,
                        its[i].status = "none", its'[i].status = "building", ~row.paid
                 PROVE  its'[i].number <= MaxIterations
      OBVIOUS
    <2> TypeInv /\ row.used \in Nat
      BY DEF ShownInv, TypeInv, RowTyped, Row
    <2>1. PICK w \in Workers : Reserve(w)
      BY OnlyReserved
    <2>2. row.used < MaxIterations /\ ~Internal(worker[w].kind)
      BY <2>1, ReservedWithin
    <2>3. its'[i].number = row.used + 1
      BY <2>1, <2>2, ReserveWrites
    <2> QED
      BY <2>2, <2>3, MaxIterationsAssumption
  <1> QED
    BY <1>1, <1>2, ShownInit, ShownStep, SerialInvariance, BudgetStep, PTL DEF Spec, FreeBuildsCapped

-----------------------------------------------------------------------------
(* Without takedowns, the goroutine at work finds the project where its own    *)
(* step left it, and Pipeline implements Lifecycle.                            *)

Fits(pc, status) ==
  /\ pc \in {"intake", "intakeSave"} => status = "created"
  /\ pc = "questions" => status = "clarifying"
  /\ pc \in {"concepts", "art"} => status = "concepting"
  /\ pc \in {"plan", "planSave"} => status \in {"planning", "building"}
  /\ pc = "planner" => status = "planning"
  /\ pc = "gate" => status = "screening"
  /\ pc \in {"approve", "approveSave"} => status \in {"escalated", "rejected"}
  /\ pc \in BuildPC \cup {"sweep"} => status = "building"

InPlace ==
  /\ \A w \in Workers :
       /\ Fits(worker[w].pc, row.status)
       /\ worker[w].pc = "approveSave" /\ w \in fresh => row.status = "escalated"
  /\ todo # {} \/ janitor = "mark" => row.status = "building"

LEMMA Untied == \A s : Fits("idle", s) /\ Fits("fail", s)
  BY DEF Fits, BuildPC

\* The step of the goroutine at work.
LEMMA PlaceOwn ==
  ASSUME TypeInv, SerialInv, NEW w \in Workers, AtWork(w),
         \A v \in Workers : v # w => worker'[v] = worker[v],
         Fits(worker'[w].pc, row'.status),
         worker'[w].pc = "approveSave" /\ w \in fresh' => row'.status = "escalated", Elsewhere
  PROVE  InPlace'
  <1>1. \A v \in Workers : v # w => worker'[v].pc = "idle"
    BY DEF SerialInv, Alone, AtWork
  <1>2. todo' = {} /\ janitor' # "mark"
    BY DEF SerialInv, Startup, Nobody, Elsewhere
  <1>3. \A v \in Workers : Fits(worker'[v].pc, row'.status)
    BY <1>1, Untied
  <1> QED
    BY <1>1, <1>2, <1>3 DEF InPlace, Fits

\* A step of nobody's: the status moves only when nobody is at work.
LEMMA PlaceOther ==
  ASSUME InPlace, row'.status = row.status \/ (Nobody /\ todo = {} /\ janitor # "mark"),
         fresh' \subseteq fresh \cup {"webhook"}, "webhook" \notin Workers,
         UNCHANGED <<worker, todo, janitor>>
  PROVE  InPlace'
  <1>1. CASE row'.status = row.status
    BY <1>1 DEF InPlace, Fits
  <1>2. CASE Nobody /\ todo = {} /\ janitor # "mark"
    <2>1. \A w \in Workers : Fits(worker'[w].pc, row'.status)
      BY <1>2, Untied DEF Nobody, AtWork
    <2> QED
      BY <1>2, <2>1 DEF InPlace, Nobody, AtWork, Fits
  <1> QED
    BY <1>1, <1>2

LEMMA RequestPlace ==
  ASSUME Calm, TypeInv, SerialInv, NEW w \in Workers, CustomerRequest(w) \/ OperatorRequest(w)
  PROVE  InPlace'
  <1> row \in Row /\ worker \in [Workers -> Goroutine]
    BY DEF TypeInv, RowTyped, WorkerTyped
  <1>1. up /\ UNCHANGED <<todo, janitor>>
    BY DEF CustomerRequest, SubmitAnswers, SelectConcept, ApprovePlan, Reiterate, RetryBuild,
       OperatorRequest, ApproveAccess, OperatorIterate, ApproveEscalated, Request
  <1>2. todo' = {} /\ janitor' # "mark"
    BY <1>1 DEF SerialInv, Startup
  <1>3. row.status \in Startable \/ Nobody
    BY DEF CustomerRequest, SubmitAnswers, SelectConcept, ApprovePlan, CanApprovePlan, Reiterate,
       CanReiterate, CanRequestChange, RetryBuild, CanRetry, OperatorRequest, ApproveAccess,
       OperatorIterate, ApproveEscalated, Calm, Startable, Nobody, AtWork
  <1>4. Nobody
    BY <1>3, StartableIsIdle
  <1>5. \E pc \in {"intake", "concepts", "plan", "load", "sweep", "approve"}, kind \in Kind :
          Async(w, pc, kind, 0) /\ Fits(pc, row'.status)
    BY DEF CustomerRequest, SubmitAnswers, SelectConcept, ApprovePlan, Reiterate, RetryBuild,
       OperatorRequest, ApproveAccess, OperatorIterate, ApproveEscalated, Calm, Fits, BuildPC, Write, At, Row, Kind
  <1>6. \A v \in Workers : worker'[v].pc # "approveSave" /\ (v # w => worker'[v].pc = "idle")
    BY <1>4, <1>5 DEF Async, Nobody, AtWork
  <1>7. Fits(worker'[w].pc, row'.status)
    BY <1>5 DEF Async
  <1> QED
    BY <1>2, <1>6, <1>7, Untied DEF InPlace

LEMMA SetupPlace ==
  ASSUME TypeInv, SerialInv, InPlace, NEW w \in Workers, Setup(w)
  PROVE  InPlace'
  <1> row \in Row /\ worker \in [Workers -> Goroutine]
    BY DEF TypeInv, RowTyped, WorkerTyped
  <1>0. AtWork(w) /\ Elsewhere
    BY DEF Setup, StartIntake, RunConcepts, RunPlanGate, LoadPlan, StepFails, ClearEscalation, MarkFailed,
       Reaccept, LoadOrReturn, SaveOrFail, FinishOrFail, AtWork
  <1>1. ASSUME NEW pc, Goto(w, pc), Fits(pc, row'.status), pc = "approveSave" => row'.status = "escalated"
        PROVE  InPlace'
    BY <1>0, <1>1, PlaceOwn DEF Goto, Goroutine
  <1>2. ASSUME Return(w) PROVE InPlace'
    BY <1>0, <1>2, PlaceOwn, Untied DEF Return, Idle
  <1>3. ASSUME Goto(w, "fail") PROVE InPlace'
    BY <1>1, <1>3, Untied
  <1>4. ASSUME NEW pc, NEW s, NEW next, LoadOrReturn(w, pc, s, next), Fits(next, s),
               next = "approveSave" => s = "escalated"
        PROVE  InPlace'
    BY <1>1, <1>2, <1>4 DEF LoadOrReturn, Load
  <1>5. ASSUME NEW pc, NEW r, NEW next, SaveOrFail(w, pc, r, next), Fits(next, r.status), next # "approveSave"
        PROVE  InPlace'
    BY <1>1, <1>3, <1>5 DEF SaveOrFail, Save
  <1>6. ASSUME NEW pc, NEW r, FinishOrFail(w, pc, r)
        PROVE  InPlace'
    BY <1>2, <1>3, <1>6 DEF FinishOrFail
  <1>7. /\ Fits("intakeSave", "created") /\ Fits("questions", "clarifying") /\ Fits("art", "concepting")
        /\ Fits("planner", "planning") /\ Fits("gate", "screening") /\ Fits("approveSave", "escalated")
    BY DEF Fits, BuildPC
  <1>8. CASE StartIntake(w)
    BY <1>4, <1>5, <1>6, <1>7, <1>8 DEF StartIntake, At, Row
  <1>9. CASE RunConcepts(w)
    BY <1>4, <1>6, <1>7, <1>9 DEF RunConcepts
  <1>10. CASE RunPlanGate(w)
    <2>1. CASE LoadPlan(w)
      <3>1. Fits("planSave", row'.status)
        BY <2>1 DEF LoadPlan, Load, InPlace, Fits, BuildPC
      <3> QED
        BY <1>1, <2>1, <3>1 DEF LoadPlan
    <2>2. At(row, "planning").status = "planning" /\ [At(row, "screening") EXCEPT !.plan = TRUE].status = "screening"
      BY DEF At, Row
    <2> QED
      BY <1>5, <1>6, <1>7, <1>10, <2>1, <2>2 DEF RunPlanGate
  <1>11. CASE StepFails(w) \/ MarkFailed(w)
    BY <1>2, <1>3, <1>11 DEF StepFails, MarkFailed
  <1>12. CASE ClearEscalation(w)
    BY <1>4, <1>6, <1>7, <1>12 DEF ClearEscalation
  <1>13. CASE Reaccept(w)
    BY <1>13 DEF Reaccept, LoadOrReturn, FinishOrFail, SerialInv, Claimed, AtWork, ReacceptPC
  <1> QED
    BY <1>8, <1>9, <1>10, <1>11, <1>12, <1>13 DEF Setup

LEMMA BuildingPlace ==
  ASSUME TypeInv, SerialInv, InPlace, NEW w \in Workers, Building(w)
  PROVE  InPlace'
  <1> row \in Row /\ worker \in [Workers -> Goroutine]
    BY DEF TypeInv, RowTyped, WorkerTyped
  <1>0. AtWork(w) /\ Elsewhere /\ worker[w].pc \in BuildPC \cup {"sweep"}
    BY DEF Building, Sweep, Reserve, ReserveFails, Prepare, Spawn, StartSession, Resume, LogProgress,
       AgentReturns, BuildFails, Verified, Record, Publish, AtWork, BuildPC
  <1>1. row.status = "building"
    BY <1>0 DEF InPlace, Fits
  <1>2. ASSUME NEW pc \in BuildPC \cup {"plan", "fail"}, row'.status = "building", worker'[w].pc = pc,
               \A v \in Workers : v # w => worker'[v] = worker[v]
        PROVE  InPlace'
    <2>1. Fits(pc, "building") /\ pc # "approveSave"
      BY DEF Fits, BuildPC
    <2> QED
      BY <1>0, <1>2, <2>1, PlaceOwn
  <1>3. ASSUME NEW pc \in BuildPC \cup {"plan", "fail"}, row'.status = "building", Goto(w, pc)
        PROVE  InPlace'
    BY <1>2, <1>3 DEF Goto, Goroutine
  <1>4. ~Publish(w) => row'.status = "building"
    BY <1>1 DEF Building, Sweep, Reserve, ReserveFails, Prepare, Spawn, StartSession, Resume, LogProgress,
       AgentReturns, BuildFails, Verified, Record, Save, Load, Row
  <1>5. CASE Sweep(w)
    <2>1. \E pc \in {"load", "plan"} : Goto(w, pc)
      BY <1>5 DEF Sweep
    <2> QED
      BY <1>3, <1>4, <1>5, <2>1 DEF Sweep, Publish, BuildPC
  <1>6. CASE Reserve(w)
    <2>1. PICK i \in FreeIterations : worker' = [worker EXCEPT ![w].pc = "prepare", ![w].it = i]
      BY <1>6 DEF Reserve
    <2>2. worker'[w].pc = "prepare" /\ \A v \in Workers : v # w => worker'[v] = worker[v]
      BY <2>1 DEF Goroutine
    <2> QED
      BY <1>2, <1>4, <1>6, <2>2 DEF Reserve, Publish, BuildPC
  <1>7. CASE LogProgress(w)
    BY <1>2, <1>4, <1>7 DEF LogProgress, Publish, BuildPC
  <1>8. CASE ReserveFails(w) \/ Prepare(w) \/ Spawn(w) \/ StartSession(w) \/ Resume(w)
    BY <1>3, <1>4, <1>8 DEF ReserveFails, Prepare, Spawn, StartSession, Resume, Publish, BuildPC
  <1>9. CASE AgentReturns(w) \/ BuildFails(w) \/ Verified(w) \/ Record(w)
    BY <1>3, <1>4, <1>9 DEF AgentReturns, BuildFails, Verified, Record, Publish, BuildPC
  <1>10. CASE Publish(w)
    <2>1. worker[w].kind # "review"
      BY <1>0 DEF SerialInv, Claimed
    <2>2. Return(w) \/ Goto(w, "fail")
      BY <1>10, <2>1 DEF Publish
    <2>3. \/ worker'[w].pc = "idle" \/ worker'[w].pc = "fail"
      BY <2>2 DEF Return, Idle, Goto, Goroutine
    <2>4. \A v \in Workers : v # w => worker'[v] = worker[v]
      BY <2>2 DEF Return, Goto
    <2> QED
      BY <1>0, <2>3, <2>4, Untied, PlaceOwn
  <1> QED
    BY <1>5, <1>6, <1>7, <1>8, <1>9, <1>10 DEF Building

LEMMA OtherPlace ==
  ASSUME Calm, "teardown" \notin Allowed, TypeInv, SerialInv, InPlace,
         Decision \/ TouchRow \/ Webhook \/ FailStranded \/ ExpireIdle
  PROVE  InPlace'
  <1> row \in Row /\ "webhook" \notin Workers
    BY PipelineAssumption DEF TypeInv, RowTyped
  <1>1. fresh' \subseteq fresh \cup {"webhook"} /\ UNCHANGED <<worker, todo, janitor>>
    BY DEF Decision, RejectAccess, AcceptPreview, DeliverProject, ReturnToCustomer, RejectEscalated,
       DestroyPreview, MarkPaid, MarkUnpaid, TouchRow, Request, Webhook, SubscriptionStarted,
       AutoAcceptLoad, AutoAcceptSave, FailStranded, ExpireIdle, Write, Load
  <1>2. CASE RejectEscalated
    <2>1. fresh' = {} /\ row'.status = "rejected" /\ row.status = "escalated"
      BY <1>2 DEF RejectEscalated, Write, At, Row
    <2>2. todo = {} /\ janitor # "mark"
      BY <1>2 DEF RejectEscalated, Request, SerialInv, Startup
    <2> QED
      BY <1>1, <2>1, <2>2 DEF InPlace, Fits
  <1>3. CASE RejectAccess \/ AcceptPreview \/ DeliverProject \/ ReturnToCustomer \/ ExpireIdle \/ FailStranded
             \/ AutoAcceptSave
    <2>1. row'.status = row.status \/ Nobody
      <3>1. CASE FailStranded
        BY <3>1 DEF FailStranded, SerialInv, Claimed, Nobody
      <3>2. CASE AutoAcceptSave
        BY <3>2, StartableIsIdle DEF AutoAcceptSave, SerialInv, AcceptsPreview, Startable
      <3>3. CASE RejectAccess \/ AcceptPreview \/ DeliverProject \/ ReturnToCustomer \/ ExpireIdle
        BY <3>3, StartableIsIdle DEF RejectAccess, AcceptPreview, CanAccept, DeliverProject, ReturnToCustomer,
           ExpireIdle, Startable
      <3> QED
        BY <1>3, <3>1, <3>2, <3>3
    <2>2. row'.status = row.status \/ (todo = {} /\ janitor # "mark")
      <3>1. CASE AutoAcceptSave
        BY <3>1 DEF AutoAcceptSave, SerialInv, AcceptsPreview, InPlace
      <3>2. CASE RejectAccess \/ AcceptPreview \/ DeliverProject \/ ReturnToCustomer \/ ExpireIdle \/ FailStranded
        BY <3>2 DEF RejectAccess, AcceptPreview, DeliverProject, ReturnToCustomer, ExpireIdle, FailStranded,
           Request, SerialInv, Startup
      <3> QED
        BY <1>3, <3>1, <3>2
    <2> QED
      BY <1>1, <2>1, <2>2, PlaceOther
  <1>4. CASE MarkPaid \/ MarkUnpaid \/ TouchRow \/ SubscriptionStarted \/ AutoAcceptLoad
    <2>1. row'.status = row.status
      BY <1>4 DEF MarkPaid, MarkUnpaid, TouchRow, SubscriptionStarted, AutoAcceptLoad, Write, Load, Row
    <2> QED
      BY <1>1, <2>1, PlaceOther
  <1>5. ~DestroyPreview
    BY DEF DestroyPreview
  <1> QED
    BY <1>2, <1>3, <1>4, <1>5 DEF Decision, Webhook

LEMMA RecoveryPlace ==
  ASSUME Calm, TypeInv, SerialInv, InPlace, Crash \/ ReaperTick \/ RecoveryStep
  PROVE  InPlace'
  <1>1. CASE Crash
    <2>1. /\ \A w \in Workers : worker'[w].pc = "idle"
          /\ janitor' = "sweep" /\ UNCHANGED row
      BY <1>1 DEF Crash, Idle
    <2>2. todo' # {} => row.status = "building"
      <3> SUFFICES ASSUME NEW i \in Builds, IsBuilding(i) PROVE row.status = "building"
        BY <1>1 DEF Crash, ActiveIterations, IsBuilding
      <3> QED
        BY DEF SerialInv, Driven, InPlace, Fits, BuildPC, OnBuild
    <2> QED
      BY <2>1, <2>2, Untied DEF InPlace
  <1>2. CASE ReaperTick
    BY <1>2, NothingSilent DEF ReaperTick
  <1>3. CASE RecoveryStep
    <2>1. ASSUME NEW i \in Builds, NEW w \in Workers, Reattach(i, w)
          PROVE  InPlace'
      <3>1. Nobody /\ todo' = {} /\ janitor' = "sweep" /\ row.status = "building" /\ UNCHANGED <<row, fresh>>
        BY <2>1 DEF Reattach, SerialInv, Startup, InPlace
      <3>2. worker'[w].pc = "resume" /\ \A v \in Workers : v # w => worker'[v].pc = "idle"
        BY <2>1, <3>1 DEF Reattach, Async, Nobody, AtWork, TypeInv, WorkerTyped
      <3>3. Fits("resume", "building")
        BY DEF Fits, BuildPC
      <3> QED
        BY <3>1, <3>2, <3>3, Untied DEF InPlace
    <2>2. ASSUME NEW i \in Builds, ReaperSkips(i) \/ Reap(i)
          PROVE  InPlace'
      BY <2>2 DEF ReaperSkips, Reap, InPlace
    <2>3. CASE ReapMark
      <3>1. Nobody /\ todo' = {} /\ janitor' = "sweep" /\ UNCHANGED worker
        BY <2>3 DEF ReapMark, SerialInv, Startup
      <3> QED
        BY <3>1, Untied DEF InPlace, Nobody, AtWork
    <2>4. CASE SweepSandboxes
      BY <2>4 DEF SweepSandboxes, InPlace
    <2> QED
      BY <1>3, <2>1, <2>2, <2>3, <2>4 DEF RecoveryStep
  <1> QED
    BY <1>1, <1>2, <1>3

LEMMA PlaceInit == Init => InPlace
  <1> SUFFICES ASSUME Init PROVE InPlace
    OBVIOUS
  <1>1. \A w \in Workers : worker[w].pc = "idle" \/ (worker[w].pc = "intake" /\ row.status = "created")
    BY DEF Init, Idle, NewRow
  <1>2. Fits("intake", "created")
    BY DEF Fits, BuildPC
  <1> QED
    BY <1>1, <1>2, Untied DEF Init, InPlace

LEMMA PlaceStep ==
  ASSUME Calm, "teardown" \notin Allowed
  PROVE  TypeInv /\ SerialInv /\ InPlace /\ [Next]_vars => InPlace'
  <1> SUFFICES ASSUME TypeInv, SerialInv, InPlace, [Next]_vars PROVE InPlace'
    OBVIOUS
  <1>1. CASE UNCHANGED vars
    BY <1>1 DEF vars, InPlace
  <1>2. CASE Next
    BY <1>2, Cases, RequestPlace, SetupPlace, BuildingPlace, OtherPlace, RecoveryPlace
  <1> QED
    BY <1>1, <1>2

-----------------------------------------------------------------------------
(* The refinement, step by step.                                           *)

LEMMA Phases ==
  /\ \A s \in PreBuild \cup {"pending_access_approval", "needs_input", "needs_concept", "escalated"} :
       PhaseOf(s) = "scoping"
  /\ PhaseOf("awaiting_approval") = "offer" /\ PhaseOf("building") = "building"
  /\ PhaseOf("failed") = "failed" /\ PhaseOf("preview_ready") = "preview"
  /\ PhaseOf("accepted") = "review" /\ PhaseOf("delivered") = "live"
  /\ PhaseOf("rejected") = "closed" /\ PhaseOf("expired") = "closed"
  BY DEF PhaseOf, PreBuild

\* A step that leaves what Lifecycle sees.
Unseen == PhaseOf(row'.status) = PhaseOf(row.status)
          /\ row'.paid = row.paid /\ row'.delivered = row.delivered /\ row'.used = row.used

\* The columns of Lifecycle a move between phases leaves alone.
Kept == row'.paid = row.paid /\ row'.delivered = row.delivered /\ row'.used = row.used

Moved(from, to) == PhaseOf(row.status) \in from /\ PhaseOf(row'.status) \in to /\ Kept

LEMMA Moving ==
  /\ Unseen => UNCHANGED L!lifecycle
  /\ Moved({"scoping"}, {"offer", "failed", "closed"}) => L!LifecycleNext
  /\ Moved({"offer"}, {"building"}) => L!LifecycleNext
  /\ row.used = 0 /\ Moved({"building"}, {"failed", "scoping"}) => L!LifecycleNext
  /\ Moved({"failed"}, {"building", "scoping"}) => L!LifecycleNext
  /\ row.paid /\ Moved({"preview", "live"}, {"building"}) => L!LifecycleNext
  /\ row.used < MaxIterations /\ ~row.paid /\ Moved({"preview"}, {"building"}) => L!LifecycleNext
  /\ Moved({"preview"}, {"review"}) => L!LifecycleNext
  /\ Moved({"review"}, {"preview"}) => L!LifecycleNext
  /\ ~row.paid /\ Moved({"preview"}, {"closed"}) => L!LifecycleNext
  /\ row.paid /\ row.delivered /\ Moved({"preview"}, {"live"}) => L!LifecycleNext
  <1> USE DEF Moved, Kept, Unseen
  <1>1. Unseen => UNCHANGED L!lifecycle
    BY DEF L!lifecycle
  <1>2. Moved({"scoping"}, {"offer", "failed", "closed"}) => L!Scope
    BY DEF L!Scope, L!Move
  <1>3. Moved({"offer"}, {"building"}) => L!Agree
    BY DEF L!Agree, L!Move
  <1>4. row.used = 0 /\ Moved({"building"}, {"failed", "scoping"}) => L!Fail \/ L!Rescope
    BY DEF L!Fail, L!Rescope, L!Move
  <1>5. Moved({"failed"}, {"building", "scoping"}) => L!Retry
    BY DEF L!Retry, L!Move
  <1>6. row.paid /\ Moved({"preview", "live"}, {"building"}) => L!Change
    BY DEF L!Change, L!Move
  <1>7. row.used < MaxIterations /\ ~row.paid /\ Moved({"preview"}, {"building"}) => L!Change
    BY DEF L!Change, L!Move
  <1>8. Moved({"preview"}, {"review"}) => L!Accept
    BY DEF L!Accept, L!Move
  <1>9. Moved({"review"}, {"preview"}) => L!Return
    BY DEF L!Return, L!Move
  <1>10. ~row.paid /\ Moved({"preview"}, {"closed"}) => L!Expire
    BY DEF L!Expire, L!Move
  <1>11. row.paid /\ row.delivered /\ Moved({"preview"}, {"live"}) => L!GoLive
    BY DEF L!GoLive, L!Move
  <1> QED
    BY <1>1, <1>2, <1>3, <1>4, <1>5, <1>6, <1>7, <1>8, <1>9, <1>10, <1>11 DEF L!LifecycleNext

\* A step of Pipeline is one of Lifecycle, or one it does not see.
Mapped == L!LifecycleNext \/ UNCHANGED L!lifecycle

LEMMA RequestMapped ==
  ASSUME Calm, TypeInv, NEW w \in Workers, CustomerRequest(w) \/ OperatorRequest(w)
  PROVE  Mapped
  <1> row \in Row
    BY DEF TypeInv, RowTyped
  <1> USE Moving, Phases DEF Mapped, Moved, Kept, Unseen, PreBuild, Write, At, Row
  <1>1. CASE SubmitAnswers(w)
    BY <1>1 DEF SubmitAnswers
  <1>2. CASE SelectConcept(w)
    BY <1>2 DEF SelectConcept
  <1>3. CASE ApprovePlan(w)
    BY <1>3 DEF ApprovePlan, CanApprovePlan
  <1>4. CASE Reiterate(w)
    BY <1>4 DEF Reiterate, CanReiterate, CanRequestChange
  <1>5. CASE RetryBuild(w)
    BY <1>5 DEF RetryBuild, CanRetry
  <1>6. CASE ApproveAccess(w)
    BY <1>6 DEF ApproveAccess
  <1>7. CASE ApproveEscalated(w)
    BY <1>7 DEF ApproveEscalated
  <1> QED
    BY <1>1, <1>2, <1>3, <1>4, <1>5, <1>6, <1>7 DEF CustomerRequest, OperatorRequest, OperatorIterate, Calm

LEMMA MarkedMapped ==
  ASSUME ShownInv, row' = MarkedFailed(row)
  PROVE  Mapped
  <1> row \in Row
    BY DEF ShownInv, TypeInv, RowTyped
  <1>1. CASE row.status # "building"
    BY <1>1, Moving DEF Mapped, Unseen, MarkedFailed
  <1>2. CASE row.status = "building" /\ HadPreview(row)
    <2>1. row'.status = "preview_ready" /\ Kept /\ row.used >= 1
      BY <1>2 DEF MarkedFailed, HadPreview, At, Row, Kept
    <2>2. L!Complete
      BY <1>2, <2>1, Phases DEF L!Complete, Kept, Row
    <2> QED
      BY <2>2 DEF Mapped, L!LifecycleNext
  <1>3. CASE row.status = "building" /\ ~HadPreview(row)
    <2>1. row'.status = "failed" /\ Kept
      BY <1>3 DEF MarkedFailed, At, Row, Kept
    <2>2. row.used = 0
      BY <1>3 DEF HadPreview, ShownInv, CountedInv, Counted, Row
    <2> QED
      BY <1>3, <2>1, <2>2, Moving, Phases DEF Mapped, Moved
  <1> QED
    BY <1>1, <1>2, <1>3

LEMMA OtherMapped ==
  ASSUME Calm, "teardown" \notin Allowed, TypeInv, SerialInv,
         Decision \/ TouchRow \/ Webhook \/ FailStranded \/ ExpireIdle
  PROVE  Mapped
  <1> row \in Row
    BY DEF TypeInv, RowTyped
  <1> USE DEF Write, At, Row
  <1>1. CASE RejectAccess \/ RejectEscalated \/ FailStranded
    <2>1. /\ row.status \in PreBuild \cup {"pending_access_approval", "escalated"}
          /\ row'.status \in {"rejected", "failed"} /\ Kept
      BY <1>1 DEF RejectAccess, RejectEscalated, FailStranded, IsStuckPreBuild, Kept
    <2> QED
      BY <2>1, Moving, Phases DEF Mapped, Moved
  <1>2. CASE AcceptPreview
    BY <1>2, Moving, Phases DEF AcceptPreview, CanAccept, Mapped, Moved, Kept
  <1>3. CASE DeliverProject
    <2>1. /\ row.status = "accepted" /\ row.paid /\ row'.status = "delivered" /\ row'.delivered = TRUE
          /\ row'.paid = row.paid /\ row'.used = row.used
      BY <1>3 DEF DeliverProject
    <2>2. L!Deliver
      BY <2>1, Phases DEF L!Deliver
    <2> QED
      BY <2>2 DEF Mapped, L!LifecycleNext
  <1>4. CASE ReturnToCustomer
    BY <1>4, Moving, Phases DEF ReturnToCustomer, Mapped, Moved, Kept
  <1>5. CASE MarkPaid \/ MarkUnpaid \/ SubscriptionStarted
    <2>1. /\ row'.paid \in BOOLEAN /\ row'.status = row.status /\ row'.delivered = row.delivered
          /\ row'.used = row.used
      BY <1>5 DEF MarkPaid, MarkUnpaid, SubscriptionStarted
    <2>2. L!Pay
      BY <2>1 DEF L!Pay
    <2> QED
      BY <2>2 DEF Mapped, L!LifecycleNext
  <1>6. CASE TouchRow \/ AutoAcceptLoad
    BY <1>6, Moving DEF TouchRow, AutoAcceptLoad, Load, Mapped, Unseen
  <1>7. CASE AutoAcceptSave
    BY <1>7, Moving, Phases DEF AutoAcceptSave, SerialInv, AcceptsPreview, Mapped, Moved, Kept, Unseen
  <1>8. CASE ExpireIdle
    BY <1>8, Moving, Phases DEF ExpireIdle, Mapped, Moved, Kept
  <1> QED
    BY <1>1, <1>2, <1>3, <1>4, <1>5, <1>6, <1>7, <1>8 DEF Decision, DestroyPreview, Webhook

LEMMA SetupMapped ==
  ASSUME Calm, ShownInv, VerdictInv, SerialInv, InPlace, NEW w \in Workers, Setup(w)
  PROVE  Mapped
  <1> row \in Row
    BY DEF ShownInv, TypeInv, RowTyped
  <1>0. ASSUME Kept, PhaseOf(row'.status) = PhaseOf(row.status) PROVE Mapped
    BY <1>0, Moving DEF Mapped, Unseen, Kept
  <1>1. ASSUME UNCHANGED row PROVE Mapped
    BY <1>0, <1>1 DEF Kept
  <1>2. Fits(worker[w].pc, row.status)
    BY DEF InPlace
  <1>3. CASE StartIntake(w)
    <2>1. UNCHANGED row \/ (Kept /\ row.status \in PreBuild /\ row'.status \in {"clarifying", "needs_input"})
      BY <1>2, <1>3 DEF StartIntake, LoadOrReturn, SaveOrFail, FinishOrFail, Save, Write, Load, At, Row, Kept,
         Fits, PreBuild
    <2> QED
      BY <1>0, <1>1, <2>1, Phases DEF PreBuild
  <1>4. CASE RunConcepts(w)
    <2>1. UNCHANGED row \/ (Kept /\ row.status \in PreBuild /\ row'.status = "needs_concept")
      BY <1>2, <1>4 DEF RunConcepts, LoadOrReturn, FinishOrFail, Write, Load, At, Row, Kept, Fits, PreBuild
    <2> QED
      BY <1>0, <1>1, <2>1, Phases
  <1>5. CASE RunPlanGate(w)
    <2>1. CASE LoadPlan(w)
      BY <1>1, <2>1 DEF LoadPlan, Load
    <2>2. CASE SaveOrFail(w, "planSave", At(row, "planning"), "planner")
      <3>1. row.used = 0
        BY <2>2 DEF SaveOrFail, VerdictInv, InOrder, BeforePlan, EarlyPC
      <3>2. UNCHANGED row \/ (Kept /\ row.status \in {"planning", "building"} /\ row'.status = "planning")
        BY <1>2, <2>2 DEF SaveOrFail, Save, At, Row, Kept, Fits
      <3> QED
        BY <1>0, <1>1, <3>1, <3>2, Moving, Phases DEF Mapped, Moved, PreBuild
    <2>3. CASE SaveOrFail(w, "planner", [At(row, "screening") EXCEPT !.plan = TRUE], "gate")
      <3>1. UNCHANGED row \/ (Kept /\ row.status = "planning" /\ row'.status = "screening")
        BY <1>2, <2>3 DEF SaveOrFail, Save, At, Row, Kept, Fits
      <3> QED
        BY <1>0, <1>1, <3>1, Phases DEF PreBuild
    <2>4. ASSUME NEW s \in {"rejected", "escalated", "awaiting_approval"}, NEW v,
                 FinishOrFail(w, "gate", [At(row, s) EXCEPT !.verdict = v])
          PROVE  Mapped
      <3>1. UNCHANGED row \/ (Kept /\ row.status = "screening" /\ row'.status = s)
        BY <1>2, <2>4 DEF FinishOrFail, Write, At, Row, Kept, Fits
      <3> QED
        BY <1>0, <1>1, <3>1, Moving, Phases DEF Mapped, Moved, PreBuild
    <2> QED
      BY <1>5, <2>1, <2>2, <2>3, <2>4 DEF RunPlanGate
  <1>6. CASE ClearEscalation(w)
    <2>1. worker[w].pc = "approveSave" /\ w \in fresh => row.status = "escalated"
      BY DEF InPlace
    <2>2. UNCHANGED row \/ (Kept /\ row.status = "escalated" /\ row'.status = "awaiting_approval")
      BY <1>6, <2>1 DEF ClearEscalation, LoadOrReturn, FinishOrFail, Write, Load, At, Row, Kept
    <2> QED
      BY <1>1, <2>2, Moving, Phases DEF Mapped, Moved
  <1>7. CASE StepFails(w)
    BY <1>1, <1>7 DEF StepFails
  <1>8. CASE MarkFailed(w)
    BY <1>1, <1>8, MarkedMapped DEF MarkFailed, Write
  <1>9. CASE Reaccept(w)
    BY <1>9 DEF Reaccept, LoadOrReturn, FinishOrFail, SerialInv, Claimed, AtWork, ReacceptPC
  <1> QED
    BY <1>3, <1>4, <1>5, <1>6, <1>7, <1>8, <1>9 DEF Setup

LEMMA BuildingMapped ==
  ASSUME ShownInv, SerialInv, InPlace, NEW w \in Workers, Building(w)
  PROVE  Mapped
  <1> row \in Row
    BY DEF ShownInv, TypeInv, RowTyped
  <1>1. CASE Publish(w)
    <2>1. its[worker[w].it].number = row.used + 1 /\ row.status = "building"
      BY <1>1 DEF Publish, SerialInv, Numbered, InPlace, Fits, BuildPC
    <2>2. row' = Published(row.used + 1) \/ UNCHANGED row
      BY <1>1, <2>1 DEF Publish, Write
    <2>3. CASE row' = Published(row.used + 1)
      <3>1. /\ row'.status = "preview_ready" /\ row'.used = row.used + 1
            /\ row'.paid = row.paid /\ row'.delivered = row.delivered
        BY <2>3 DEF Published, At, Row
      <3>2. L!Complete
        BY <2>1, <3>1, Phases DEF L!Complete, Row
      <3> QED
        BY <3>2 DEF Mapped, L!LifecycleNext
    <2> QED
      BY <2>2, <2>3, Moving DEF Mapped, Unseen
  <1>2. CASE ~Publish(w)
    <2>1. Unseen
      BY <1>2 DEF Building, Sweep, Reserve, ReserveFails, Prepare, Spawn, StartSession, Resume, LogProgress,
         AgentReturns, BuildFails, Verified, Record, Save, Load, Row, Unseen
    <2> QED
      BY <2>1, Moving DEF Mapped
  <1> QED
    BY <1>1, <1>2

LEMMA RecoveryMapped ==
  ASSUME ShownInv, Crash \/ ReaperTick \/ RecoveryStep
  PROVE  Mapped
  <1>1. UNCHANGED row \/ row' = MarkedFailed(row)
    BY DEF Crash, ReaperTick, RecoveryStep, ReaperSkips, Reap, Reattach, ReapMark, SweepSandboxes, Write
  <1> QED
    BY <1>1, MarkedMapped, Moving DEF Mapped, Unseen

\* Goroutines, held copies, conflicts, crashes and recovery together move a project only
\* as Lifecycle allows.
THEOREM Refinement ==
  ASSUME Calm, "teardown" \notin Allowed
  PROVE  Spec => ImplementsLifecycle
  <1>1. Init => L!LifecycleInit
    BY Phases DEF Init, NewRow, L!LifecycleInit, PreBuild
  <1>2. ShownInv /\ VerdictInv /\ SerialInv /\ InPlace /\ [Next]_vars => [L!LifecycleNext]_L!lifecycle
    <2> SUFFICES ASSUME ShownInv, VerdictInv, SerialInv, InPlace, [Next]_vars PROVE Mapped
      BY DEF Mapped
    <2>1. CASE UNCHANGED vars
      BY <2>1 DEF vars, Mapped, L!lifecycle
    <2>2. TypeInv
      BY DEF ShownInv
    <2> QED
      BY <2>1, <2>2, Cases, RequestMapped, OtherMapped, SetupMapped, BuildingMapped, RecoveryMapped
  <1>3. ShownInv => TypeInv
    BY DEF ShownInv
  <1> QED
    BY <1>1, <1>2, <1>3, SerialInvariance, ShownInit, ShownStep, VerdictInit, VerdictStep, PlaceInit, PlaceStep,
       PTL DEF Spec, ImplementsLifecycle, L!LifecycleSpec
=============================================================================
