---------------------------- MODULE DomainsProofs ----------------------------
(***************************************************************************)
(* Theorems of Domains for every number of tasks, reconcile passes and     *)
(* crashes.  AttachedIsKept rests on what a current copy tells its holder: *)
(* a task that loaded the row to attach a domain found none on it, and any *)
(* write since then has taken its copy's version away (CurrentIsFree).     *)
(* PurchasedIsOwned rests on the registrar's answer being in before the    *)
(* row is saved (AnswerMeansOwned).                                        *)
(***************************************************************************)
EXTENDS Domains, TLAPS

\* TypeOK, by the parts of the state a step changes together.
RowTyped  == row \in Row /\ fresh \subseteq Tasks \cup Reconcilers /\ origin \in {"none", "checkout", "page"}
TaskTyped == task \in [Tasks -> Task]
PassTyped == pass \in [Reconcilers -> Pass]
RestTyped ==
  /\ session \in {"none", "plain", "bundle"}
  /\ owned \in BOOLEAN
  /\ charged \in BOOLEAN
  /\ refunded \in 0 .. MaxMoney
  /\ invoiced \in 0 .. MaxMoney
  /\ crashes \in 0 .. MaxCrashes

TypeInv == RowTyped /\ TaskTyped /\ PassTyped /\ RestTyped

\* Program counters of a task that holds the copy it is about to attach by.
AttachingPC == {"register", "buySave", "claimSave", "attachSave"}

CurrentIsFree ==
  \A t \in Tasks : t \in fresh /\ task[t].pc \in AttachingPC => ~HasDomain(row)

AnswerMeansOwned ==
  \A t \in Tasks : task[t].pc \in {"buySave", "claimSave"} => owned

DomainsInv == TypeInv /\ CurrentIsFree /\ AnswerMeansOwned /\ PurchasedIsOwned

-----------------------------------------------------------------------------
(* Building blocks. *)

LEMMA TypeIsTypeOK == TypeOK <=> TypeInv
  BY DEF TypeOK, TypeInv, RowTyped, TaskTyped, PassTyped, RestTyped

LEMMA StartType ==
  ASSUME TaskTyped, NEW t \in Tasks, NEW pc \in TaskPC, NEW from \in {"checkout", "page"},
         NEW buy \in BOOLEAN, Start(t, pc, from, buy)
  PROVE  /\ TaskTyped'
         /\ \A u \in Tasks \ {t} : task'[u] = task[u]
         /\ task'[t].pc = pc
  BY DEF TaskTyped, Start, Task

LEMMA GotoType ==
  ASSUME TaskTyped, NEW t \in Tasks, NEW pc \in TaskPC, Goto(t, pc)
  PROVE  /\ TaskTyped'
         /\ \A u \in Tasks \ {t} : task'[u] = task[u]
         /\ task'[t].pc = pc
  BY DEF TaskTyped, Goto, Task

LEMMA DoneType ==
  ASSUME TaskTyped, NEW t \in Tasks, Done(t)
  PROVE  /\ TaskTyped'
         /\ \A u \in Tasks \ {t} : task'[u] = task[u]
         /\ task'[t].pc = "idle"
  BY DEF TaskTyped, Done, Task, IdleTask, TaskPC

LEMMA FailsType ==
  ASSUME TaskTyped, NEW t \in Tasks, Fails(t)
  PROVE  /\ TaskTyped'
         /\ \A u \in Tasks \ {t} : task'[u] = task[u]
         /\ task'[t].pc \in {"idle", "failed"}
  BY GotoType, DoneType DEF Fails, TaskPC

\* A step that moves one task to a counter at which it holds no answer.
LEMMA ElsewhereIsSafe ==
  ASSUME AnswerMeansOwned, NEW t \in Tasks,
         \A u \in Tasks \ {t} : task'[u] = task[u],
         task'[t].pc \notin {"buySave", "claimSave"},
         owned' = owned
  PROVE  AnswerMeansOwned'
  BY DEF AnswerMeansOwned

\* The same for copies, when the row and its holders stay as they are.
LEMMA ElsewhereIsFree ==
  ASSUME CurrentIsFree, NEW t \in Tasks,
         \A u \in Tasks \ {t} : task'[u] = task[u],
         task'[t].pc \notin AttachingPC,
         row' = row, fresh' \subseteq fresh \cup {t}
  PROVE  CurrentIsFree'
  BY DEF CurrentIsFree

LEMMA NoDomainType == NoDomain \in Row
  BY DEF NoDomain, Row, DomainStatus, Pending

LEMMA IdleType == IdleTask \in Task /\ IdlePass \in Pass
  <1>1. IdleTask \in Task
    BY DEF IdleTask, Task, TaskPC
  <1>2. IdlePass \in Pass
    BY NoDomainType DEF IdlePass, Pass, PassPC
  <1> QED
    BY <1>1, <1>2

LEMMA InitInv == Init => DomainsInv
  <1> SUFFICES ASSUME Init PROVE DomainsInv
    OBVIOUS
  <1>1. RowTyped /\ TaskTyped /\ PassTyped
    BY NoDomainType, IdleType DEF Init, RowTyped, TaskTyped, PassTyped
  <1>2. RestTyped
    <2>1. owned \in BOOLEAN /\ charged \in BOOLEAN
      BY Zenon DEF Init
    <2>2. 0 \in 0 .. MaxMoney /\ 0 \in 0 .. MaxCrashes
      BY DomainsAssumption
    <2> QED
      BY <2>1, <2>2 DEF Init, RestTyped
  <1>3. CurrentIsFree /\ AnswerMeansOwned /\ PurchasedIsOwned
    BY DEF Init, CurrentIsFree, AnswerMeansOwned, PurchasedIsOwned, IdleTask, NoDomain
  <1> QED
    BY <1>1, <1>2, <1>3 DEF DomainsInv, TypeInv

-----------------------------------------------------------------------------
(* Every step preserves the invariant and keeps a stored domain. *)

\* AttachedIsKept, as a step.
Kept == HasDomain(row) /\ HasDomain(row') => row'.kind = row.kind /\ origin' = origin

\* A write that changes neither the kind nor the attached domain's origin, by
\* whoever, while the tasks stay as they are or move to where nothing is held.
LEMMA PlainWrite ==
  ASSUME DomainsInv, row' \in Row, fresh' = {}, row'.kind = row.kind,
         UNCHANGED <<owned, origin>>,
         TaskTyped', AnswerMeansOwned', PassTyped', RestTyped'
  PROVE  DomainsInv' /\ Kept
  <1>1. CurrentIsFree' /\ RowTyped'
    BY DEF DomainsInv, TypeInv, RowTyped, CurrentIsFree
  <1>2. PurchasedIsOwned'
    BY <1>1 DEF DomainsInv, PurchasedIsOwned
  <1> QED
    BY <1>1, <1>2 DEF DomainsInv, TypeInv, Kept

\* A step that leaves the row alone.
LEMMA NoWrite ==
  ASSUME DomainsInv, row' = row, fresh' \subseteq Tasks \cup Reconcilers,
         UNCHANGED <<owned, origin>>,
         TaskTyped', CurrentIsFree', AnswerMeansOwned', PassTyped', RestTyped'
  PROVE  DomainsInv' /\ Kept
  BY DEF DomainsInv, TypeInv, RowTyped, PurchasedIsOwned, Kept

LEMMA RequestStep ==
  ASSUME DomainsInv, NEW t \in Tasks,
         \/ SubscriptionStarted(t) \/ Redrive(t) \/ RetryPaidDomain(t)
         \/ PressBuy(t) \/ PressAttach(t) \/ DetachDomain(t)
  PROVE  DomainsInv' /\ Kept
  <1> USE DEF DomainsInv, TypeInv
  <1>1. TaskTyped' /\ AnswerMeansOwned' /\ task'[t].pc \in {"provision", "buy", "attach", "detachSave"}
        /\ \A u \in Tasks \ {t} : task'[u] = task[u]
    <2>1. PICK pc \in {"provision", "buy", "attach", "detachSave"}, from \in {"checkout", "page"},
               buy \in BOOLEAN : Start(t, pc, from, buy)
      BY DEF SubscriptionStarted, Redrive, RetryPaidDomain, PressBuy, PressAttach, DetachDomain
    <2>2. UNCHANGED owned
      BY DEF SubscriptionStarted, Redrive, RetryPaidDomain, PressBuy, PressAttach, DetachDomain, Request
    <2> QED
      BY <2>1, <2>2, StartType, ElsewhereIsSafe DEF TaskPC
  <1>2. PassTyped' /\ RestTyped' /\ UNCHANGED <<owned, origin>>
    BY DEF SubscriptionStarted, Redrive, RetryPaidDomain, PressBuy, PressAttach, DetachDomain, Request,
       PassTyped, RestTyped
  <1>3. CASE SubscriptionStarted(t) \/ RetryPaidDomain(t)
    <2>1. row' \in Row /\ fresh' = {} /\ row'.kind = row.kind
      BY <1>3 DEF SubscriptionStarted, RetryPaidDomain, Write, RowTyped, Row
    <2> QED
      BY <1>1, <1>2, <2>1, PlainWrite
  <1>4. CASE Redrive(t) \/ PressBuy(t) \/ PressAttach(t) \/ DetachDomain(t)
    <2>1. row' = row /\ fresh' \subseteq fresh \cup {t}
      BY <1>4 DEF Redrive, PressBuy, PressAttach, DetachDomain, Load
    <2>2. CurrentIsFree'
      BY <1>1, <2>1, ElsewhereIsFree DEF AttachingPC
    <2> QED
      BY <1>1, <1>2, <2>1, <2>2, NoWrite DEF RowTyped
  <1> QED
    BY <1>3, <1>4

LEMMA MovedType ==
  ASSUME TaskTyped, NEW t \in Tasks, NEW pc \in TaskPC, NEW buy \in BOOLEAN, NEW refund \in BOOLEAN,
         task' = [task EXCEPT ![t].pc = pc, ![t].buy = buy, ![t].refund = refund]
  PROVE  /\ TaskTyped'
         /\ \A u \in Tasks \ {t} : task'[u] = task[u]
         /\ task'[t].pc = pc
  BY DEF TaskTyped, Task

LEMMA ProvisionStep ==
  ASSUME DomainsInv, NEW t \in Tasks,
         Provision(t) \/ ProvisionReturns(t) \/ ProvisionFailed(t) \/ Refund(t) \/ ClearPrepaid(t)
  PROVE  DomainsInv' /\ Kept
  <1> USE DEF DomainsInv, TypeInv
  <1>1. /\ TaskTyped'
        /\ task'[t].pc \in {"idle", "buy", "attach", "refund", "clear"}
        /\ \A u \in Tasks \ {t} : task'[u] = task[u]
    <2>1. CASE Provision(t)
      <3>1. CASE Done(t)
        BY <3>1, DoneType
      <3>2. CASE task' = [task EXCEPT ![t].pc = IF row.intent = "buy" THEN "buy" ELSE "attach",
                                      ![t].buy = row.intent = "buy",
                                      ![t].refund = row.cost /\ row.sub]
        <4>1. (row.intent = "buy") \in BOOLEAN /\ (row.cost /\ row.sub) \in BOOLEAN
          OBVIOUS
        <4> QED
          BY <3>2, <4>1, MovedType DEF TaskPC
      <3> QED
        BY <2>1, <3>1, <3>2 DEF Provision
    <2>2. CASE ProvisionReturns(t) \/ ClearPrepaid(t)
      BY <2>2, DoneType DEF ProvisionReturns, ClearPrepaid
    <2>3. CASE ProvisionFailed(t) \/ Refund(t)
      BY <2>3, DoneType, GotoType DEF ProvisionFailed, Refund, TaskPC
    <2> QED
      BY <2>1, <2>2, <2>3
  <1>2. PassTyped' /\ RestTyped' /\ UNCHANGED <<owned, origin>>
    BY DomainsAssumption DEF Provision, ProvisionReturns, ProvisionFailed, Refund, ClearPrepaid, NoPass, One,
       PassTyped, RestTyped
  <1>3. AnswerMeansOwned'
    BY <1>1, <1>2, ElsewhereIsSafe
  <1>4. CASE UNCHANGED <<row, fresh>>
    BY <1>1, <1>2, <1>3, <1>4, ElsewhereIsFree, NoWrite DEF AttachingPC, RowTyped
  <1>5. CASE row' \in Row /\ fresh' = {} /\ row'.kind = row.kind
    BY <1>1, <1>2, <1>3, <1>5, PlainWrite
  <1>6. UNCHANGED <<row, fresh>> \/ (row' \in Row /\ fresh' = {} /\ row'.kind = row.kind)
    BY DEF Write, Provision, ProvisionReturns, ProvisionFailed, Refund, ClearPrepaid, ClearIntent, RowTyped, Row
  <1> QED
    BY <1>4, <1>5, <1>6

LEMMA BuyStep ==
  ASSUME DomainsInv, NEW t \in Tasks, BuyDomain(t) \/ AttachDomain(t)
  PROVE  DomainsInv' /\ Kept
  <1> USE DEF DomainsInv, TypeInv
  <1>1. /\ TaskTyped'
        /\ task'[t].pc \in {"idle", "failed", "register", "attachSave"}
        /\ \A u \in Tasks \ {t} : task'[u] = task[u]
    BY GotoType, FailsType DEF BuyDomain, AttachDomain, TaskPC
  <1>2. PassTyped' /\ RestTyped' /\ UNCHANGED <<owned, origin>>
    BY DEF BuyDomain, AttachDomain, NoPass, PassTyped, RestTyped
  <1>3. AnswerMeansOwned'
    BY <1>1, <1>2, ElsewhereIsSafe
  <1>4. row' = row /\ fresh' \subseteq fresh \cup {t}
    BY DEF BuyDomain, AttachDomain, Load
  <1>5. task'[t].pc \in AttachingPC => ~HasDomain(row)
    BY FailsType, <1>1 DEF BuyDomain, AttachDomain, AttachingPC, CanAttachDomain
  <1>6. CurrentIsFree'
    BY <1>1, <1>4, <1>5 DEF CurrentIsFree
  <1> QED
    BY <1>1, <1>2, <1>3, <1>4, <1>6, NoWrite DEF RowTyped

\* The registrar sells the domain, or does not: the answer is what the save
\* will rest on.
LEMMA RegisterStep ==
  ASSUME DomainsInv, NEW t \in Tasks, RegisterDomain(t)
  PROVE  DomainsInv' /\ Kept
  <1> USE DEF DomainsInv, TypeInv
  <1>1. UNCHANGED <<row, fresh, origin>> /\ PassTyped' /\ RestTyped' /\ (owned => owned')
    BY DEF RegisterDomain, NoPass, PassTyped, RestTyped
  <1>2. RowTyped' /\ PurchasedIsOwned' /\ Kept
    BY <1>1 DEF RowTyped, PurchasedIsOwned, Kept
  <1>3. CASE owned' = TRUE /\ Goto(t, IF owned THEN "claimSave" ELSE "buySave")
    <2>1. TaskTyped' /\ \A u \in Tasks \ {t} : task'[u] = task[u]
      BY <1>3, GotoType DEF TaskPC
    <2>2. AnswerMeansOwned'
      BY <1>3 DEF AnswerMeansOwned
    <2>3. CurrentIsFree'
      BY <1>1, <2>1 DEF RegisterDomain, CurrentIsFree, AttachingPC
    <2> QED
      BY <1>1, <1>2, <2>1, <2>2, <2>3
  <1>4. CASE Fails(t)
    <2>1. /\ TaskTyped'
          /\ \A u \in Tasks \ {t} : task'[u] = task[u]
          /\ task'[t].pc \in {"idle", "failed"}
      BY <1>4, FailsType
    <2>2. AnswerMeansOwned'
      BY <1>1, <2>1 DEF AnswerMeansOwned
    <2>3. CurrentIsFree'
      BY <1>1, <2>1, ElsewhereIsFree DEF AttachingPC
    <2> QED
      BY <1>1, <1>2, <2>1, <2>2, <2>3
  <1> QED
    BY <1>3, <1>4 DEF RegisterDomain

\* A save that stores or removes a domain: by a current copy only.
LEMMA SaveStep ==
  ASSUME DomainsInv, NEW t \in Tasks, SaveBought(t) \/ SaveAttached(t) \/ SaveDetached(t)
  PROVE  DomainsInv' /\ Kept
  <1> USE DEF DomainsInv, TypeInv
  <1>1. /\ TaskTyped'
        /\ task'[t].pc \in {"idle", "failed"}
        /\ \A u \in Tasks \ {t} : task'[u] = task[u]
    BY DoneType, FailsType DEF SaveBought, SaveAttached, SaveDetached
  <1>2. PassTyped' /\ RestTyped' /\ UNCHANGED owned
    BY DEF SaveBought, SaveAttached, SaveDetached, NoPass, PassTyped, RestTyped
  <1>3. AnswerMeansOwned'
    BY <1>1, <1>2, ElsewhereIsSafe
  <1>4. CASE UNCHANGED <<row, fresh, origin>>
    BY <1>1, <1>2, <1>3, <1>4, ElsewhereIsFree, NoWrite DEF AttachingPC, RowTyped
  <1>5. CASE t \in fresh /\ SaveBought(t)
    <2>1. owned /\ ~HasDomain(row)
      BY <1>5 DEF SaveBought, AnswerMeansOwned, CurrentIsFree, AttachingPC
    <2>2. RowTyped'
      BY <1>5 DEF SaveBought, Bought, Write, RowTyped, Row, DomainStatus, Pending, TaskTyped, Task
    <2>3. CurrentIsFree'
      BY <1>5 DEF SaveBought, Write, CurrentIsFree
    <2> QED
      BY <1>1, <1>2, <1>3, <2>1, <2>2, <2>3 DEF PurchasedIsOwned, Kept
  <1>6. CASE t \in fresh /\ SaveAttached(t)
    <2>1. ~HasDomain(row)
      BY <1>6 DEF SaveAttached, CurrentIsFree, AttachingPC
    <2>2. RowTyped' /\ row'.kind = "byod"
      BY <1>6 DEF SaveAttached, Write, RowTyped, Row, DomainStatus, Pending, TaskTyped, Task
    <2>3. CurrentIsFree'
      BY <1>6 DEF SaveAttached, Write, CurrentIsFree
    <2> QED
      BY <1>1, <1>2, <1>3, <2>1, <2>2, <2>3 DEF PurchasedIsOwned, Kept
  <1>7. CASE t \in fresh /\ SaveDetached(t)
    <2>1. RowTyped' /\ row'.kind = "none" /\ ~HasDomain(row')
      BY <1>7 DEF SaveDetached, Write, RowTyped, Row, DomainStatus, Pending, HasDomain
    <2>2. CurrentIsFree'
      BY <1>7 DEF SaveDetached, Write, CurrentIsFree
    <2> QED
      BY <1>1, <1>2, <1>3, <2>1, <2>2 DEF PurchasedIsOwned, Kept
  <1> QED
    BY <1>4, <1>5, <1>6, <1>7 DEF SaveBought, SaveAttached, SaveDetached

\* Reconcile passes move the status of a domain, never the domain.
LEMMA ReconcileStep ==
  ASSUME DomainsInv, NEW r \in Reconcilers,
         \/ Reconcile(r) \/ AdvanceRegistration(r) \/ EnsureDNS(r)
         \/ AdvanceCertificate(r) \/ Activate(r) \/ SaveActive(r)
  PROVE  DomainsInv' /\ Kept
  <1> USE DEF DomainsInv, TypeInv
  <1>1. UNCHANGED <<task, owned, origin>> /\ RestTyped'
    BY DomainsAssumption DEF Reconcile, AdvanceRegistration, EnsureDNS, AdvanceCertificate, Activate, SaveActive,
       NoTask, One, RestTyped
  <1>2. TaskTyped' /\ AnswerMeansOwned'
    BY <1>1 DEF TaskTyped, AnswerMeansOwned
  <1>3. PassTyped'
    BY IdleType DEF Reconcile, AdvanceRegistration, EnsureDNS, AdvanceCertificate, Activate, SaveActive,
       At, EndPass, PassTyped, Pass, PassPC, RowTyped
  <1>4. CASE row' = row /\ fresh' \subseteq fresh \cup {r}
    <2>1. CurrentIsFree'
      BY <1>1, <1>4, DomainsAssumption DEF CurrentIsFree
    <2> QED
      BY <1>1, <1>2, <1>3, <1>4, <2>1, NoWrite DEF RowTyped
  <1>5. CASE row' \in Row /\ fresh' = {} /\ row'.kind = row.kind
    BY <1>1, <1>2, <1>3, <1>5, PlainWrite
  <1>6. \/ row' = row /\ fresh' \subseteq fresh \cup {r}
        \/ row' \in Row /\ fresh' = {} /\ row'.kind = row.kind
    BY DEF Reconcile, AdvanceRegistration, EnsureDNS, AdvanceCertificate, Activate, SaveActive,
       Write, Save, Load, RowTyped, Row, DomainStatus, Pending
  <1> QED
    BY <1>4, <1>5, <1>6

\* Writers that hold no copy, and crashes.
LEMMA OtherStep ==
  ASSUME DomainsInv, Subscribe \/ MarkPaid \/ FailDomain \/ Touch \/ Crash
  PROVE  DomainsInv' /\ Kept
  <1> USE DEF DomainsInv, TypeInv
  <1>1. CASE Crash
    <2>1. RowTyped' /\ TaskTyped' /\ PassTyped' /\ RestTyped'
      BY <1>1, IdleType, DomainsAssumption DEF Crash, RowTyped, TaskTyped, PassTyped, RestTyped
    <2>2. CurrentIsFree' /\ AnswerMeansOwned' /\ PurchasedIsOwned' /\ Kept
      BY <1>1 DEF Crash, CurrentIsFree, AnswerMeansOwned, PurchasedIsOwned, IdleTask, Kept
    <2> QED
      BY <2>1, <2>2
  <1>2. CASE Subscribe \/ MarkPaid \/ FailDomain \/ Touch
    <2>1. UNCHANGED <<task, pass, owned, origin>> /\ RestTyped'
      BY <1>2 DEF Subscribe, MarkPaid, FailDomain, Touch, Request, NoTask, RestTyped
    <2>2. TaskTyped' /\ PassTyped' /\ AnswerMeansOwned'
      BY <2>1 DEF TaskTyped, PassTyped, AnswerMeansOwned
    <2>3. row' \in Row /\ fresh' = {} /\ row'.kind = row.kind
      BY <1>2 DEF Subscribe, MarkPaid, FailDomain, Touch, Write, RowTyped, Row, DomainStatus, Pending
    <2> QED
      BY <2>1, <2>2, <2>3, PlainWrite
  <1> QED
    BY <1>1, <1>2

LEMMA InvStep ==
  ASSUME DomainsInv, [Next]_vars
  PROVE  DomainsInv' /\ [Kept]_vars
  <1>1. CASE UNCHANGED vars
    BY <1>1 DEF vars, DomainsInv, TypeInv, RowTyped, TaskTyped, PassTyped, RestTyped,
       CurrentIsFree, AnswerMeansOwned, PurchasedIsOwned
  <1>2. CASE Next
    BY <1>2, OtherStep, RequestStep, ProvisionStep, BuyStep, RegisterStep, SaveStep, ReconcileStep
    DEF Next, Provisioning
  <1> QED
    BY <1>1, <1>2

LEMMA Invariance == Spec => []DomainsInv
  BY InitInv, InvStep, PTL DEF Spec

-----------------------------------------------------------------------------

\* No path stores a status, kind or intent the columns do not have.
THEOREM TypeCorrect == Spec => []TypeOK
  <1>1. DomainsInv => TypeOK
    BY TypeIsTypeOK DEF DomainsInv
  <1> QED
    BY <1>1, Invariance, PTL

\* A purchased domain on the row is one the registrar sold us: every save of a
\* purchase comes after the registrar's answer, and nothing else makes one.
THEOREM PurchaseIsOwned == Spec => []PurchasedIsOwned
  <1>1. DomainsInv => PurchasedIsOwned
    BY DEF DomainsInv
  <1> QED
    BY <1>1, Invariance, PTL

\* However many buys, attaches, retries and re-drives overlap, the first to
\* save wins and the others find their copy stale (provisionDomainIntent's
\* promise about a concurrent double fire).
THEOREM StoredDomainIsKept == Spec => AttachedIsKept
  <1>1. DomainsInv /\ [Next]_vars => [Kept]_vars
    BY InvStep
  <1>2. [][Kept]_vars => AttachedIsKept
    BY PTL DEF AttachedIsKept, Kept
  <1> QED
    BY <1>1, <1>2, Invariance, PTL DEF Spec

-----------------------------------------------------------------------------
(***************************************************************************)
(* In Domains, what the checkout's path stored is flagged prepaid, unless   *)
(* money went back, for every number of tasks, passes and crashes.          *)
(*                                                                         *)
(* The flag is stored before anything is registered, so the theorem is      *)
(* about who could take it away: a run that fails clears the flag.  If it   *)
(* gave money back there is nothing to show; a run that gives none back is  *)
(* the only one of the checkout's (RefundlessIsAlone), because the choice    *)
(* of an own name keeps no price and a project without a subscription has   *)
(* no retry, and it started before any domain was stored.                   *)
(***************************************************************************)

BuyPC == {"buy", "register", "buySave", "claimSave"}

OfCheckout(t) == task[t].from = "checkout"
Buying(t) == OfCheckout(t) /\ task[t].pc \in BuyPC

\* A run of the checkout's past its load that would give no money back.
Refundless(t) ==
  OfCheckout(t) /\ task[t].pc \notin {"idle", "provision"} /\ ~(task[t].buy /\ task[t].refund)

\* The price is kept for a choice to buy, and for no other.
PriceFollowsChoice ==
  /\ row.intent = "buy" => row.cost
  /\ row.intent = "byod" => ~row.cost

PurchasedIsStored == row.kind = "purchased" => HasDomain(row)

CheckoutIsPaid == \A t \in Tasks : OfCheckout(t) => row.paid

\* A domain about to be detached by a current copy is there, and the checkout rests.
DetachIsAlone ==
  \A t \in Tasks : task[t].pc = "detachSave" /\ t \in fresh =>
    HasDomain(row) /\ \A u \in Tasks : ~OfCheckout(u)

\* Two runs of the checkout's: the second is the operator's retry.
TwoMeansRetry ==
  \A t, u \in Tasks : t # u /\ OfCheckout(t) /\ OfCheckout(u) => row.sub /\ row.intent # "byod"

RefundlessIsAlone ==
  \A t \in Tasks : Refundless(t) =>
    /\ \A u \in Tasks : u # t => ~OfCheckout(u)
    /\ IF task[t].buy THEN ~row.sub ELSE row.cost => HasDomain(row)

ClearedIsRefunded ==
  \A t \in Tasks : OfCheckout(t) /\ task[t].pc = "clear" /\ ~Refundless(t) => refunded > 0

BuyingIsMarked == \A t \in Tasks : Buying(t) => task[t].buy /\ (row.prepaid \/ refunded > 0)

StoredIsMarked ==
  row.kind = "purchased" /\ origin = "checkout" =>
    (row.prepaid \/ refunded > 0) /\ \A t \in Tasks : ~Refundless(t)

PrepaidInv ==
  /\ PriceFollowsChoice /\ PurchasedIsStored /\ CheckoutIsPaid /\ DetachIsAlone
  /\ TwoMeansRetry /\ RefundlessIsAlone /\ ClearedIsRefunded /\ BuyingIsMarked /\ StoredIsMarked

-----------------------------------------------------------------------------
(* The shapes of steps. *)

LEMMA PrepaidInit == Init => PrepaidInv
  BY DEF Init, PrepaidInv, PriceFollowsChoice, PurchasedIsStored, CheckoutIsPaid, DetachIsAlone, TwoMeansRetry,
     RefundlessIsAlone, ClearedIsRefunded, BuyingIsMarked, StoredIsMarked, OfCheckout, Buying, Refundless,
     NoDomain, IdleTask, HasDomain, BuyPC

\* A step of a pass, or of a writer that changes at most the status of a stored domain.
LEMMA StatusKeeps ==
  ASSUME DomainsInv, PrepaidInv, row' \in Row, UNCHANGED <<task, origin, refunded>>,
         \A t \in Tasks : t \in fresh' => t \in fresh,
         row.paid => row'.paid, HasDomain(row') <=> HasDomain(row),
         row'.sub = row.sub, row'.kind = row.kind, row'.intent = row.intent,
         row'.prepaid = row.prepaid, row'.cost = row.cost
  PROVE  PrepaidInv'
  <1>1. \A t \in Tasks : /\ OfCheckout(t)' <=> OfCheckout(t)
                         /\ Buying(t)' <=> Buying(t)
                         /\ Refundless(t)' <=> Refundless(t)
    BY DEF OfCheckout, Buying, Refundless
  <1>2. PriceFollowsChoice' /\ PurchasedIsStored' /\ CheckoutIsPaid' /\ TwoMeansRetry'
    BY <1>1 DEF PrepaidInv, PriceFollowsChoice, PurchasedIsStored, CheckoutIsPaid, TwoMeansRetry
  <1>3. DetachIsAlone'
    BY <1>1 DEF PrepaidInv, DetachIsAlone
  <1>4. RefundlessIsAlone' /\ ClearedIsRefunded' /\ BuyingIsMarked' /\ StoredIsMarked'
    BY <1>1 DEF PrepaidInv, RefundlessIsAlone, ClearedIsRefunded, BuyingIsMarked, StoredIsMarked
  <1> QED
    BY <1>2, <1>3, <1>4 DEF PrepaidInv

\* One task moves and the row, if it changes, keeps what the other tasks rely on.
LEMMA MoveKeepsPrepaid ==
  ASSUME DomainsInv, PrepaidInv, NEW t \in Tasks, TaskTyped', row' \in Row,
         \A u \in Tasks \ {t} : task'[u] = task[u],
         task'[t].from = task[t].from \/ ~OfCheckout(t)',
         refunded \in Nat /\ refunded' \in Nat /\ refunded <= refunded', origin' = origin,
         \A u \in Tasks : u \in fresh' => u \in fresh \/ (u = t /\ task'[t].pc # "detachSave"),
         task'[t].pc # "detachSave",
         row'.paid = row.paid, HasDomain(row') <=> HasDomain(row), row'.sub = row.sub,
         row'.kind = row.kind, row'.intent \in {row.intent, "none"}, row'.cost = row.cost,
         row.prepaid => row'.prepaid \/ refunded' > 0
                        \/ (Refundless(t) /\ ~Buying(t)' /\ ~(row.kind = "purchased" /\ origin = "checkout")),
         Refundless(t)' => Refundless(t) /\ task'[t].buy = task[t].buy,
         OfCheckout(t)' /\ task'[t].pc = "clear" /\ ~Refundless(t)' => refunded' > 0,
         Buying(t)' => Buying(t) /\ task'[t].buy = task[t].buy
  PROVE  PrepaidInv'
  <1>1. \A u \in Tasks \ {t} : /\ OfCheckout(u)' <=> OfCheckout(u)
                               /\ Buying(u)' <=> Buying(u)
                               /\ Refundless(u)' <=> Refundless(u)
    BY DEF OfCheckout, Buying, Refundless
  <1>2. OfCheckout(t)' => OfCheckout(t)
    BY DEF OfCheckout
  <1>3. PriceFollowsChoice' /\ PurchasedIsStored' /\ CheckoutIsPaid'
    BY <1>1, <1>2 DEF PrepaidInv, PriceFollowsChoice, PurchasedIsStored, CheckoutIsPaid
  <1>4. DetachIsAlone'
    BY <1>1, <1>2 DEF PrepaidInv, DetachIsAlone
  <1>5. TwoMeansRetry'
    BY <1>1, <1>2 DEF PrepaidInv, TwoMeansRetry
  <1>6. RefundlessIsAlone'
    BY <1>1, <1>2 DEF PrepaidInv, RefundlessIsAlone
  <1>7. ClearedIsRefunded'
    BY <1>1 DEF PrepaidInv, ClearedIsRefunded
  <1>8. BuyingIsMarked'
    <2> SUFFICES ASSUME NEW u \in Tasks, Buying(u)' PROVE task'[u].buy /\ (row'.prepaid \/ refunded' > 0)
      BY DEF BuyingIsMarked
    <2>1. Buying(u) /\ task'[u].buy = task[u].buy
      BY <1>1
    <2>2. task[u].buy /\ (row.prepaid \/ refunded > 0)
      BY <2>1 DEF PrepaidInv, BuyingIsMarked
    <2>3. ~(Refundless(t) /\ ~Buying(t)')
      BY <2>1 DEF PrepaidInv, RefundlessIsAlone, Buying
    <2> QED
      BY <2>1, <2>2, <2>3
  <1>9. StoredIsMarked'
    BY <1>1 DEF PrepaidInv, StoredIsMarked
  <1> QED
    BY <1>3, <1>4, <1>5, <1>6, <1>7, <1>8, <1>9 DEF PrepaidInv

-----------------------------------------------------------------------------
(* A pass with a current copy has a domain to move. *)

CopyIsStored == \A r \in Reconcilers : r \in fresh /\ pass[r].pc # "idle" => HasDomain(row)

\* A step of anyone but the passes.
LEMMA CopyOutside ==
  ASSUME CopyIsStored, pass' = pass,
         \/ fresh' = {}
         \/ row' = row /\ \A r \in Reconcilers : r \in fresh' => r \in fresh
  PROVE  CopyIsStored'
  BY DEF CopyIsStored

LEMMA CopyStep ==
  ASSUME DomainsInv, CopyIsStored, [Next]_vars
  PROVE  CopyIsStored'
  <1>1. CASE UNCHANGED vars
    BY <1>1, CopyOutside DEF vars
  <1>2. CASE Subscribe \/ MarkPaid \/ FailDomain \/ Touch
    BY <1>2, CopyOutside DEF Subscribe, MarkPaid, FailDomain, Touch, Write, Request
  <1>3. CASE Crash
    BY <1>3 DEF Crash, CopyIsStored
  <1>4. ASSUME NEW t \in Tasks, \/ SubscriptionStarted(t) \/ Redrive(t) \/ RetryPaidDomain(t)
                                \/ PressBuy(t) \/ PressAttach(t) \/ DetachDomain(t)
        PROVE  CopyIsStored'
    BY <1>4, CopyOutside, DomainsAssumption DEF SubscriptionStarted, Redrive, RetryPaidDomain, PressBuy, PressAttach,
       DetachDomain, Write, Load, Request
  <1>5. ASSUME NEW t \in Tasks, \/ Provision(t) \/ ProvisionReturns(t) \/ ProvisionFailed(t) \/ Refund(t)
                                \/ ClearPrepaid(t) \/ BuyDomain(t) \/ RegisterDomain(t)
        PROVE  CopyIsStored'
    BY <1>5, CopyOutside, DomainsAssumption DEF Provision, ProvisionReturns, ProvisionFailed, Refund, ClearPrepaid,
       BuyDomain, RegisterDomain, Write, Load, NoPass
  <1>6. ASSUME NEW t \in Tasks, SaveBought(t) \/ AttachDomain(t) \/ SaveAttached(t) \/ SaveDetached(t)
        PROVE  CopyIsStored'
    BY <1>6, CopyOutside, DomainsAssumption DEF SaveBought, AttachDomain, SaveAttached, SaveDetached, Write, Load, NoPass
  <1>7. ASSUME NEW r \in Reconcilers, \/ Reconcile(r) \/ AdvanceRegistration(r) \/ EnsureDNS(r)
                                      \/ AdvanceCertificate(r) \/ Activate(r) \/ SaveActive(r)
        PROVE  CopyIsStored'
    <2>1. \A s \in Reconcilers \ {r} : pass'[s] = pass[s]
      BY <1>7 DEF Reconcile, AdvanceRegistration, EnsureDNS, AdvanceCertificate, Activate, SaveActive, At, EndPass,
         DomainsInv, TypeInv, PassTyped
    <2>2. CASE fresh' = {}
      BY <2>2 DEF CopyIsStored
    <2>3. CASE Reconcile(r)
      BY <1>7, <2>1, <2>3 DEF Reconcile, Load, HasDomain, Pending, CopyIsStored
    <2>4. CASE ~Reconcile(r) /\ row' = row /\ \A s \in Reconcilers : s \in fresh' => s \in fresh
      <3>1. pass[r].pc # "idle"
        BY <1>7, <2>4 DEF AdvanceRegistration, EnsureDNS, AdvanceCertificate, Activate, SaveActive
      <3> QED
        BY <2>1, <2>4, <3>1 DEF CopyIsStored
    <2> QED
      BY <1>7, <2>2, <2>3, <2>4 DEF AdvanceRegistration, EnsureDNS, AdvanceCertificate, Activate, SaveActive, Write, Save
  <1> QED
    BY <1>1, <1>2, <1>3, <1>4, <1>5, <1>6, <1>7 DEF Next, Provisioning

-----------------------------------------------------------------------------
(* Writers outside the tasks. *)

LEMMA PassKeepsPrepaid ==
  ASSUME DomainsInv, CopyIsStored, PrepaidInv, NEW r \in Reconcilers,
         \/ Reconcile(r) \/ AdvanceRegistration(r) \/ EnsureDNS(r)
         \/ AdvanceCertificate(r) \/ Activate(r) \/ SaveActive(r)
  PROVE  PrepaidInv'
  <1>1. row \in Row /\ UNCHANGED <<task, origin, refunded>>
    BY DEF Reconcile, AdvanceRegistration, EnsureDNS, AdvanceCertificate, Activate, SaveActive, NoTask,
       DomainsInv, TypeInv, RowTyped
  <1>2. \A t \in Tasks : t \in fresh' => t \in fresh
    BY DomainsAssumption DEF Reconcile, AdvanceRegistration, EnsureDNS, AdvanceCertificate, Activate, SaveActive,
       Write, Save, Load
  <1>3. \/ row' = row
        \/ /\ r \in fresh /\ pass[r].pc # "idle"
           /\ \E s \in {"verifying", "active"} : row' = [row EXCEPT !.status = s]
    BY DEF Reconcile, AdvanceRegistration, EnsureDNS, AdvanceCertificate, Activate, SaveActive, Write, Save, Load
  <1>4. \/ row' = row
        \/ HasDomain(row) /\ \E s \in {"verifying", "active"} : row' = [row EXCEPT !.status = s]
    BY <1>3 DEF CopyIsStored
  <1>5. /\ row' \in Row /\ (HasDomain(row') <=> HasDomain(row))
        /\ row'.paid = row.paid /\ row'.sub = row.sub /\ row'.kind = row.kind /\ row'.intent = row.intent
        /\ row'.prepaid = row.prepaid /\ row'.cost = row.cost
    BY <1>1, <1>4 DEF Row, HasDomain, DomainStatus, Pending
  <1> QED
    BY <1>1, <1>2, <1>5, StatusKeeps

LEMMA OtherKeepsPrepaid ==
  ASSUME DomainsInv, PrepaidInv, MarkPaid \/ FailDomain \/ Touch
  PROVE  PrepaidInv'
  <1>1. row \in Row /\ fresh' = {} /\ UNCHANGED <<task, origin, refunded>>
    BY DEF MarkPaid, FailDomain, Touch, Write, Request, NoTask, DomainsInv, TypeInv, RowTyped
  <1>2. /\ row' \in Row /\ (HasDomain(row') <=> HasDomain(row))
        /\ (row.paid => row'.paid) /\ row'.sub = row.sub /\ row'.kind = row.kind /\ row'.intent = row.intent
        /\ row'.prepaid = row.prepaid /\ row'.cost = row.cost
    BY <1>1 DEF MarkPaid, FailDomain, Touch, Write, Row, HasDomain, DomainStatus, Pending
  <1> QED
    BY <1>1, <1>2, StatusKeeps

LEMMA CrashKeepsPrepaid ==
  ASSUME PrepaidInv, Crash
  PROVE  PrepaidInv'
  <1>1. UNCHANGED <<row, origin, refunded>> /\ fresh' = {} /\ \A t \in Tasks : task'[t] = IdleTask
    BY DEF Crash
  <1>2. \A t \in Tasks : ~OfCheckout(t)' /\ ~Buying(t)' /\ ~Refundless(t)'
    BY <1>1 DEF OfCheckout, Buying, Refundless, IdleTask
  <1> QED
    BY <1>1, <1>2 DEF PrepaidInv, PriceFollowsChoice, PurchasedIsStored, CheckoutIsPaid, DetachIsAlone, TwoMeansRetry,
       RefundlessIsAlone, ClearedIsRefunded, BuyingIsMarked, StoredIsMarked

\* Nothing of the checkout's runs before the payment.
LEMMA SubscribeKeepsPrepaid ==
  ASSUME DomainsInv, PrepaidInv, Subscribe
  PROVE  PrepaidInv'
  <1>1. /\ ~row.paid /\ fresh' = {} /\ UNCHANGED <<task, origin, refunded>>
        /\ \E choice \in {"none", "byod", "buy"} :
             row' = [row EXCEPT !.intent = choice,
                                !.cost = CASE choice = "buy"  -> TRUE
                                           [] choice = "byod" -> FALSE
                                           [] OTHER           -> row.cost]
    BY DEF Subscribe, Write, Request
  <1>2. \A t \in Tasks : ~OfCheckout(t)
    BY <1>1 DEF PrepaidInv, CheckoutIsPaid
  <1>3. \A t \in Tasks : ~OfCheckout(t)' /\ ~Buying(t)' /\ ~Refundless(t)'
    BY <1>1, <1>2 DEF OfCheckout, Buying, Refundless
  <1>4. row'.kind = row.kind /\ row'.prepaid = row.prepaid /\ row'.status = row.status /\ PriceFollowsChoice'
    BY <1>1 DEF DomainsInv, TypeInv, RowTyped, Row, PriceFollowsChoice
  <1>5. PurchasedIsStored' /\ StoredIsMarked'
    BY <1>1, <1>3, <1>4 DEF PrepaidInv, PurchasedIsStored, StoredIsMarked, HasDomain
  <1> QED
    BY <1>1, <1>3, <1>4, <1>5 DEF PrepaidInv, CheckoutIsPaid, DetachIsAlone, TwoMeansRetry,
       RefundlessIsAlone, ClearedIsRefunded, BuyingIsMarked

-----------------------------------------------------------------------------
(* Only a run of the checkout's finds out whether money must go back. *)

AfterCare == {"provision", "failed", "refund", "clear"}
AfterCareIsCheckout == \A t \in Tasks : task[t].pc \in AfterCare => OfCheckout(t)

LEMMA MoveKeepsCare ==
  ASSUME AfterCareIsCheckout, NEW t \in Tasks, \A u \in Tasks \ {t} : task'[u] = task[u],
         task'[t].pc \in AfterCare => task'[t].from = "checkout"
  PROVE  AfterCareIsCheckout'
  BY DEF AfterCareIsCheckout, OfCheckout

LEMMA StartState ==
  ASSUME TaskTyped, NEW t \in Tasks, NEW pc \in TaskPC, NEW from \in {"checkout", "page"},
         NEW buy \in BOOLEAN, Start(t, pc, from, buy)
  PROVE  /\ TaskTyped'
         /\ \A u \in Tasks \ {t} : task'[u] = task[u]
         /\ task'[t].pc = pc /\ task'[t].from = from
  BY StartType DEF TaskTyped, Start, Task

LEMMA GotoState ==
  ASSUME TaskTyped, NEW t \in Tasks, NEW pc \in TaskPC, Goto(t, pc)
  PROVE  /\ TaskTyped'
         /\ \A u \in Tasks \ {t} : task'[u] = task[u]
         /\ task'[t].pc = pc /\ task'[t].from = task[t].from
         /\ task'[t].buy = task[t].buy /\ task'[t].refund = task[t].refund
  BY GotoType DEF TaskTyped, Goto, Task

LEMMA DoneState ==
  ASSUME TaskTyped, NEW t \in Tasks, Done(t)
  PROVE  /\ TaskTyped'
         /\ \A u \in Tasks \ {t} : task'[u] = task[u]
         /\ task'[t] = IdleTask
  BY DoneType DEF TaskTyped, Done

\* A failed step ends a run of the page and sends the checkout's to its reload.
LEMMA FailsState ==
  ASSUME TaskTyped, NEW t \in Tasks, Fails(t)
  PROVE  /\ TaskTyped'
         /\ \A u \in Tasks \ {t} : task'[u] = task[u]
         /\ \/ task'[t] = IdleTask
            \/ /\ task'[t].pc = "failed" /\ task'[t].from = "checkout" /\ task[t].from = "checkout"
               /\ task'[t].buy = task[t].buy /\ task'[t].refund = task[t].refund
  BY GotoState, DoneState DEF Fails, TaskPC

LEMMA CareStep ==
  ASSUME DomainsInv, AfterCareIsCheckout, [Next]_vars
  PROVE  AfterCareIsCheckout'
  <1> USE DEF DomainsInv, TypeInv
  <1>1. CASE UNCHANGED vars
    BY <1>1 DEF vars, AfterCareIsCheckout, OfCheckout
  <1>2. CASE Subscribe \/ MarkPaid \/ FailDomain \/ Touch
    BY <1>2 DEF Subscribe, MarkPaid, FailDomain, Touch, Request, NoTask, AfterCareIsCheckout, OfCheckout
  <1>3. CASE Crash
    BY <1>3 DEF Crash, AfterCareIsCheckout, AfterCare, IdleTask
  <1>4. ASSUME NEW t \in Tasks, \/ SubscriptionStarted(t) \/ Redrive(t) \/ RetryPaidDomain(t)
                                \/ PressBuy(t) \/ PressAttach(t) \/ DetachDomain(t)
        PROVE  AfterCareIsCheckout'
    <2>1. CASE SubscriptionStarted(t) \/ Redrive(t) \/ RetryPaidDomain(t)
      <3>1. PICK buy \in BOOLEAN : Start(t, "provision", "checkout", buy)
        BY <2>1 DEF SubscriptionStarted, Redrive, RetryPaidDomain
      <3>2. task'[t].from = "checkout" /\ \A u \in Tasks \ {t} : task'[u] = task[u]
        BY <3>1, StartState DEF TaskPC
      <3> QED
        BY <3>2, MoveKeepsCare
    <2>2. CASE PressBuy(t) \/ PressAttach(t) \/ DetachDomain(t)
      <3>1. PICK pc \in {"buy", "attach", "detachSave"}, buy \in BOOLEAN : Start(t, pc, "page", buy)
        BY <2>2 DEF PressBuy, PressAttach, DetachDomain
      <3>2. task'[t].pc \notin AfterCare /\ \A u \in Tasks \ {t} : task'[u] = task[u]
        BY <3>1, StartState DEF TaskPC, AfterCare
      <3> QED
        BY <3>2, MoveKeepsCare
    <2> QED
      BY <1>4, <2>1, <2>2
  <1>5. ASSUME NEW t \in Tasks, Provisioning(t) PROVE AfterCareIsCheckout'
    <2>1. CASE Provision(t)
      <3>1. CASE Done(t)
        BY <3>1, DoneState, MoveKeepsCare DEF IdleTask, AfterCare
      <3>2. CASE task' = [task EXCEPT ![t].pc = IF row.intent = "buy" THEN "buy" ELSE "attach",
                                      ![t].buy = row.intent = "buy",
                                      ![t].refund = row.cost /\ row.sub]
        <4>1. task'[t].pc \notin AfterCare /\ \A u \in Tasks \ {t} : task'[u] = task[u]
          BY <3>2 DEF TaskTyped, Task, AfterCare
        <4> QED
          BY <4>1, MoveKeepsCare
      <3> QED
        BY <2>1, <3>1, <3>2 DEF Provision
    <2>2. CASE Done(t)
      BY <2>2, DoneState, MoveKeepsCare DEF IdleTask, AfterCare
    <2>3. CASE Fails(t)
      BY <2>3, FailsState, MoveKeepsCare DEF IdleTask, AfterCare
    <2>4. CASE ProvisionFailed(t) \/ Refund(t)
      <3>1. CASE \E pc \in {"refund", "clear"} : Goto(t, pc)
        <4>1. OfCheckout(t)
          BY <2>4 DEF ProvisionFailed, Refund, AfterCareIsCheckout, AfterCare
        <4> QED
          BY <3>1, <4>1, GotoState, MoveKeepsCare DEF TaskPC, OfCheckout
      <3> QED
        BY <2>2, <2>4, <3>1 DEF ProvisionFailed, Refund
    <2>5. CASE \E pc \in {"register", "buySave", "claimSave", "attachSave"} : Goto(t, pc)
      BY <2>5, GotoState, MoveKeepsCare DEF TaskPC, AfterCare
    <2> QED
      BY <1>5, <2>1, <2>2, <2>3, <2>4, <2>5 DEF Provisioning, ProvisionReturns, ClearPrepaid, BuyDomain,
         RegisterDomain, SaveBought, AttachDomain, SaveAttached, SaveDetached
  <1>6. ASSUME NEW r \in Reconcilers, \/ Reconcile(r) \/ AdvanceRegistration(r) \/ EnsureDNS(r)
                                      \/ AdvanceCertificate(r) \/ Activate(r) \/ SaveActive(r)
        PROVE  AfterCareIsCheckout'
    BY <1>6 DEF Reconcile, AdvanceRegistration, EnsureDNS, AdvanceCertificate, Activate, SaveActive, NoTask,
       AfterCareIsCheckout, OfCheckout
  <1> QED
    BY <1>1, <1>2, <1>3, <1>4, <1>5, <1>6 DEF Next

-----------------------------------------------------------------------------
(* Requests and goroutines that start. *)

LEMMA RefundsAreCounted ==
  ASSUME DomainsInv
  PROVE  refunded \in Nat /\ One(refunded) \in Nat /\ refunded <= One(refunded) /\ One(refunded) > 0
  <1>1. refunded \in 0 .. MaxMoney
    BY DEF DomainsInv, TypeInv, RestTyped
  <1> QED
    BY <1>1, DomainsAssumption DEF One

\* A button on the page: nothing of the checkout's changes.
LEMMA PressKeepsPrepaid ==
  ASSUME DomainsInv, PrepaidInv, NEW t \in Tasks, PressBuy(t) \/ PressAttach(t)
  PROVE  PrepaidInv'
  <1> USE DEF DomainsInv, TypeInv
  <1>1. PICK pc \in {"buy", "attach"}, buy \in BOOLEAN : Start(t, pc, "page", buy)
    BY DEF PressBuy, PressAttach
  <1>2. /\ TaskTyped' /\ \A u \in Tasks \ {t} : task'[u] = task[u]
        /\ task'[t].pc # "detachSave" /\ task'[t].from = "page"
    BY <1>1, StartState DEF TaskPC
  <1>3. ~OfCheckout(t)' /\ ~Buying(t)' /\ ~Refundless(t)'
    BY <1>2 DEF OfCheckout, Buying, Refundless
  <1>4. row \in Row /\ UNCHANGED <<row, fresh, origin, refunded>>
    BY DEF PressBuy, PressAttach, Request, RowTyped
  <1> QED
    BY <1>2, <1>3, <1>4, RefundsAreCounted, MoveKeepsPrepaid

LEMMA DetachKeepsPrepaid ==
  ASSUME DomainsInv, PrepaidInv, NEW t \in Tasks, DetachDomain(t)
  PROVE  PrepaidInv'
  <1> USE DEF DomainsInv, TypeInv
  <1>1. HasDomain(row) /\ \A u \in Tasks : ~OfCheckout(u)
    BY DEF DetachDomain, OfCheckout
  <1>2. Start(t, "detachSave", "page", FALSE)
    BY DEF DetachDomain
  <1>3. \A u \in Tasks \ {t} : task'[u] = task[u]
    BY <1>2, StartState DEF TaskPC
  <1>4. task'[t].from = "page"
    BY <1>2, StartState DEF TaskPC
  <1>5. \A u \in Tasks : ~OfCheckout(u)'
    BY <1>1, <1>3, <1>4 DEF OfCheckout
  <1>6. \A u \in Tasks : ~Buying(u)' /\ ~Refundless(u)'
    BY <1>5 DEF OfCheckout, Buying, Refundless
  <1>7. UNCHANGED <<row, origin, refunded>>
    BY DEF DetachDomain, Load, Request
  <1>8. PriceFollowsChoice' /\ PurchasedIsStored' /\ CheckoutIsPaid' /\ DetachIsAlone' /\ TwoMeansRetry'
    BY <1>1, <1>5, <1>7 DEF PrepaidInv, PriceFollowsChoice, PurchasedIsStored, CheckoutIsPaid, DetachIsAlone,
       TwoMeansRetry, HasDomain
  <1>9. RefundlessIsAlone' /\ ClearedIsRefunded' /\ BuyingIsMarked' /\ StoredIsMarked'
    BY <1>5, <1>6, <1>7 DEF PrepaidInv, RefundlessIsAlone, ClearedIsRefunded, BuyingIsMarked, StoredIsMarked
  <1> QED
    BY <1>8, <1>9 DEF PrepaidInv

\* The checkout's first run: after the payment, or by the reaper.
LEMMA FirstKeepsPrepaid ==
  ASSUME DomainsInv, PrepaidInv, NEW t \in Tasks, SubscriptionStarted(t) \/ Redrive(t)
  PROVE  PrepaidInv'
  <1> USE DEF DomainsInv, TypeInv
  <1>1. \A u \in Tasks : ~OfCheckout(u)
    BY DEF SubscriptionStarted, Redrive, OfCheckout, PrepaidInv, CheckoutIsPaid
  <1>2. PICK buy \in BOOLEAN : Start(t, "provision", "checkout", buy)
    BY DEF SubscriptionStarted, Redrive
  <1>3. \A u \in Tasks \ {t} : task'[u] = task[u]
    BY <1>2, StartState DEF TaskPC
  <1>4. task'[t].pc = "provision"
    BY <1>2, StartState DEF TaskPC
  <1>5. /\ \A u \in Tasks \ {t} : ~OfCheckout(u)'
        /\ \A u \in Tasks : ~Buying(u)' /\ ~Refundless(u)'
    BY <1>1, <1>3, <1>4 DEF OfCheckout, Buying, Refundless, BuyPC
  <1>6. /\ row'.paid /\ row'.status = row.status /\ row'.kind = row.kind /\ row'.intent = row.intent
        /\ row'.prepaid = row.prepaid /\ row'.cost = row.cost
        /\ UNCHANGED <<origin, refunded>>
    BY DEF SubscriptionStarted, Redrive, Write, Request, RowTyped, Row
  <1>7. DetachIsAlone'
    <2>1. CASE fresh' = {}
      BY <2>1 DEF DetachIsAlone
    <2>2. CASE ~HasDomain(row) /\ fresh' = fresh
      BY <1>3, <1>4, <2>2 DEF PrepaidInv, DetachIsAlone
    <2> QED
      BY <2>1, <2>2 DEF SubscriptionStarted, Redrive, Write
  <1>8. PriceFollowsChoice' /\ PurchasedIsStored' /\ CheckoutIsPaid' /\ TwoMeansRetry'
    BY <1>5, <1>6 DEF PrepaidInv, PriceFollowsChoice, PurchasedIsStored, CheckoutIsPaid, TwoMeansRetry, HasDomain
  <1>9. RefundlessIsAlone' /\ ClearedIsRefunded' /\ BuyingIsMarked' /\ StoredIsMarked'
    BY <1>4, <1>5, <1>6 DEF PrepaidInv, RefundlessIsAlone, ClearedIsRefunded, BuyingIsMarked, StoredIsMarked
  <1> QED
    BY <1>7, <1>8, <1>9 DEF PrepaidInv

\* The operator's retry may overlap a run of the checkout's, but only one that
\* would give its money back.
LEMMA RetryKeepsPrepaid ==
  ASSUME DomainsInv, PrepaidInv, NEW t \in Tasks, RetryPaidDomain(t)
  PROVE  PrepaidInv'
  <1> USE DEF DomainsInv, TypeInv
  <1>1. row.paid /\ ~HasDomain(row) /\ row.cost /\ row.sub
    BY DEF RetryPaidDomain, CanAttachDomain
  <1>2. Start(t, "provision", "checkout", TRUE)
    BY DEF RetryPaidDomain
  <1>3. \A u \in Tasks \ {t} : task'[u] = task[u]
    BY <1>2, StartState DEF TaskPC
  <1>4. task'[t].pc = "provision"
    BY <1>2, StartState DEF TaskPC
  <1>5. fresh' = {} /\ row' = [row EXCEPT !.intent = "buy"] /\ UNCHANGED <<origin, refunded>>
    BY DEF RetryPaidDomain, Write, Request
  <1>6. /\ row'.paid /\ row'.sub /\ row'.status = row.status /\ row'.kind = row.kind /\ row'.intent = "buy"
        /\ row'.prepaid = row.prepaid /\ row'.cost
    BY <1>1, <1>5 DEF RowTyped, Row
  <1>7. /\ \A u \in Tasks \ {t} : (Refundless(u)' <=> Refundless(u)) /\ (Buying(u)' <=> Buying(u))
                                  /\ (OfCheckout(u)' <=> OfCheckout(u))
        /\ ~Refundless(t)' /\ ~Buying(t)'
    BY <1>3, <1>4 DEF OfCheckout, Buying, Refundless, BuyPC
  <1>8. \A u \in Tasks : ~Refundless(u)
    BY <1>1 DEF PrepaidInv, RefundlessIsAlone
  <1>9. PriceFollowsChoice' /\ PurchasedIsStored' /\ CheckoutIsPaid' /\ DetachIsAlone' /\ TwoMeansRetry'
    BY <1>5, <1>6 DEF PrepaidInv, PriceFollowsChoice, PurchasedIsStored, CheckoutIsPaid, DetachIsAlone, TwoMeansRetry,
       HasDomain
  <1>10. \A u \in Tasks : ~Refundless(u)'
    BY <1>7, <1>8
  <1>11. RefundlessIsAlone' /\ StoredIsMarked' /\ BuyingIsMarked'
    BY <1>3, <1>5, <1>6, <1>7, <1>10 DEF PrepaidInv, RefundlessIsAlone, StoredIsMarked, BuyingIsMarked
  <1>12. ClearedIsRefunded'
    BY <1>3, <1>4, <1>5, <1>7 DEF PrepaidInv, ClearedIsRefunded
  <1> QED
    BY <1>9, <1>11, <1>12 DEF PrepaidInv

-----------------------------------------------------------------------------
(* provisionDomainIntent. *)

\* A run that ends and leaves the row alone, or gives up the intent.
LEMMA EndKeepsPrepaid ==
  ASSUME DomainsInv, PrepaidInv, NEW t \in Tasks, Done(t), UNCHANGED <<origin, refunded>>,
         UNCHANGED <<row, fresh>> \/ Write(ClearIntent)
  PROVE  PrepaidInv'
  <1> USE DEF DomainsInv, TypeInv
  <1>1. TaskTyped' /\ (\A u \in Tasks \ {t} : task'[u] = task[u]) /\ task'[t] = IdleTask
    BY DoneState
  <1>2. task'[t].pc = "idle" /\ ~OfCheckout(t)' /\ ~Buying(t)' /\ ~Refundless(t)'
    BY <1>1 DEF IdleTask, OfCheckout, Buying, Refundless
  <1>3. row' \in Row /\ fresh' \subseteq fresh
    BY DEF Write, ClearIntent, RowTyped, Row
  <1>4. /\ row'.paid = row.paid /\ row'.status = row.status /\ row'.sub = row.sub /\ row'.kind = row.kind
        /\ row'.intent \in {row.intent, "none"} /\ row'.cost = row.cost /\ row'.prepaid = row.prepaid
    BY DEF Write, ClearIntent, RowTyped, Row
  <1>5. HasDomain(row') <=> HasDomain(row)
    BY <1>4 DEF HasDomain
  <1> QED
    BY <1>1, <1>2, <1>3, <1>4, <1>5, RefundsAreCounted, MoveKeepsPrepaid

\* A run of the checkout's, or of the page's, that moves on and leaves the row.
LEMMA GoKeepsPrepaid ==
  ASSUME DomainsInv, PrepaidInv, NEW t \in Tasks, NEW pc \in TaskPC, Goto(t, pc), UNCHANGED <<row, origin>>,
         pc \notin {"detachSave", "idle", "provision"},
         \A u \in Tasks : u \in fresh' => u \in fresh \/ u = t,
         refunded' \in {refunded, One(refunded)},
         task[t].pc \notin {"idle", "provision"},
         pc \in BuyPC => task[t].pc \in BuyPC,
         OfCheckout(t) /\ pc = "clear" /\ ~Refundless(t) => refunded' > 0
  PROVE  PrepaidInv'
  <1> USE DEF DomainsInv, TypeInv
  <1>1. /\ TaskTyped' /\ \A u \in Tasks \ {t} : task'[u] = task[u]
        /\ task'[t].pc = pc /\ task'[t].from = task[t].from
        /\ task'[t].buy = task[t].buy /\ task'[t].refund = task[t].refund
    BY GotoState
  <1>2. /\ OfCheckout(t)' <=> OfCheckout(t)
        /\ Refundless(t)' <=> Refundless(t)
        /\ Buying(t)' => Buying(t)
    BY <1>1 DEF OfCheckout, Buying, Refundless
  <1>3. row' \in Row /\ refunded \in Nat /\ refunded' \in Nat /\ refunded <= refunded'
    BY RefundsAreCounted DEF RowTyped
  <1> QED
    BY <1>1, <1>2, <1>3, MoveKeepsPrepaid

LEMMA FailsKeepsPrepaid ==
  ASSUME DomainsInv, PrepaidInv, NEW t \in Tasks, Fails(t), UNCHANGED <<row, fresh, origin, refunded>>,
         task[t].pc \notin {"idle", "provision"}
  PROVE  PrepaidInv'
  <1>1. CASE Done(t)
    BY <1>1, EndKeepsPrepaid
  <1>2. CASE Goto(t, "failed")
    BY <1>2, GoKeepsPrepaid DEF TaskPC, BuyPC
  <1> QED
    BY <1>1, <1>2 DEF Fails

\* The mark: stored before the run that would register goes on.
LEMMA MarkKeepsPrepaid ==
  ASSUME DomainsInv, PrepaidInv, AfterCareIsCheckout, NEW t \in Tasks, Provision(t), ~HasDomain(row)
  PROVE  PrepaidInv'
  <1> USE DEF DomainsInv, TypeInv
  <1>1. /\ task[t].pc = "provision" /\ OfCheckout(t) /\ row.intent \in {"byod", "buy"}
        /\ IF row.intent = "buy" /\ ~row.prepaid
           THEN Write([row EXCEPT !.prepaid = TRUE]) ELSE UNCHANGED <<row, fresh>>
        /\ task' = [task EXCEPT ![t].pc = IF row.intent = "buy" THEN "buy" ELSE "attach",
                                ![t].buy = row.intent = "buy",
                                ![t].refund = row.cost /\ row.sub]
        /\ UNCHANGED <<origin, refunded>>
    BY DEF Provision, AfterCareIsCheckout, AfterCare, RowTyped, Row
  <1>2. \A u \in Tasks \ {t} : task'[u] = task[u]
    BY <1>1 DEF TaskTyped
  <1>3. /\ task'[t].pc = IF row.intent = "buy" THEN "buy" ELSE "attach"
        /\ task'[t].from = task[t].from
        /\ task'[t].buy = (row.intent = "buy") /\ task'[t].refund = (row.cost /\ row.sub)
    BY <1>1 DEF TaskTyped, Task
  <1>4. /\ row'.paid = row.paid /\ row'.status = row.status /\ row'.sub = row.sub /\ row'.kind = row.kind
        /\ row'.intent = row.intent /\ row'.cost = row.cost
        /\ (row.prepaid => row'.prepaid) /\ (row.intent = "buy" => row'.prepaid)
        /\ (HasDomain(row') <=> HasDomain(row))
        /\ \A u \in Tasks : u \in fresh' => u \in fresh
    BY <1>1 DEF Write, HasDomain, RowTyped, Row
  <1>5. /\ \A u \in Tasks : OfCheckout(u)' <=> OfCheckout(u)
        /\ \A u \in Tasks \ {t} : (Refundless(u)' <=> Refundless(u)) /\ (Buying(u)' <=> Buying(u))
    BY <1>2, <1>3 DEF OfCheckout, Buying, Refundless
  <1>6. Buying(t)' => row.intent = "buy"
    BY <1>3 DEF Buying, BuyPC
  <1>7. Refundless(t)' => ~(row.intent = "buy" /\ row.cost /\ row.sub)
    BY <1>3 DEF Refundless
  <1>8. PriceFollowsChoice' /\ PurchasedIsStored' /\ CheckoutIsPaid' /\ TwoMeansRetry'
    BY <1>4, <1>5 DEF PrepaidInv, PriceFollowsChoice, PurchasedIsStored, CheckoutIsPaid, TwoMeansRetry
  <1>9. DetachIsAlone' /\ ClearedIsRefunded'
    <2>1. task'[t].pc \notin {"detachSave", "clear"}
      BY <1>3
    <2>2. DetachIsAlone'
      BY <1>2, <1>4, <1>5, <2>1 DEF PrepaidInv, DetachIsAlone
    <2>3. ClearedIsRefunded'
      BY <1>1, <1>2, <1>5, <2>1 DEF PrepaidInv, ClearedIsRefunded
    <2> QED
      BY <2>2, <2>3
  <1>10. RefundlessIsAlone'
    <2> SUFFICES ASSUME NEW u \in Tasks, Refundless(u)'
                 PROVE  /\ \A v \in Tasks : v # u => ~OfCheckout(v)
                        /\ IF task'[u].buy THEN ~row.sub ELSE row.cost => HasDomain(row)
      BY <1>4, <1>5 DEF RefundlessIsAlone
    <2>1. CASE u # t
      BY <1>2, <1>5, <2>1 DEF PrepaidInv, RefundlessIsAlone
    <2>2. CASE u = t
      <3>1. (row.intent = "buy" => row.cost) /\ (row.intent = "byod" => ~row.cost)
        BY DEF PrepaidInv, PriceFollowsChoice
      <3>2. IF task'[t].buy THEN ~row.sub ELSE row.cost => HasDomain(row)
        BY <1>1, <1>3, <1>7, <2>2, <3>1
      <3>3. ~(row.sub /\ row.intent # "byod")
        BY <1>1, <1>7, <2>2, <3>1
      <3>4. \A v \in Tasks : v # t => ~OfCheckout(v)
        BY <1>1, <3>3 DEF PrepaidInv, TwoMeansRetry
      <3> QED
        BY <2>2, <3>2, <3>4
    <2> QED
      BY <2>1, <2>2
  <1>11. BuyingIsMarked'
    BY <1>1, <1>2, <1>3, <1>4, <1>5, <1>6 DEF PrepaidInv, BuyingIsMarked
  <1>12. StoredIsMarked'
    BY <1>4 DEF PrepaidInv, StoredIsMarked, PurchasedIsStored
  <1> QED
    BY <1>8, <1>9, <1>10, <1>11, <1>12 DEF PrepaidInv

\* What is cleared was given back, or is not of the checkout's.
LEMMA ClearKeepsPrepaid ==
  ASSUME DomainsInv, PrepaidInv, AfterCareIsCheckout, NEW t \in Tasks, ClearPrepaid(t)
  PROVE  PrepaidInv'
  <1> USE DEF DomainsInv, TypeInv
  <1>1. OfCheckout(t) /\ task[t].pc = "clear" /\ Done(t) /\ UNCHANGED <<origin, refunded>>
    BY DEF ClearPrepaid, AfterCareIsCheckout, AfterCare
  <1>2. CASE UNCHANGED <<row, fresh>>
    BY <1>1, <1>2, EndKeepsPrepaid
  <1>3. CASE Write([row EXCEPT !.prepaid = FALSE, !.intent = "none"])
    <2>1. TaskTyped' /\ (\A u \in Tasks \ {t} : task'[u] = task[u]) /\ task'[t] = IdleTask
      BY <1>1, DoneState
    <2>2. task'[t].pc = "idle" /\ ~OfCheckout(t)' /\ ~Buying(t)' /\ ~Refundless(t)'
      BY <2>1 DEF IdleTask, OfCheckout, Buying, Refundless
    <2>3. row' \in Row /\ fresh' = {}
      BY <1>3 DEF Write, RowTyped, Row
    <2>4. /\ row'.paid = row.paid /\ row'.status = row.status /\ row'.sub = row.sub /\ row'.kind = row.kind
          /\ row'.intent = "none" /\ row'.cost = row.cost
      BY <1>3 DEF Write, RowTyped, Row
    <2>5. refunded > 0 \/ (Refundless(t) /\ ~(row.kind = "purchased" /\ origin = "checkout"))
      BY <1>1 DEF PrepaidInv, ClearedIsRefunded, StoredIsMarked
    <2>6. HasDomain(row') <=> HasDomain(row)
      BY <2>4 DEF HasDomain
    <2> QED
      BY <1>1, <2>1, <2>2, <2>3, <2>4, <2>5, <2>6, RefundsAreCounted, MoveKeepsPrepaid
  <1> QED
    BY <1>2, <1>3 DEF ClearPrepaid

LEMMA ProvisionKeepsPrepaid ==
  ASSUME DomainsInv, PrepaidInv, AfterCareIsCheckout, NEW t \in Tasks,
         Provision(t) \/ ProvisionReturns(t) \/ ProvisionFailed(t) \/ Refund(t) \/ ClearPrepaid(t)
  PROVE  PrepaidInv'
  <1>1. CASE Provision(t)
    BY <1>1, MarkKeepsPrepaid, EndKeepsPrepaid DEF Provision
  <1>2. CASE ProvisionReturns(t)
    BY <1>2, EndKeepsPrepaid DEF ProvisionReturns
  <1>3. CASE ProvisionFailed(t)
    <2>1. CASE Done(t)
      BY <1>3, <2>1, EndKeepsPrepaid DEF ProvisionFailed
    <2>2. CASE UNCHANGED <<row, fresh>> /\ Goto(t, IF task[t].buy /\ task[t].refund THEN "refund" ELSE "clear")
      <3>1. OfCheckout(t) /\ ~(task[t].buy /\ task[t].refund) => Refundless(t)
        BY <1>3 DEF ProvisionFailed, Refundless
      <3> QED
        BY <1>3, <2>2, <3>1, GoKeepsPrepaid DEF ProvisionFailed, TaskPC, BuyPC
    <2> QED
      BY <1>3, <2>1, <2>2 DEF ProvisionFailed
  <1>4. CASE Refund(t)
    BY <1>4, GoKeepsPrepaid, RefundsAreCounted DEF Refund, TaskPC, BuyPC
  <1>5. CASE ClearPrepaid(t)
    BY <1>5, ClearKeepsPrepaid
  <1> QED
    BY <1>1, <1>2, <1>3, <1>4, <1>5

-----------------------------------------------------------------------------
(* BuyDomain, AttachDomain and DetachDomain. *)

LEMMA LoadKeepsPrepaid ==
  ASSUME DomainsInv, PrepaidInv, NEW t \in Tasks, BuyDomain(t) \/ RegisterDomain(t) \/ AttachDomain(t)
  PROVE  PrepaidInv'
  <1>1. /\ task[t].pc \in {"buy", "register", "attach"} /\ row' = row /\ UNCHANGED <<origin, refunded>>
        /\ \A u \in Tasks : u \in fresh' => u \in fresh \/ u = t
    BY DEF BuyDomain, RegisterDomain, AttachDomain, Load
  <1>2. CASE Fails(t) /\ fresh' = fresh
    BY <1>1, <1>2, FailsKeepsPrepaid
  <1>3. CASE Goto(t, "attachSave")
    BY <1>1, <1>3, GoKeepsPrepaid DEF TaskPC, BuyPC
  <1>4. CASE BuyDomain(t) /\ Goto(t, "register")
    BY <1>1, <1>4, GoKeepsPrepaid DEF TaskPC, BuyPC, BuyDomain
  <1>5. CASE RegisterDomain(t) /\ \E pc \in {"buySave", "claimSave"} : Goto(t, pc)
    BY <1>1, <1>5, GoKeepsPrepaid DEF TaskPC, BuyPC, RegisterDomain
  <1> QED
    BY <1>2, <1>3, <1>4, <1>5 DEF BuyDomain, RegisterDomain, AttachDomain

\* A run stores its domain and is done.
LEMMA StoreKeepsPrepaid ==
  ASSUME DomainsInv, PrepaidInv, NEW t \in Tasks, Done(t), fresh' = {}, refunded' = refunded, HasDomain(row'),
         row'.paid = row.paid, row'.sub = row.sub, row'.intent = "none", row'.prepaid = row.prepaid,
         row'.kind = "purchased" /\ origin' = "checkout" => Buying(t)
  PROVE  PrepaidInv'
  <1> USE DEF DomainsInv, TypeInv
  <1>1. (\A u \in Tasks \ {t} : task'[u] = task[u]) /\ task'[t] = IdleTask
    BY DoneState
  <1>2. task'[t].pc = "idle" /\ ~OfCheckout(t)' /\ ~Buying(t)' /\ ~Refundless(t)'
    BY <1>1 DEF IdleTask, OfCheckout, Buying, Refundless
  <1>3. \A u \in Tasks \ {t} : /\ OfCheckout(u)' <=> OfCheckout(u)
                               /\ Refundless(u)' <=> Refundless(u)
                               /\ Buying(u)' <=> Buying(u)
    BY <1>1 DEF OfCheckout, Buying, Refundless
  <1>4. PriceFollowsChoice' /\ PurchasedIsStored' /\ DetachIsAlone' /\ CheckoutIsPaid' /\ TwoMeansRetry'
    BY <1>2, <1>3 DEF PrepaidInv, PriceFollowsChoice, PurchasedIsStored, DetachIsAlone, CheckoutIsPaid, TwoMeansRetry
  <1>5. RefundlessIsAlone' /\ ClearedIsRefunded' /\ BuyingIsMarked'
    BY <1>1, <1>2, <1>3 DEF PrepaidInv, RefundlessIsAlone, ClearedIsRefunded, BuyingIsMarked
  <1>6. StoredIsMarked'
    <2> SUFFICES ASSUME row'.kind = "purchased", origin' = "checkout"
                 PROVE  (row.prepaid \/ refunded > 0) /\ \A u \in Tasks : ~Refundless(u)'
      BY DEF StoredIsMarked
    <2>1. Buying(t) /\ OfCheckout(t)
      BY DEF Buying
    <2>2. row.prepaid \/ refunded > 0
      BY <2>1 DEF PrepaidInv, BuyingIsMarked
    <2>3. \A u \in Tasks \ {t} : ~Refundless(u)
      BY <2>1 DEF PrepaidInv, RefundlessIsAlone
    <2> QED
      BY <1>2, <1>3, <2>2, <2>3
  <1> QED
    BY <1>4, <1>5, <1>6 DEF PrepaidInv

LEMMA SaveKeepsPrepaid ==
  ASSUME DomainsInv, PrepaidInv, NEW t \in Tasks, SaveBought(t) \/ SaveAttached(t)
  PROVE  PrepaidInv'
  <1> USE DEF DomainsInv, TypeInv
  <1>1. CASE t \in fresh /\ SaveBought(t)
    <2>1. Done(t) /\ fresh' = {} /\ refunded' = refunded /\ origin' = task[t].from
      BY <1>1 DEF SaveBought, Write
    <2>2. /\ HasDomain(row') /\ row'.paid = row.paid /\ row'.sub = row.sub /\ row'.intent = "none"
          /\ row'.prepaid = row.prepaid
      BY <1>1 DEF SaveBought, Write, Bought, HasDomain, RowTyped, Row
    <2>3. origin' = "checkout" => Buying(t)
      BY <1>1, <2>1 DEF SaveBought, Buying, OfCheckout, BuyPC
    <2> QED
      BY <2>1, <2>2, <2>3, StoreKeepsPrepaid
  <1>2. CASE t \in fresh /\ SaveAttached(t)
    <2>1. Done(t) /\ fresh' = {} /\ refunded' = refunded
      BY <1>2 DEF SaveAttached, Write
    <2>2. /\ HasDomain(row') /\ row'.paid = row.paid /\ row'.sub = row.sub /\ row'.intent = "none"
          /\ row'.prepaid = row.prepaid /\ row'.kind = "byod"
      BY <1>2 DEF SaveAttached, Write, HasDomain, RowTyped, Row
    <2> QED
      BY <2>1, <2>2, StoreKeepsPrepaid
  <1>3. CASE t \notin fresh
    <2>1. Fails(t) /\ UNCHANGED <<row, fresh, origin, refunded>> /\ task[t].pc \notin {"idle", "provision"}
      BY <1>3 DEF SaveBought, SaveAttached
    <2> QED
      BY <2>1, FailsKeepsPrepaid
  <1> QED
    BY <1>1, <1>2, <1>3

LEMMA RemoveKeepsPrepaid ==
  ASSUME DomainsInv, PrepaidInv, NEW t \in Tasks, SaveDetached(t)
  PROVE  PrepaidInv'
  <1> USE DEF DomainsInv, TypeInv
  <1>1. task[t].pc = "detachSave" /\ Done(t) /\ refunded' = refunded
    BY DEF SaveDetached
  <1>2. CASE t \notin fresh
    BY <1>1, <1>2, EndKeepsPrepaid DEF SaveDetached
  <1>3. CASE t \in fresh
    <2>1. \A u \in Tasks : ~OfCheckout(u)
      BY <1>1, <1>3 DEF PrepaidInv, DetachIsAlone
    <2>2. (\A u \in Tasks \ {t} : task'[u] = task[u]) /\ task'[t] = IdleTask
      BY <1>1, DoneState
    <2>3. \A u \in Tasks : ~OfCheckout(u)'
      BY <2>1, <2>2 DEF OfCheckout, IdleTask
    <2>4. fresh' = {} /\ row'.kind = "none" /\ row'.intent = "none"
      BY <1>3 DEF SaveDetached, Write, RowTyped, Row
    <2>5. PriceFollowsChoice' /\ PurchasedIsStored' /\ CheckoutIsPaid' /\ DetachIsAlone' /\ TwoMeansRetry'
      BY <2>3, <2>4 DEF PriceFollowsChoice, PurchasedIsStored, CheckoutIsPaid, DetachIsAlone, TwoMeansRetry
    <2>6. \A u \in Tasks : ~Refundless(u)' /\ ~Buying(u)'
      BY <2>3 DEF OfCheckout, Refundless, Buying
    <2>7. RefundlessIsAlone' /\ ClearedIsRefunded' /\ BuyingIsMarked' /\ StoredIsMarked'
      BY <2>3, <2>4, <2>6 DEF RefundlessIsAlone, ClearedIsRefunded, BuyingIsMarked, StoredIsMarked
    <2> QED
      BY <2>5, <2>7 DEF PrepaidInv
  <1> QED
    BY <1>2, <1>3

-----------------------------------------------------------------------------

\* What the induction carries: the row, the copies and the checkout's runs.
AllInv == DomainsInv /\ CopyIsStored /\ AfterCareIsCheckout /\ PrepaidInv

LEMMA PrepaidStep ==
  ASSUME AllInv, [Next]_vars
  PROVE  AllInv'
  <1> USE DEF AllInv
  <1>1. DomainsInv' /\ CopyIsStored' /\ AfterCareIsCheckout'
    BY InvStep, CopyStep, CareStep
  <1>2. CASE UNCHANGED vars
    <2>1. row \in Row /\ UNCHANGED <<row, fresh, task, origin, refunded>>
      BY <1>2 DEF vars, DomainsInv, TypeInv, RowTyped
    <2> QED
      BY <1>1, <2>1, StatusKeeps
  <1>3. CASE Next
    <2>1. CASE Subscribe \/ MarkPaid \/ FailDomain \/ Touch \/ Crash
      BY <1>1, <2>1, SubscribeKeepsPrepaid, OtherKeepsPrepaid, CrashKeepsPrepaid
    <2>2. ASSUME NEW t \in Tasks, \/ SubscriptionStarted(t) \/ Redrive(t) \/ RetryPaidDomain(t)
                                  \/ PressBuy(t) \/ PressAttach(t) \/ DetachDomain(t)
          PROVE  PrepaidInv'
      BY <2>2, FirstKeepsPrepaid, RetryKeepsPrepaid, PressKeepsPrepaid, DetachKeepsPrepaid
    <2>3. ASSUME NEW t \in Tasks, Provisioning(t) PROVE PrepaidInv'
      BY <2>3, ProvisionKeepsPrepaid, LoadKeepsPrepaid, SaveKeepsPrepaid, RemoveKeepsPrepaid DEF Provisioning
    <2>4. ASSUME NEW r \in Reconcilers, \/ Reconcile(r) \/ AdvanceRegistration(r) \/ EnsureDNS(r)
                                        \/ AdvanceCertificate(r) \/ Activate(r) \/ SaveActive(r)
          PROVE  PrepaidInv'
      BY <2>4, PassKeepsPrepaid
    <2> QED
      BY <1>1, <1>3, <2>1, <2>2, <2>3, <2>4 DEF Next
  <1> QED
    BY <1>1, <1>2, <1>3

\* The poller never bills ahead of the flag: a domain that the checkout's path
\* stored is flagged prepaid from its first save until it is detached, unless
\* the money went back (provisionDomainIntent's order of mark and purchase).
THEOREM CheckoutIsPrepaid == Spec => []CheckoutMeansPrepaid
  <1>1. Init => AllInv
    BY InitInv, PrepaidInit DEF AllInv, CopyIsStored, AfterCareIsCheckout, AfterCare, Init, IdleTask
  <1>2. AllInv => CheckoutMeansPrepaid
    BY DEF AllInv, PrepaidInv, StoredIsMarked, CheckoutMeansPrepaid
  <1> QED
    BY <1>1, <1>2, PrepaidStep, PTL DEF Spec
=============================================================================
