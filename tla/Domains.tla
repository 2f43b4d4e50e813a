------------------------------ MODULE Domains ------------------------------
(***************************************************************************)
(* A project's custom domain (internal/orchestrator/domains.go): chosen on *)
(* the subscribe form and provisioned once the payment settles, or bought  *)
(* or attached on the project page, then carried to `active' by reconcile  *)
(* passes (the poller, the Verify button, a background kick).  The model   *)
(* keeps the row, what our registrar account holds, and the customer's     *)
(* money: what the checkout charged, what was refunded, what was invoiced. *)
(*                                                                         *)
(* As in Pipeline, a copy of the row is worth keeping only while no other  *)
(* write bumps its version: `fresh' is the set of actors whose copy still  *)
(* has it.  A load followed at once by its save is one step.  The choice   *)
(* between one purchasable name and one name of the customer's own stands  *)
(* for all hostnames.                                                      *)
(***************************************************************************)
EXTENDS Naturals, FiniteSets

CONSTANTS
  Tasks,          \* requests and goroutines that provision, attach or detach
  Reconcilers,    \* reconcile passes at work at once
  MaxCrashes,     \* bound: process crashes or deploys
  MaxMoney        \* refunds and invoice items are counted up to here

ASSUME DomainsAssumption ==
  /\ Tasks \cap Reconcilers = {}
  /\ MaxCrashes \in Nat
  /\ MaxMoney \in Nat \ {0}

VARIABLES
  row,        \* the domain columns of the projects row, and paid
  fresh,      \* actors whose copy of the row has its current version
  session,    \* the customer's open Stripe checkout
  task,       \* provisionDomainIntent, BuyDomain, AttachDomain, DetachDomain
  pass,       \* reconcileDomain
  owned,      \* the registrar: our account holds the domain
  charged,    \* Stripe: the checkout's domain line item was paid
  refunded,   \* Stripe: refunds made, or handed to the operator to make
  invoiced,   \* Stripe: AddInvoiceItem calls for the registration
  origin,     \* which path stored the domain now attached
  crashes

vars == <<row, fresh, session, task, pass, owned, charged, refunded, invoiced, origin, crashes>>

Pending == {"registering", "pending_dns", "verifying"}
DomainStatus == Pending \cup {"none", "active", "failed"}

\* cost: DomainCostOre > 0.   sub: StripeSubID and StripeCustomerID are set.
\* intent: DomainIntent with DomainIntentBuy.
Row == [paid : BOOLEAN, sub : BOOLEAN, status : DomainStatus,
        kind : {"none", "byod", "purchased"}, intent : {"none", "byod", "buy"},
        prepaid : BOOLEAN, cost : BOOLEAN]

HasDomain(r) == r.status # "none"

\* Every project with a domain choice has a preview.
CanAttachDomain(r) == r.paid /\ ~HasDomain(r)

TaskPC == {"idle", "provision", "buy", "register", "buySave", "claimSave",
           "attach", "attachSave", "failed", "refund", "clear", "detachSave"}
PassPC == {"idle", "reconcile", "dns", "activate"}

\* from: the checkout's intent, or a button on the project page.
Task == [pc : TaskPC, from : {"checkout", "page"}, buy : BOOLEAN, refund : BOOLEAN]
Pass == [pc : PassPC, copy : Row]

NoDomain == [paid |-> FALSE, sub |-> FALSE, status |-> "none", kind |-> "none",
             intent |-> "none", prepaid |-> FALSE, cost |-> FALSE]
IdleTask == [pc |-> "idle", from |-> "page", buy |-> FALSE, refund |-> FALSE]
IdlePass == [pc |-> "idle", copy |-> NoDomain]

TypeOK ==
  /\ row \in Row
  /\ fresh \subseteq Tasks \cup Reconcilers
  /\ session \in {"none", "plain", "bundle"}
  /\ task \in [Tasks -> Task]
  /\ pass \in [Reconcilers -> Pass]
  /\ owned \in BOOLEAN
  /\ charged \in BOOLEAN
  /\ refunded \in 0 .. MaxMoney
  /\ invoiced \in 0 .. MaxMoney
  /\ origin \in {"none", "checkout", "page"}
  /\ crashes \in 0 .. MaxCrashes

-----------------------------------------------------------------------------
(* Building blocks. *)

Write(r)   == row' = r /\ fresh' = {}
Save(a, r) == row' = r /\ fresh' = {a}
Load(a)    == fresh' = fresh \cup {a} /\ UNCHANGED row

One(n) == IF n < MaxMoney THEN n + 1 ELSE n

Goto(t, pc) == task' = [task EXCEPT ![t].pc = pc]
Done(t)     == task' = [task EXCEPT ![t] = IdleTask]
Start(t, pc, from, buy) ==
  /\ task[t].pc = "idle"
  /\ task' = [task EXCEPT ![t] = [pc |-> pc, from |-> from, buy |-> buy, refund |-> FALSE]]

NoTask  == UNCHANGED <<task, session, charged, refunded, origin, crashes>>
NoPass  == UNCHANGED <<pass, session, charged, invoiced, crashes>>
Request == UNCHANGED <<pass, owned, refunded, invoiced, crashes>>

ClearIntent == [row EXCEPT !.intent = "none"]

\* A failed Buy or Attach: the page reports it, the checkout's goroutine
\* goes on to find out whether the money must go back.
Fails(t) == IF task[t].from = "checkout" THEN Goto(t, "failed") ELSE Done(t)

-----------------------------------------------------------------------------
(* Before and at the payment. *)

\* handleSubscribe, with SetDomainIntent: the choice is saved, then Stripe is
\* asked for a session (and may fail).  Only a choice to buy captures a price;
\* a name of the customer's own zeroes it, and no choice leaves it.  Bound: the
\* customer pays the last session opened, never an older one in another tab.
Subscribe ==
  /\ ~row.paid
  /\ \E choice \in {"none", "byod", "buy"} :
       /\ Write([row EXCEPT !.intent = choice,
                            !.cost = CASE choice = "buy"  -> TRUE
                                       [] choice = "byod" -> FALSE
                                       [] OTHER           -> row.cost])
       /\ session' \in {session, IF choice = "buy" THEN "bundle" ELSE "plain"}
       /\ session' = "none" \/ (session' = "bundle") = (choice = "buy")
  /\ Request /\ UNCHANGED <<task, charged, origin>>

\* SubscriptionStarted, once the session's payment settled.
SubscriptionStarted(t) ==
  /\ ~row.paid /\ session # "none"
  /\ Write([row EXCEPT !.paid = TRUE, !.sub = TRUE])
  /\ charged' = (session = "bundle")
  /\ session' = "none"
  /\ Start(t, "provision", "checkout", row.intent = "buy")
  /\ Request /\ UNCHANGED origin

\* The operator comps a project whose owner is not at the checkout.
MarkPaid ==
  /\ ~row.paid /\ session = "none"
  /\ Write([row EXCEPT !.paid = TRUE])
  /\ Request /\ UNCHANGED <<task, session, charged, origin>>

\* Reap, ten quiet minutes after the row last changed: by then the run the
\* payment started has ended or died.
Redrive(t) ==
  /\ row.paid /\ row.intent # "none" /\ ~HasDomain(row)
  /\ \A u \in Tasks : task[u].from = "page"
  /\ Start(t, "provision", "checkout", row.intent = "buy")
  /\ UNCHANGED <<row, fresh, session, charged, origin>> /\ Request

\* The operator's retry of a bundled domain that failed.
RetryPaidDomain(t) ==
  /\ CanAttachDomain(row) /\ row.cost /\ row.sub
  /\ Write([row EXCEPT !.intent = "buy"])
  /\ Start(t, "provision", "checkout", TRUE)
  /\ Request /\ UNCHANGED <<session, charged, origin>>

-----------------------------------------------------------------------------
(* provisionDomainIntent. *)

\* Weakened: the domain is registered first and marked prepaid afterwards.
ProvisionUnmarked(t) ==
  /\ task[t].pc = "provision"
  /\ row.intent # "none" /\ ~HasDomain(row)
  /\ task' = [task EXCEPT ![t].pc = IF row.intent = "buy" THEN "buy" ELSE "attach",
                          ![t].buy = row.intent = "buy",
                          ![t].refund = row.cost /\ row.sub]
  /\ UNCHANGED <<row, fresh, owned, refunded, origin>> /\ NoPass

\* It marks the domain prepaid before anything is registered; the mark's save
\* may conflict, which leaves the intent for the reaper.
Provision(t) ==
  /\ task[t].pc = "provision"
  /\ \/ /\ row.intent # "none" /\ HasDomain(row)
        /\ Write(ClearIntent)
        /\ Done(t)
     \/ /\ row.intent # "none" /\ ~HasDomain(row)
        /\ IF row.intent = "buy" /\ ~row.prepaid
           THEN Write([row EXCEPT !.prepaid = TRUE]) ELSE UNCHANGED <<row, fresh>>
        /\ task' = [task EXCEPT ![t].pc = IF row.intent = "buy" THEN "buy" ELSE "attach",
                                ![t].buy = row.intent = "buy",
                                ![t].refund = row.cost /\ row.sub]
  /\ UNCHANGED <<owned, refunded, origin>> /\ NoPass

\* No intent, or a save lost to another writer: left to the reaper.
ProvisionReturns(t) ==
  /\ task[t].pc = "provision"
  /\ \/ row.intent = "none"
     \/ HasDomain(row)
     \/ row.intent = "buy" /\ ~row.prepaid
  /\ Done(t)
  /\ UNCHANGED <<row, fresh, owned, refunded, origin>> /\ NoPass

\* Weakened: a failure clears the intent and gives no money back.
ProvisionGivesUp(t) ==
  /\ task[t].pc = "failed"
  /\ Goto(t, "clear")
  /\ UNCHANGED <<row, fresh, owned, refunded, origin>> /\ NoPass

\* The reload after an error: another run may have attached the domain.
ProvisionFailed(t) ==
  /\ task[t].pc = "failed"
  /\ \/ /\ HasDomain(row)
        /\ Write(ClearIntent) \/ UNCHANGED <<row, fresh>>
        /\ Done(t)
     \/ /\ ~HasDomain(row)
        /\ Goto(t, IF task[t].buy /\ task[t].refund THEN "refund" ELSE "clear")
        /\ UNCHANGED <<row, fresh>>
  /\ UNCHANGED <<owned, refunded, origin>> /\ NoPass

\* RefundSubscriptionCharge, or the operator's e-mail to make it by hand.
Refund(t) ==
  /\ task[t].pc = "refund"
  /\ refunded' = One(refunded)
  /\ Goto(t, "clear")
  /\ UNCHANGED <<row, fresh, owned, origin>> /\ NoPass

\* The last save is best effort.
ClearPrepaid(t) ==
  /\ task[t].pc = "clear"
  /\ Write([row EXCEPT !.prepaid = FALSE, !.intent = "none"]) \/ UNCHANGED <<row, fresh>>
  /\ Done(t)
  /\ UNCHANGED <<owned, refunded, origin>> /\ NoPass

-----------------------------------------------------------------------------
(* BuyDomain, AttachDomain and DetachDomain. *)

PressBuy(t) ==
  /\ CanAttachDomain(row)
  /\ Start(t, "buy", "page", TRUE)
  /\ UNCHANGED <<row, fresh, session, charged, origin>> /\ Request

PressAttach(t) ==
  /\ CanAttachDomain(row)
  /\ Start(t, "attach", "page", FALSE)
  /\ UNCHANGED <<row, fresh, session, charged, origin>> /\ Request

\* BuyDomain's own load and guard.
BuyDomain(t) ==
  /\ task[t].pc = "buy"
  /\ IF CanAttachDomain(row) THEN Load(t) /\ Goto(t, "register")
                             ELSE Fails(t) /\ UNCHANGED <<row, fresh>>
  /\ UNCHANGED <<owned, refunded, origin>> /\ NoPass

\* Weakened: an order that is still open counts as placed.
RegisterHopefully(t) ==
  /\ task[t].pc = "register"
  /\ \/ Goto(t, "buySave") /\ owned' \in {owned, TRUE}
     \/ Fails(t) /\ UNCHANGED owned
  /\ UNCHANGED <<row, fresh, refunded, origin>> /\ NoPass

\* CheckDomains and RegisterDomain.  A domain we hold is claimed, not bought
\* again; one we do not may be taken, too dear, refused, or registered, with or
\* without the answer arriving.
RegisterDomain(t) ==
  /\ task[t].pc = "register"
  /\ \/ owned' = TRUE /\ Goto(t, IF owned THEN "claimSave" ELSE "buySave")
     \/ owned' \in {owned, TRUE} /\ Fails(t)
  /\ UNCHANGED <<row, fresh, refunded, origin>> /\ NoPass

Bought(t) == [row EXCEPT !.status = "registering", !.kind = "purchased", !.intent = "none",
                         !.cost = task[t].pc = "buySave" \/ row.cost]

\* Weakened: the last writer wins.
SaveBoughtBlindly(t) ==
  /\ task[t].pc \in {"buySave", "claimSave"}
  /\ Write(Bought(t))
  /\ origin' = task[t].from
  /\ Done(t)
  /\ UNCHANGED <<owned, refunded>> /\ NoPass

\* The offer's price is captured; a claimed domain has none and keeps what was
\* captured before.
SaveBought(t) ==
  /\ task[t].pc \in {"buySave", "claimSave"}
  /\ IF t \in fresh
     THEN Write(Bought(t)) /\ origin' = task[t].from /\ Done(t)
     ELSE Fails(t) /\ UNCHANGED <<row, fresh, origin>>
  /\ UNCHANGED <<owned, refunded>> /\ NoPass

\* AttachDomain's load and guard, then AddCertificate.
AttachDomain(t) ==
  /\ task[t].pc = "attach"
  /\ \/ CanAttachDomain(row) /\ Load(t) /\ Goto(t, "attachSave")
     \/ Fails(t) /\ UNCHANGED <<row, fresh>>
  /\ UNCHANGED <<owned, refunded, origin>> /\ NoPass

SaveAttached(t) ==
  /\ task[t].pc = "attachSave"
  /\ IF t \in fresh
     THEN /\ Write([row EXCEPT !.status = "pending_dns", !.kind = "byod", !.intent = "none"])
          /\ origin' = task[t].from
          /\ Done(t)
     ELSE Fails(t) /\ UNCHANGED <<row, fresh, origin>>
  /\ UNCHANGED <<owned, refunded>> /\ NoPass

\* Load, then the certificate and the registrar's auto-renew switch.  Bound:
\* nobody attaches a domain and removes it again within the seconds that the
\* checkout's own run takes.
DetachDomain(t) ==
  /\ HasDomain(row)
  /\ \A u \in Tasks : task[u].from = "page"
  /\ Start(t, "detachSave", "page", FALSE)
  /\ Load(t)
  /\ UNCHANGED <<session, charged, origin>> /\ Request

SaveDetached(t) ==
  /\ task[t].pc = "detachSave"
  /\ IF t \in fresh
     THEN /\ Write([row EXCEPT !.status = "none", !.kind = "none", !.intent = "none",
                               !.prepaid = FALSE, !.cost = FALSE])
          /\ origin' = "none"
     ELSE UNCHANGED <<row, fresh, origin>>
  /\ Done(t)
  /\ UNCHANGED <<owned, refunded>> /\ NoPass

-----------------------------------------------------------------------------
(* reconcileDomain. *)

At(r, pc)  == pass' = [pass EXCEPT ![r].pc = pc]
EndPass(r) == pass' = [pass EXCEPT ![r] = IdlePass]

Reconcile(r) ==
  /\ pass[r].pc = "idle"
  /\ row.status \in Pending
  /\ Load(r)
  /\ pass' = [pass EXCEPT ![r] = [pc |-> "reconcile", copy |-> row]]
  /\ UNCHANGED <<owned, invoiced>> /\ NoTask

\* Weakened: a status the column does not know.
FailStuckDomain ==
  /\ row.status \in Pending
  /\ Write([row EXCEPT !.status = "stuck"])
  /\ UNCHANGED <<pass, owned, invoiced>> /\ NoTask

\* Three days in flight: failed, for the operator to look at.
FailDomain ==
  /\ row.status \in Pending
  /\ Write([row EXCEPT !.status = "failed"])
  /\ UNCHANGED <<pass, owned, invoiced>> /\ NoTask

\* advanceRegistration and provisionPurchased up to the save that precedes the
\* DNS writes; the registrar may not answer, or the zone not exist yet.
AdvanceRegistration(r) ==
  /\ pass[r].pc = "reconcile" /\ pass[r].copy.status = "registering"
  /\ \/ owned /\ r \in fresh /\ Save(r, row) /\ At(r, "dns")
     \/ EndPass(r) /\ UNCHANGED <<row, fresh>>
  /\ UNCHANGED <<owned, invoiced>> /\ NoTask

\* The DNS writes and the save that follows; either may fail.
EnsureDNS(r) ==
  /\ pass[r].pc = "dns"
  /\ \/ r \in fresh /\ Write([row EXCEPT !.status = "verifying"])
     \/ UNCHANGED <<row, fresh>>
  /\ EndPass(r)
  /\ UNCHANGED <<owned, invoiced>> /\ NoTask

\* advanceCertificate short of activation: DNS seen, or nothing new.
AdvanceCertificate(r) ==
  /\ pass[r].pc = "reconcile" /\ pass[r].copy.status \in {"pending_dns", "verifying"}
  /\ \/ /\ r \in fresh /\ pass[r].copy.status = "pending_dns"
        /\ Write([row EXCEPT !.status = "verifying"])
     \/ UNCHANGED <<row, fresh>>
  /\ EndPass(r)
  /\ UNCHANGED <<owned, invoiced>> /\ NoTask

\* activateDomain bills by the copy it was given, then saves.  The copy was
\* loaded in flight, so its DomainVerifiedAt guard never stops it here.
Activate(r) ==
  LET c == pass[r].copy
      billed == c.kind = "purchased" /\ ~c.prepaid /\ c.sub /\ c.cost
  IN
  /\ pass[r].pc = "reconcile" /\ c.status \in {"pending_dns", "verifying"}
  /\ invoiced' \in {invoiced, IF billed THEN One(invoiced) ELSE invoiced}
  /\ At(r, "activate")
  /\ UNCHANGED <<row, fresh, owned>> /\ NoTask

SaveActive(r) ==
  /\ pass[r].pc = "activate"
  /\ IF r \in fresh THEN Write([row EXCEPT !.status = "active"]) ELSE UNCHANGED <<row, fresh>>
  /\ EndPass(r)
  /\ UNCHANGED <<owned, invoiced>> /\ NoTask

-----------------------------------------------------------------------------

\* Any other write of the row: the pipeline, the customer's content edits.
Touch ==
  /\ fresh # {}
  /\ Write(row)
  /\ UNCHANGED <<pass, owned, invoiced>> /\ NoTask

Crash ==
  /\ crashes < MaxCrashes
  /\ crashes' = crashes + 1
  /\ task' = [t \in Tasks |-> IdleTask]
  /\ pass' = [r \in Reconcilers |-> IdlePass]
  /\ fresh' = {}
  /\ UNCHANGED <<row, session, owned, charged, refunded, invoiced, origin>>

Init ==
  /\ row = NoDomain
  /\ fresh = {} /\ session = "none"
  /\ task = [t \in Tasks |-> IdleTask]
  /\ pass = [r \in Reconcilers |-> IdlePass]
  /\ owned = FALSE
  /\ charged = FALSE /\ refunded = 0 /\ invoiced = 0
  /\ origin = "none"
  /\ crashes = 0

Provisioning(t) ==
  \/ Provision(t) \/ ProvisionReturns(t) \/ ProvisionFailed(t) \/ Refund(t) \/ ClearPrepaid(t)
  \/ BuyDomain(t) \/ RegisterDomain(t) \/ SaveBought(t)
  \/ AttachDomain(t) \/ SaveAttached(t) \/ SaveDetached(t)

Next ==
  \/ Subscribe \/ MarkPaid \/ FailDomain \/ Touch \/ Crash
  \/ \E t \in Tasks :
       \/ SubscriptionStarted(t) \/ Redrive(t) \/ RetryPaidDomain(t)
       \/ PressBuy(t) \/ PressAttach(t) \/ DetachDomain(t)
       \/ Provisioning(t)
  \/ \E r \in Reconcilers :
       \/ Reconcile(r) \/ AdvanceRegistration(r) \/ EnsureDNS(r)
       \/ AdvanceCertificate(r) \/ Activate(r) \/ SaveActive(r)

Spec == Init /\ [][Next]_vars

\* Goroutines run, the reaper ticks, and a mark is not lost to a conflict
\* every single time.
FairSpec ==
  /\ Spec
  /\ \A t \in Tasks : WF_vars(Provisioning(t)) /\ SF_vars(Redrive(t)) /\ SF_vars(Provision(t))

-----------------------------------------------------------------------------
(* Properties. *)

\* A domain is never replaced under the customer: however buys, attaches,
\* retries and re-drives overlap, one wins and only a detach makes room for
\* the next (provisionDomainIntent: "makes a concurrent double-fire safe").
AttachedIsKept ==
  [][HasDomain(row) /\ HasDomain(row') => row'.kind = row.kind /\ origin' = origin]_vars

\* A domain stored by the checkout's path is flagged prepaid from the start
\* and stays so until it is detached, unless the money went back: the poller
\* cannot bill ahead of the flag (provisionDomainIntent).
CheckoutMeansPrepaid ==
  row.kind = "purchased" /\ origin = "checkout" /\ refunded = 0 => row.prepaid

\* A purchased domain on the row is one our registrar account holds.
PurchasedIsOwned == row.kind = "purchased" => owned

\* The domain the checkout charged for: bought, and not to be invoiced again.
Fulfilled == row.kind = "purchased" /\ row.prepaid

\* A customer charged for a domain at checkout gets that domain, or the money back,
\* whatever fails, crashes or conflicts (Reap: "must get their domain or a refund"), unless a
\* domain is put on the project with the page's buttons before: that save clears the choice
\* and with it the charge from everybody's sight.
DomainOrRefund ==
  charged /\ row.intent = "buy" ~> Fulfilled \/ refunded > 0 \/ origin = "page"

\* The same without the exception, as the comment in Reap has it.
PaidDomainOrRefund == charged /\ row.intent = "buy" ~> Fulfilled \/ refunded > 0

\* What the operator's retry guards against: a purchased domain flagged as
\* already paid, for which the checkout never charged or was refunded.
PrepaidWasPaid ==
  row.kind = "purchased" /\ row.prepaid /\ row.sub => charged /\ refunded = 0

\* One registration is invoiced once, however many passes see it activate
\* (activateDomain: "replays don't re-bill").
InvoicedOnce == invoiced <= 1
=============================================================================
