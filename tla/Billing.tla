------------------------------ MODULE Billing ------------------------------
(***************************************************************************)
(* A project's subscription: Stripe's checkouts and webhook events, the    *)
(* handlers SubscriptionStarted and SubscriptionEnded they call, the       *)
(* operator's manual marks, and the registrar's auto-renew switch, which   *)
(* the handlers keep in step with the payment on a best-effort basis.      *)
(*                                                                         *)
(* Stripe delivers at least once and retries until it is answered 200.     *)
(* `events' holds what it has not yet seen acknowledged, oldest first; a   *)
(* delivery takes one of the oldest Window of them.  With one handler and  *)
(* Window = 1 events arrive in order and one at a time, and are repeated   *)
(* only before the next one; larger values overlap and reorder them.       *)
(* A load followed at once by its versioned save is one step: it succeeds, *)
(* or it conflicts (500) and changes nothing.  A purchase of a domain      *)
(* loads the row, registers, and saves its copy; a handler switches        *)
(* auto-renew by the copy of the row it loaded first.                      *)
(***************************************************************************)
EXTENDS Naturals, Sequences, FiniteSets, SequencesExt

CONSTANTS
  Subs,           \* Stripe subscriptions, one per completed checkout
  NoSub,          \* the empty StripeSubID
  Handlers,       \* webhook deliveries in flight at once
  Window,         \* how far deliveries overtake each other
  MaxCrashes,     \* bound: process crashes or deploys
  Operator        \* whether the operator marks projects by hand

ASSUME BillingAssumption ==
  /\ NoSub \notin Subs
  /\ Window \in Nat \ {0}
  /\ MaxCrashes \in Nat
  /\ Operator \in BOOLEAN

VARIABLES
  row,        \* the projects row: paid, paid_via, stripe_sub_id, accepted, domain_kind
  checkout,   \* Stripe: how far each subscription has come
  events,     \* Stripe: unacknowledged events, oldest first
  handler,    \* the webhook requests being served
  buyer,      \* a purchase of a domain; "stale" once the row it loaded was saved by another
  renew,      \* the registrar: auto-renew of the project's purchased domain
  missed,     \* the switch did not follow the payment, and has not been set since
  announced,  \* how often the customer was told that a subscription is active
  crashes

vars == <<row, checkout, events, handler, buyer, renew, missed, announced, crashes>>

Row == [paid : BOOLEAN, via : {"none", "manual", "stripe"},
        sub : Subs \cup {NoSub}, accepted : BOOLEAN, kind : {"none", "purchased"}]

\* billing.Event: its type, the subscription, and payment_status = "paid".
Event == [type : {"completed", "async_succeeded", "async_failed", "deleted"},
          sub : Subs, paid : BOOLEAN]

PC == {"idle", "record", "markPaid", "renewOn", "accept",
       "end", "markUnpaid", "renewOff", "ok"}

\* A request: where it stands, its event, wasPaid of SubscriptionStarted, and the kind of
\* domain in the copy that SubscriptionStarted or SubscriptionEnded loaded.
Request == [pc : PC, event : Event, wasPaid : BOOLEAN, kind : {"none", "purchased"}]

TypeOK ==
  /\ row \in Row
  /\ checkout \in [Subs -> {"none", "open", "processing", "failed", "live", "ended"}]
  /\ events \in Seq(Event)
  /\ handler \in [Handlers -> [pc : {"idle"}] \cup Request]
  /\ buyer \in {"idle", "fresh", "stale"}
  /\ renew \in {"no domain", "on", "off"}
  /\ missed \in BOOLEAN
  /\ announced \in [Subs -> 0 .. 2]
  /\ crashes \in 0 .. MaxCrashes

Idle == [pc |-> "idle"]

Live == {s \in Subs : checkout[s] = "live"}

-----------------------------------------------------------------------------
(* The customer and Stripe. *)

Emit(type, s, paid) ==
  events' = Append(events, [type |-> type, sub |-> s, paid |-> paid])

Outside == UNCHANGED <<row, handler, buyer, renew, missed, announced, crashes>>

\* A customer goes through one checkout at a time, and comes back only after
\* the last one failed or its subscription ended.
Subscribe(s) ==
  /\ ~row.paid
  /\ checkout[s] = "none"
  /\ \A t \in Subs : checkout[t] \in {"none", "failed", "ended"}
  /\ checkout' = [checkout EXCEPT ![s] = "open"]
  /\ Outside /\ UNCHANGED events

\* Checkout completes settled, or with a payment method that settles later.
CompleteCheckout(s) ==
  /\ checkout[s] = "open"
  /\ \E paid \in BOOLEAN :
       /\ checkout' = [checkout EXCEPT ![s] = IF paid THEN "live" ELSE "processing"]
       /\ Emit("completed", s, paid)
  /\ Outside

SettlePayment(s) ==
  /\ checkout[s] = "processing"
  /\ \/ checkout' = [checkout EXCEPT ![s] = "live"] /\ Emit("async_succeeded", s, TRUE)
     \/ checkout' = [checkout EXCEPT ![s] = "failed"] /\ Emit("async_failed", s, FALSE)
  /\ Outside

\* The customer's portal, or Stripe after its last failed dunning attempt.
Cancel(s) ==
  /\ checkout[s] = "live"
  /\ checkout' = [checkout EXCEPT ![s] = "ended"]
  /\ Emit("deleted", s, FALSE)
  /\ Outside

\* The customer buys a domain: BuyDomain loads the paid row ...
BuyDomain ==
  /\ buyer = "idle"
  /\ row.paid /\ row.kind = "none"
  /\ buyer' = "fresh"
  /\ UNCHANGED <<row, checkout, events, handler, renew, missed, announced, crashes>>

\* ... registers, with auto-renew on, which is late when the payment has ended meanwhile ...
Register ==
  /\ buyer # "idle"
  /\ renew = "no domain"
  /\ renew' = "on"
  /\ missed' = (missed \/ ~row.paid)
  /\ UNCHANGED <<row, checkout, events, handler, buyer, announced, crashes>>

\* ... and saves the copy it loaded, with the domain, unless another save came first.
SaveDomain ==
  /\ buyer = "fresh" /\ renew # "no domain"
  /\ row' = [row EXCEPT !.kind = "purchased"]
  /\ buyer' = "idle"
  /\ UNCHANGED <<checkout, events, handler, renew, missed, announced, crashes>>

\* Not registered, not saved, or never answered.
BuyFails ==
  /\ buyer # "idle"
  /\ buyer' = "idle"
  /\ UNCHANGED <<row, checkout, events, handler, renew, missed, announced, crashes>>

\* A save of the row, by its version, overtakes a purchase that loaded it before.
Overtaken == buyer' = IF buyer = "fresh" THEN "stale" ELSE buyer

-----------------------------------------------------------------------------
(* handleStripeWebhook. *)

Step(h, pc) == handler' = [handler EXCEPT ![h].pc = pc]

\* Weakened: every completed checkout counts as paid.
HandledAnyPayment(e) ==
  CASE e.type \in {"completed", "async_succeeded"} -> "record"
    [] e.type = "deleted" -> "end"
    [] OTHER -> "ok"

\* The switch on the event's type.
Handled(e) ==
  CASE e.type = "completed" /\ e.paid -> "record"
    [] e.type = "async_succeeded" -> "record"
    [] e.type = "deleted" -> "end"
    [] OTHER -> "ok"

Deliver(h) ==
  /\ handler[h].pc = "idle"
  /\ \E i \in 1 .. Len(events) :
       /\ i <= Window
       /\ handler' = [handler EXCEPT ![h] =
            [pc |-> Handled(events[i]), event |-> events[i], wasPaid |-> FALSE, kind |-> "none"]]
  /\ UNCHANGED <<row, checkout, events, buyer, renew, missed, announced, crashes>>

\* Answered 200: Stripe drops the event, unless a repeated delivery of it was
\* answered before.
Acknowledge(h) ==
  /\ handler[h].pc = "ok"
  /\ handler' = [handler EXCEPT ![h] = Idle]
  /\ \/ \E i \in 1 .. Len(events) :
          events[i] = handler[h].event /\ events' = RemoveAt(events, i)
     \/ handler[h].event \notin Range(events) /\ UNCHANGED events
  /\ UNCHANGED <<row, checkout, buyer, renew, missed, announced, crashes>>

\* The answer never reached Stripe, which will deliver the event again.
LoseAnswer(h) ==
  /\ handler[h].pc = "ok"
  /\ handler' = [handler EXCEPT ![h] = Idle]
  /\ UNCHANGED <<row, checkout, events, buyer, renew, missed, announced, crashes>>

\* Weakened: a save lost to another writer is logged, and answered 200.
ConflictSwallowed(h) ==
  /\ handler[h].pc \in {"record", "markPaid", "markUnpaid"}
  /\ Step(h, "ok")
  /\ UNCHANGED <<row, checkout, events, buyer, renew, missed, announced, crashes>>

\* A save lost to another writer of the row: 500, and Stripe retries.
Conflict(h) ==
  /\ handler[h].pc \in {"record", "markPaid", "markUnpaid"}
  /\ handler' = [handler EXCEPT ![h] = Idle]
  /\ UNCHANGED <<row, checkout, events, buyer, renew, missed, announced, crashes>>

-----------------------------------------------------------------------------
(* SubscriptionStarted. *)

\* Weakened: replays are not recognised.
RecordEveryTime(h) ==
  LET s == handler[h].event.sub IN
  /\ handler[h].pc = "record"
  /\ row' = [row EXCEPT !.sub = s]
  /\ handler' = [handler EXCEPT ![h].pc = "markPaid", ![h].kind = row.kind]
  /\ Overtaken
  /\ UNCHANGED <<checkout, events, renew, missed, announced, crashes>>

\* A replay is recognised by the stored id; otherwise the id is saved.
Record(h) ==
  LET s == handler[h].event.sub IN
  /\ handler[h].pc = "record"
  /\ \/ /\ row.paid /\ row.sub = s
        /\ Step(h, "ok")
        /\ UNCHANGED <<row, buyer>>
     \/ /\ ~(row.paid /\ row.sub = s)
        /\ row' = [row EXCEPT !.sub = s]
        /\ handler' = [handler EXCEPT ![h].pc = "markPaid", ![h].wasPaid = row.paid,
                                      ![h].kind = row.kind]
        /\ Overtaken
  /\ UNCHANGED <<checkout, events, renew, missed, announced, crashes>>

\* MarkPaid(projectID, "stripe"): it reloads, and leaves a paid project alone.
MarkPaid(h) ==
  /\ handler[h].pc = "markPaid"
  /\ \/ row.paid /\ UNCHANGED <<row, buyer>>
     \/ ~row.paid /\ row' = [row EXCEPT !.paid = TRUE, !.via = "stripe"] /\ Overtaken
  /\ Step(h, "renewOn")
  /\ UNCHANGED <<checkout, events, renew, missed, announced, crashes>>

\* A registered domain whose switch a request has still to turn.
Owed(h) ==
  \/ handler[h].pc = "renewOn"  /\ renew = "off"
  \/ handler[h].pc = "renewOff" /\ renew = "on"

\* setDomainAutoRenew(p, on), by the copy p loaded at the start: without a domain in it, the
\* registrar is not asked; its error, which may come after the switch was turned, is logged.
\* Nothing repeats the call.
SetDomainAutoRenew(h, on) ==
  \/ handler[h].kind = "purchased" /\ renew' = on /\ missed' = FALSE
  \/ handler[h].kind = "purchased" /\ renew' \in {renew, on} /\ missed' = TRUE
  \/ handler[h].kind = "none" /\ renew' = renew /\ missed' = (missed \/ Owed(h))

RenewOn(h) ==
  /\ handler[h].pc = "renewOn"
  /\ SetDomainAutoRenew(h, "on")
  /\ Step(h, IF handler[h].wasPaid THEN "ok" ELSE "accept")
  /\ UNCHANGED <<row, checkout, events, buyer, announced, crashes>>

\* Paying is accepting, unless the save conflicts; then the e-mails go out.
Accept(h) ==
  /\ handler[h].pc = "accept"
  /\ \/ row' = [row EXCEPT !.accepted = TRUE] /\ Overtaken
     \/ UNCHANGED <<row, buyer>>
  /\ announced' = [announced EXCEPT ![handler[h].event.sub] =
                     IF @ < 2 THEN @ + 1 ELSE @]
  /\ Step(h, "ok")
  /\ UNCHANGED <<checkout, events, renew, missed, crashes>>

-----------------------------------------------------------------------------
(* SubscriptionEnded. *)

\* The row is loaded, and the stored id compared, here ...
End(h) ==
  /\ handler[h].pc = "end"
  /\ \/ /\ row.paid /\ row.sub = handler[h].event.sub
        /\ handler' = [handler EXCEPT ![h].pc = "markUnpaid", ![h].kind = row.kind]
     \/ /\ ~(row.paid /\ row.sub = handler[h].event.sub)
        /\ Step(h, "ok")
  /\ UNCHANGED <<row, checkout, events, buyer, renew, missed, announced, crashes>>

\* ... and MarkUnpaid reloads the row and clears it, whatever it now says.
MarkUnpaid(h) ==
  /\ handler[h].pc = "markUnpaid"
  /\ row' = [row EXCEPT !.paid = FALSE, !.via = "none"]
  /\ Overtaken
  /\ Step(h, "renewOff")
  /\ UNCHANGED <<checkout, events, renew, missed, announced, crashes>>

\* Weakened: an ended subscription leaves auto-renew as it is.
RenewOffForgotten(h) ==
  /\ handler[h].pc = "renewOff"
  /\ Step(h, "ok")
  /\ UNCHANGED <<row, checkout, events, buyer, renew, missed, announced, crashes>>

RenewOff(h) ==
  /\ handler[h].pc = "renewOff"
  /\ SetDomainAutoRenew(h, "off")
  /\ Step(h, "ok")
  /\ UNCHANGED <<row, checkout, events, buyer, announced, crashes>>

-----------------------------------------------------------------------------
(* The operator's marks, and crashes. *)

\* Weakened: the column gets a word of its own.
MarkPaidAsComp ==
  /\ Operator /\ ~row.paid
  /\ row' = [row EXCEPT !.paid = TRUE, !.via = "comp"]
  /\ Overtaken
  /\ UNCHANGED <<checkout, events, handler, renew, missed, announced, crashes>>

\* handleAdminMarkPaid: a comp.
MarkPaidByHand ==
  /\ Operator /\ ~row.paid
  /\ row' = [row EXCEPT !.paid = TRUE, !.via = "manual"]
  /\ Overtaken
  /\ UNCHANGED <<checkout, events, handler, renew, missed, announced, crashes>>

\* handleAdminMarkUnpaid: a comp taken back, from a project nobody subscribed.  It does not
\* touch the switch.
MarkUnpaidByHand ==
  /\ Operator /\ row.via = "manual"
  /\ \A s \in Subs : checkout[s] \in {"none", "failed", "ended"}
  /\ events = <<>>
  /\ row' = [row EXCEPT !.paid = FALSE, !.via = "none"]
  /\ Overtaken
  /\ missed' = (missed \/ renew = "on")
  /\ UNCHANGED <<checkout, events, handler, renew, announced, crashes>>

\* The requests die with the process; Stripe keeps their events, but a retry does not turn
\* the switch again.
Crash ==
  /\ crashes < MaxCrashes
  /\ crashes' = crashes + 1
  /\ handler' = [h \in Handlers |-> Idle]
  /\ buyer' = "idle"
  /\ missed' = (missed \/ \E h \in Handlers : Owed(h))
  /\ UNCHANGED <<row, checkout, events, renew, announced>>

\* A project with a preview nobody has paid for.
Init ==
  /\ row = [paid |-> FALSE, via |-> "none", sub |-> NoSub, accepted |-> FALSE,
            kind |-> "none"]
  /\ checkout = [s \in Subs |-> "none"]
  /\ events = <<>>
  /\ handler = [h \in Handlers |-> Idle]
  /\ buyer = "idle"
  /\ renew = "no domain"
  /\ missed = FALSE
  /\ announced = [s \in Subs |-> 0]
  /\ crashes = 0

Next ==
  \/ \E s \in Subs : Subscribe(s) \/ CompleteCheckout(s) \/ SettlePayment(s) \/ Cancel(s)
  \/ BuyDomain \/ Register \/ SaveDomain \/ BuyFails
  \/ \E h \in Handlers :
       \/ Deliver(h) \/ Acknowledge(h) \/ LoseAnswer(h) \/ Conflict(h)
       \/ Record(h) \/ MarkPaid(h) \/ RenewOn(h) \/ Accept(h)
       \/ End(h) \/ MarkUnpaid(h) \/ RenewOff(h)
  \/ MarkPaidByHand \/ MarkUnpaidByHand \/ Crash

Spec == Init /\ [][Next]_vars

\* Stripe keeps delivering, requests run, and a repeated request is not lost
\* to a conflict, nor its answer on the way, every single time.
Fairness ==
  \A h \in Handlers :
    /\ WF_vars(Deliver(h)) /\ SF_vars(Acknowledge(h))
    /\ SF_vars(Record(h)) /\ SF_vars(MarkPaid(h))
    /\ WF_vars(RenewOn(h)) /\ WF_vars(Accept(h))
    /\ WF_vars(End(h)) /\ SF_vars(MarkUnpaid(h)) /\ WF_vars(RenewOff(h))

FairSpec == Spec /\ Fairness

-----------------------------------------------------------------------------
(* Properties. *)

\* All of Stripe's events are acknowledged and no request is being served.
Quiet == events = <<>> /\ \A h \in Handlers : handler[h].pc = "idle"

\* A project is paid by subscription only when that subscription's payment has
\* settled: a checkout that completed unpaid unlocks nothing (the gate on
\* payment_status in handleStripeWebhook).
PaidMeansSettled ==
  row.via = "stripe" => row.paid /\ row.sub # NoSub /\ checkout[row.sub] \in {"live", "ended"}

\* Once every event is handled, whatever crashed, conflicted or came twice on
\* the way, a live subscription means a paid project, and a project paid by
\* subscription has a live one.
QuietMeansInStep ==
  Quiet => /\ Live # {} => row.paid
           /\ row.via = "stripe" => row.sub \in Live

\* A cancellation never un-pays the subscription that is live now (the guard
\* that SubscriptionEnded's comment promises against stale deletes).
StaleDeleteIsHarmless ==
  [][row.paid /\ ~row'.paid => row.sub \notin Live]_vars

\* Nobody is told twice that the same subscription is active: replays, retries
\* after a crash and repeated deliveries are silent (SubscriptionStarted).
AnnouncedOnce == \A s \in Subs : announced[s] <= 1

\* Once every event is handled, a registered domain renews itself exactly while its project
\* is paid: nobody's domain lapses while they subscribe, and nobody's is paid for after they
\* stop (setDomainAutoRenew).  The call is made once and by best effort, so the property
\* excuses the cases it cannot repair: the registrar's error, a crash before the call, a
\* domain that is saved after the handler loaded the row or is registered after the payment
\* ended, and the operator's marks, which never make the call.
RenewalFollowsPayment ==
  Quiet /\ ~missed /\ renew # "no domain" /\ row.via # "manual" => (renew = "on") = row.paid

\* A settled subscription makes the project paid, or has been cancelled again.
PaymentArrives == \A s \in Subs : checkout[s] = "live" ~> (row.paid \/ checkout[s] # "live")
=============================================================================
