---------------------------- MODULE BillingProofs ----------------------------
(***************************************************************************)
(* Theorems of Billing for every number of subscriptions, deliveries and   *)
(* crashes, and for every Window: in whatever order events overtake one    *)
(* another and however often they come.  PaidMeansSettled rests on what an *)
(* event tells for good: a subscription whose payment has settled stays    *)
(* settled, live or ended, so an event that said so remains true while it  *)
(* waits, is served, is repeated and after its id is stored.               *)
(* The second half is about deliveries in order, one at a time: what else  *)
(* the row, the announcements and auto-renew owe to the events.            *)
(***************************************************************************)
EXTENDS Billing, SequenceTheorems, TLAPS

Settled == {s \in Subs : checkout[s] \in {"live", "ended"}}

\* The events that lead to SubscriptionStarted, and those that are true.
SaysPaid == {e \in Event : Handled(e) = "record"}
Told     == {e \in Event : e \in SaysPaid => e.sub \in Settled}

RowTyped     == row \in Row
HandlerTyped == handler \in [Handlers -> [pc : {"idle"}] \cup Request]
StripeTyped  == checkout \in [Subs -> {"none", "open", "processing", "failed", "live", "ended"}]
RestTyped    ==
  /\ buyer \in {"idle", "fresh", "stale"}
  /\ renew \in {"no domain", "on", "off"}
  /\ missed \in BOOLEAN
  /\ announced \in [Subs -> 0 .. 2]
  /\ crashes \in 0 .. MaxCrashes

EventsTold == events \in Seq(Told)

\* A request that will store an id, or mark the project paid for a stored one,
\* serves an event that said so.
ServedIsSettled ==
  \A h \in Handlers :
    /\ handler[h].pc = "record"   => handler[h].event.sub \in Settled
    /\ handler[h].pc = "markPaid" => row.sub # NoSub

StoredIsSettled == row.sub # NoSub => row.sub \in Settled
StripeMeansPaid == row.via = "stripe" => row.paid /\ row.sub # NoSub

BillingInv ==
  /\ RowTyped /\ HandlerTyped /\ StripeTyped /\ RestTyped
  /\ EventsTold /\ ServedIsSettled /\ StoredIsSettled /\ StripeMeansPaid

-----------------------------------------------------------------------------
(* What is told stays told. *)

LEMMA ToldGrows ==
  ASSUME EventsTold, Settled \subseteq Settled'
  PROVE  events \in Seq(Told')
  <1>1. Told \subseteq Told'
    BY DEF Told, SaysPaid
  <1> QED
    BY <1>1, SeqMonotonic DEF EventsTold

LEMMA EmitTold ==
  ASSUME EventsTold, Settled \subseteq Settled',
         NEW type \in {"completed", "async_succeeded", "async_failed", "deleted"},
         NEW s \in Subs, NEW paid \in BOOLEAN, Emit(type, s, paid),
         type = "async_succeeded" \/ (type = "completed" /\ paid) => s \in Settled'
  PROVE  EventsTold'
  <1> DEFINE e == [type |-> type, sub |-> s, paid |-> paid]
  <1>1. e \in Event
    BY DEF Event
  <1>2. e \in Told'
    BY <1>1 DEF Told, SaysPaid, Handled
  <1>3. events \in Seq(Told')
    BY ToldGrows
  <1>4. Append(events, e) \in Seq(Told')
    BY <1>2, <1>3, AppendProperties
  <1> QED
    BY <1>4 DEF Emit, EventsTold

LEMMA RemoveAtTold ==
  ASSUME NEW S, NEW s \in Seq(S), NEW i \in 1 .. Len(s)
  PROVE  RemoveAt(s, i) \in Seq(S)
  <1>1. SubSeq(s, 1, i - 1) \in Seq(S)
    BY SubSeqProperties, ElementOfSeq
  <1>2. SubSeq(s, i + 1, Len(s)) \in Seq(S)
    BY SubSeqProperties, ElementOfSeq
  <1> QED
    BY <1>1, <1>2, ConcatProperties DEF RemoveAt

LEMMA StepType ==
  ASSUME HandlerTyped, NEW h \in Handlers, NEW pc \in PC, Step(h, pc), handler[h].pc # "idle"
  PROVE  /\ HandlerTyped'
         /\ handler'[h].pc = pc
         /\ handler'[h].event = handler[h].event
         /\ \A g \in Handlers \ {h} : handler'[g] = handler[g]
  <1>1. handler[h] \in Request
    BY DEF HandlerTyped
  <1>2. [handler[h] EXCEPT !.pc = pc] \in Request
    BY <1>1 DEF Request
  <1> QED
    BY <1>1, <1>2 DEF HandlerTyped, Step, Request

\* End takes a copy of the row along.
LEMMA EndType ==
  ASSUME HandlerTyped, RowTyped, NEW h \in Handlers, End(h)
  PROVE  /\ HandlerTyped'
         /\ handler'[h].pc = IF row.paid /\ row.sub = handler[h].event.sub THEN "markUnpaid" ELSE "ok"
         /\ handler'[h].event = handler[h].event
         /\ \A g \in Handlers \ {h} : handler'[g] = handler[g]
  <1>1. handler[h] \in Request /\ row.kind \in {"none", "purchased"}
    BY DEF End, HandlerTyped, RowTyped, Row
  <1>2. CASE /\ row.paid /\ row.sub = handler[h].event.sub
             /\ handler' = [handler EXCEPT ![h].pc = "markUnpaid", ![h].kind = row.kind]
    <2>1. [handler[h] EXCEPT !.pc = "markUnpaid", !.kind = row.kind] \in Request
      BY <1>1 DEF Request, PC
    <2> QED
      BY <1>1, <1>2, <2>1 DEF HandlerTyped, Request
  <1>3. CASE ~(row.paid /\ row.sub = handler[h].event.sub) /\ Step(h, "ok")
    BY <1>3, StepType DEF End, PC
  <1> QED
    BY <1>2, <1>3 DEF End

LEMMA SwitchTyped ==
  ASSUME RestTyped, NEW h \in Handlers, NEW to \in {"on", "off"}, SetDomainAutoRenew(h, to)
  PROVE  renew' \in {"no domain", "on", "off"} /\ missed' \in BOOLEAN
  <1>1. CASE handler[h].kind = "purchased"
    BY <1>1 DEF RestTyped, SetDomainAutoRenew
  <1>2. CASE handler[h].kind = "none" /\ renew' = renew /\ missed' = (missed \/ Owed(h))
    <2>1. (missed \/ Owed(h)) \in BOOLEAN
      OBVIOUS
    <2> QED
      BY <1>2, <2>1 DEF RestTyped
  <1> QED
    BY <1>1, <1>2 DEF SetDomainAutoRenew

LEMMA IdleType ==
  ASSUME HandlerTyped, NEW h \in Handlers, handler' = [handler EXCEPT ![h] = Idle]
  PROVE  /\ HandlerTyped'
         /\ handler'[h].pc = "idle"
         /\ \A g \in Handlers \ {h} : handler'[g] = handler[g]
  BY DEF HandlerTyped, Idle

LEMMA InitInv == Init => BillingInv
  <1> SUFFICES ASSUME Init PROVE BillingInv
    OBVIOUS
  <1>1. RowTyped /\ StripeMeansPaid /\ StoredIsSettled
    BY DEF Init, RowTyped, Row, StripeMeansPaid, StoredIsSettled
  <1>2. HandlerTyped /\ ServedIsSettled
    BY DEF Init, Idle, HandlerTyped, ServedIsSettled
  <1>3. StripeTyped /\ EventsTold
    BY EmptySeq DEF Init, StripeTyped, EventsTold
  <1>4. RestTyped
    <2>1. missed \in BOOLEAN
      BY Zenon DEF Init
    <2>2. 0 \in 0 .. MaxCrashes
      BY BillingAssumption
    <2>3. announced \in [Subs -> 0 .. 2]
      <3>1. announced = [s \in Subs |-> 0]
        BY DEF Init
      <3>2. 0 \in 0 .. 2
        OBVIOUS
      <3> QED
        BY <3>1, <3>2
    <2> QED
      BY <2>1, <2>2, <2>3 DEF Init, RestTyped
  <1> QED
    BY <1>1, <1>2, <1>3, <1>4 DEF BillingInv

-----------------------------------------------------------------------------
(* Every step preserves the invariant. *)

\* Nothing a request rests on changes as long as it stays where it is.
LEMMA OthersServed ==
  ASSUME ServedIsSettled, NEW h \in Handlers,
         \A g \in Handlers \ {h} : handler'[g] = handler[g],
         handler'[h].pc = "record"   => handler'[h].event.sub \in Settled',
         handler'[h].pc = "markPaid" => row'.sub # NoSub,
         Settled \subseteq Settled', row.sub # NoSub => row'.sub # NoSub
  PROVE  ServedIsSettled'
  BY DEF ServedIsSettled

LEMMA StripeStep ==
  ASSUME BillingInv, NEW s \in Subs,
         Subscribe(s) \/ CompleteCheckout(s) \/ SettlePayment(s) \/ Cancel(s)
  PROVE  BillingInv'
  <1> USE DEF BillingInv
  <1>1. UNCHANGED <<row, handler, buyer, renew, missed, announced, crashes>>
    BY DEF Subscribe, CompleteCheckout, SettlePayment, Cancel, Outside
  <1>2. StripeTyped' /\ Settled \subseteq Settled'
    BY DEF Subscribe, CompleteCheckout, SettlePayment, Cancel, StripeTyped, Settled
  <1>3. EventsTold'
    <2>1. CASE Subscribe(s)
      BY <1>2, <2>1, ToldGrows DEF Subscribe, EventsTold
    <2>2. CASE CompleteCheckout(s)
      <3>1. PICK paid \in BOOLEAN :
              /\ checkout' = [checkout EXCEPT ![s] = IF paid THEN "live" ELSE "processing"]
              /\ Emit("completed", s, paid)
        BY <2>2 DEF CompleteCheckout
      <3>2. paid => s \in Settled'
        BY <3>1 DEF StripeTyped, Settled
      <3> QED
        BY <1>2, <3>1, <3>2, EmitTold
    <2>3. CASE SettlePayment(s)
      <3>1. CASE checkout' = [checkout EXCEPT ![s] = "live"] /\ Emit("async_succeeded", s, TRUE)
        <4>1. s \in Settled'
          BY <3>1 DEF StripeTyped, Settled
        <4> QED
          BY <1>2, <3>1, <4>1, EmitTold
      <3>2. CASE Emit("async_failed", s, FALSE)
        BY <1>2, <3>2, EmitTold
      <3> QED
        BY <2>3, <3>1, <3>2 DEF SettlePayment
    <2>4. CASE Cancel(s)
      BY <1>2, <2>4, EmitTold DEF Cancel
    <2> QED
      BY <2>1, <2>2, <2>3, <2>4
  <1>4. RowTyped' /\ HandlerTyped' /\ RestTyped' /\ StripeMeansPaid'
    BY <1>1 DEF RowTyped, HandlerTyped, RestTyped, StripeMeansPaid
  <1>5. ServedIsSettled' /\ StoredIsSettled'
    BY <1>1, <1>2 DEF ServedIsSettled, StoredIsSettled
  <1> QED
    BY <1>2, <1>3, <1>4, <1>5

\* Deliveries, answers and lost saves: the row stays as it is.
LEMMA DeliveryStep ==
  ASSUME BillingInv, NEW h \in Handlers,
         Deliver(h) \/ Acknowledge(h) \/ LoseAnswer(h) \/ Conflict(h)
  PROVE  BillingInv'
  <1> USE DEF BillingInv
  <1>1. UNCHANGED <<row, checkout, buyer, renew, missed, announced, crashes>>
    BY DEF Deliver, Acknowledge, LoseAnswer, Conflict
  <1>2. RowTyped' /\ StripeTyped' /\ RestTyped' /\ StripeMeansPaid' /\ StoredIsSettled' /\ Settled' = Settled
    BY <1>1 DEF RowTyped, StripeTyped, RestTyped, StripeMeansPaid, StoredIsSettled, Settled
  <1>3. CASE Deliver(h)
    <2>1. PICK i \in 1 .. Len(events) :
            handler' = [handler EXCEPT ![h] =
              [pc |-> Handled(events[i]), event |-> events[i], wasPaid |-> FALSE, kind |-> "none"]]
      BY <1>3 DEF Deliver
    <2>2. events[i] \in Told
      BY ElementOfSeq DEF EventsTold
    <2>3. Handled(events[i]) \in {"record", "end", "ok"}
      BY DEF Handled
    <2>4. HandlerTyped'
      BY <2>1, <2>2, <2>3 DEF HandlerTyped, Request, PC, Told
    <2>5. /\ handler'[h].pc = Handled(events[i])
          /\ handler'[h].event = events[i]
          /\ \A g \in Handlers \ {h} : handler'[g] = handler[g]
      BY <2>1 DEF HandlerTyped
    <2>6. handler'[h].pc = "record" => handler'[h].event.sub \in Settled'
      BY <1>2, <2>2, <2>5 DEF Told, SaysPaid
    <2>7. ServedIsSettled'
      BY <1>1, <1>2, <2>3, <2>5, <2>6, OthersServed
    <2>8. EventsTold'
      BY <1>2, <1>3, ToldGrows DEF Deliver, EventsTold
    <2> QED
      BY <1>2, <2>4, <2>7, <2>8
  <1>4. CASE Acknowledge(h) \/ LoseAnswer(h) \/ Conflict(h)
    <2>1. handler' = [handler EXCEPT ![h] = Idle]
      BY <1>4 DEF Acknowledge, LoseAnswer, Conflict
    <2>2. HandlerTyped' /\ ServedIsSettled'
      BY <1>1, <1>2, <2>1, IdleType, OthersServed
    <2>3. events' = events \/ \E i \in 1 .. Len(events) : events' = RemoveAt(events, i)
      BY <1>4 DEF Acknowledge, LoseAnswer, Conflict
    <2>4. events' \in Seq(Told)
      BY <2>3, RemoveAtTold DEF EventsTold
    <2>5. Told' = Told
      BY <1>2 DEF Told, SaysPaid
    <2> QED
      BY <1>2, <2>2, <2>4, <2>5 DEF EventsTold
  <1> QED
    BY <1>3, <1>4

\* SubscriptionStarted: an event that was told is stored, then paid for.
LEMMA StartedStep ==
  ASSUME BillingInv, NEW h \in Handlers,
         Record(h) \/ MarkPaid(h) \/ RenewOn(h) \/ Accept(h)
  PROVE  BillingInv'
  <1> USE DEF BillingInv
  <1>1. UNCHANGED <<checkout, events, crashes>>
    BY DEF Record, MarkPaid, RenewOn, Accept
  <1>2. StripeTyped' /\ Settled' = Settled
    BY <1>1 DEF StripeTyped, Settled
  <1>3. EventsTold'
    BY <1>1, <1>2, ToldGrows DEF EventsTold
  <1>4. CASE Record(h)
    <2>1. handler[h] \in Request /\ handler[h].event.sub \in Settled
      BY <1>4 DEF Record, HandlerTyped, ServedIsSettled
    <2>2. handler[h].event.sub \in Subs /\ handler[h].event.sub # NoSub
      BY <2>1, BillingAssumption DEF Settled
    <2>3. RestTyped'
      BY <1>4 DEF Record, Overtaken, RestTyped
    <2>4. CASE row' = row /\ Step(h, "ok")
      <3>1. HandlerTyped' /\ ServedIsSettled'
        BY <1>2, <1>4, <2>4, StepType, OthersServed DEF Record, PC
      <3> QED
        BY <1>2, <1>3, <2>3, <2>4, <3>1 DEF RowTyped, StoredIsSettled, StripeMeansPaid
    <2>5. CASE /\ row' = [row EXCEPT !.sub = handler[h].event.sub]
               /\ handler' = [handler EXCEPT ![h].pc = "markPaid", ![h].wasPaid = row.paid,
                                             ![h].kind = row.kind]
      <3>1. RowTyped' /\ row'.sub = handler[h].event.sub /\ row'.via = row.via /\ row'.paid = row.paid
        BY <2>2, <2>5 DEF RowTyped, Row
      <3>2. row.paid \in BOOLEAN /\ row.kind \in {"none", "purchased"}
        BY DEF RowTyped, Row
      <3>3. [handler[h] EXCEPT !.pc = "markPaid", !.wasPaid = row.paid, !.kind = row.kind] \in Request
        BY <2>1, <3>2 DEF Request, PC
      <3>4. /\ HandlerTyped'
            /\ handler'[h].pc = "markPaid"
            /\ \A g \in Handlers \ {h} : handler'[g] = handler[g]
        BY <2>1, <2>5, <3>3 DEF HandlerTyped, Request
      <3>5. ServedIsSettled'
        BY <1>2, <2>2, <3>1, <3>4, OthersServed
      <3>6. StoredIsSettled' /\ StripeMeansPaid'
        BY <1>2, <2>1, <2>2, <3>1 DEF StoredIsSettled, StripeMeansPaid
      <3> QED
        BY <1>2, <1>3, <2>3, <3>1, <3>4, <3>5, <3>6
    <2> QED
      BY <1>4, <2>4, <2>5 DEF Record
  <1>5. CASE MarkPaid(h)
    <2>1. row.sub # NoSub /\ row.sub = row'.sub /\ RowTyped' /\ StripeMeansPaid'
      BY <1>5 DEF MarkPaid, ServedIsSettled, RowTyped, Row, StripeMeansPaid
    <2>2. HandlerTyped' /\ ServedIsSettled'
      BY <1>2, <1>5, <2>1, StepType, OthersServed DEF MarkPaid, PC
    <2>3. RestTyped'
      BY <1>1, <1>5 DEF MarkPaid, Overtaken, RestTyped
    <2>4. StoredIsSettled'
      BY <1>2, <2>1 DEF StoredIsSettled
    <2> QED
      BY <1>2, <1>3, <2>1, <2>2, <2>3, <2>4
  <1>6. CASE RenewOn(h) \/ Accept(h)
    <2>1. row'.sub = row.sub /\ row'.via = row.via /\ row'.paid = row.paid /\ RowTyped'
      BY <1>6 DEF RenewOn, Accept, RowTyped, Row
    <2>2. HandlerTyped' /\ ServedIsSettled'
      BY <1>2, <1>6, <2>1, StepType, OthersServed DEF RenewOn, Accept, PC
    <2>3. /\ buyer' \in {"idle", "fresh", "stale"} /\ renew' \in {"no domain", "on", "off"}
          /\ missed' \in BOOLEAN /\ crashes' \in 0 .. MaxCrashes
      BY <1>6, SwitchTyped DEF RenewOn, Accept, Overtaken, RestTyped
    <2>4. announced' \in [Subs -> 0 .. 2]
      <3>1. CASE RenewOn(h)
        BY <3>1 DEF RenewOn, RestTyped
      <3>2. CASE Accept(h)
        <4> DEFINE told == handler[h].event.sub
        <4>1. announced \in [Subs -> 0 .. 2]
          BY DEF RestTyped
        <4>2. announced' = [announced EXCEPT ![told] = IF announced[told] < 2 THEN announced[told] + 1 ELSE announced[told]]
          BY <3>2 DEF Accept
        <4>3. \A n \in 0 .. 2 : n < 2 => n + 1 \in 0 .. 2
          OBVIOUS
        <4> QED
          BY <4>1, <4>2, <4>3
      <3> QED
        BY <1>6, <3>1, <3>2
    <2>5. StoredIsSettled' /\ StripeMeansPaid'
      BY <1>2, <2>1 DEF StoredIsSettled, StripeMeansPaid
    <2> QED
      BY <1>2, <1>3, <2>1, <2>2, <2>3, <2>4, <2>5 DEF RestTyped
  <1> QED
    BY <1>4, <1>5, <1>6

\* SubscriptionEnded clears the payment, never the stored id.
LEMMA EndedStep ==
  ASSUME BillingInv, NEW h \in Handlers, End(h) \/ MarkUnpaid(h) \/ RenewOff(h)
  PROVE  BillingInv'
  <1> USE DEF BillingInv
  <1>1. UNCHANGED <<checkout, events, announced, crashes>> /\ row'.sub = row.sub
    BY DEF End, MarkUnpaid, RenewOff, RowTyped, Row
  <1>2. StripeTyped' /\ Settled' = Settled
    BY <1>1 DEF StripeTyped, Settled
  <1>3. EventsTold' /\ StoredIsSettled'
    BY <1>1, <1>2, ToldGrows DEF EventsTold, StoredIsSettled
  <1>4. RowTyped' /\ StripeMeansPaid'
    BY DEF End, MarkUnpaid, RenewOff, RowTyped, Row, StripeMeansPaid
  <1>5. HandlerTyped' /\ handler'[h].pc \in {"markUnpaid", "ok", "renewOff"}
        /\ \A g \in Handlers \ {h} : handler'[g] = handler[g]
    BY StepType, EndType DEF MarkUnpaid, RenewOff, PC
  <1>6. ServedIsSettled'
    BY <1>1, <1>2, <1>5, OthersServed
  <1>7. RestTyped'
    <2>1. CASE RenewOff(h)
      BY <1>1, <2>1, SwitchTyped DEF RenewOff, RestTyped
    <2>2. CASE End(h) \/ MarkUnpaid(h)
      BY <1>1, <2>2 DEF End, MarkUnpaid, Overtaken, RestTyped
    <2> QED
      BY <2>1, <2>2
  <1> QED
    BY <1>2, <1>3, <1>4, <1>5, <1>6, <1>7

Buying == BuyDomain \/ Register \/ SaveDomain \/ BuyFails

LEMMA OtherStep ==
  ASSUME BillingInv, Buying \/ MarkPaidByHand \/ MarkUnpaidByHand \/ Crash
  PROVE  BillingInv'
  <1> USE DEF BillingInv
  <1>1. UNCHANGED <<checkout, events, announced>> /\ row'.sub = row.sub
    BY DEF Buying, BuyDomain, Register, SaveDomain, BuyFails, MarkPaidByHand, MarkUnpaidByHand, Crash, RowTyped, Row
  <1>2. StripeTyped' /\ Settled' = Settled
    BY <1>1 DEF StripeTyped, Settled
  <1>3. EventsTold' /\ StoredIsSettled'
    BY <1>1, <1>2, ToldGrows DEF EventsTold, StoredIsSettled
  <1>4. RowTyped' /\ StripeMeansPaid'
    BY DEF Buying, BuyDomain, Register, SaveDomain, BuyFails, MarkPaidByHand, MarkUnpaidByHand, Crash, RowTyped, Row, StripeMeansPaid
  <1>5. RestTyped'
    <2>1. CASE Crash
      <3>1. crashes' \in 0 .. MaxCrashes
        <4>1. crashes \in 0 .. MaxCrashes
          BY DEF RestTyped
        <4>2. crashes < MaxCrashes /\ crashes' = crashes + 1
          BY <2>1 DEF Crash
        <4> QED
          BY <4>1, <4>2, BillingAssumption
      <3>2. UNCHANGED <<renew, announced>> /\ buyer' = "idle"
        BY <2>1 DEF Crash
      <3>3. missed' \in BOOLEAN
        BY <2>1, Zenon DEF Crash
      <3> QED
        BY <3>1, <3>2, <3>3 DEF RestTyped
    <2>2. CASE Buying \/ MarkPaidByHand \/ MarkUnpaidByHand
      <3>1. crashes' = crashes /\ announced' = announced
        BY <2>2 DEF Buying, BuyDomain, Register, SaveDomain, BuyFails, MarkPaidByHand, MarkUnpaidByHand
      <3>2. buyer' \in {"idle", "fresh", "stale"} /\ renew' \in {"no domain", "on", "off"}
        BY <2>2 DEF Buying, BuyDomain, Register, SaveDomain, BuyFails, MarkPaidByHand, MarkUnpaidByHand,
                    Overtaken, RestTyped
      <3>3. missed' \in BOOLEAN
        BY <2>2, Zenon DEF Buying, BuyDomain, Register, SaveDomain, BuyFails, MarkPaidByHand, MarkUnpaidByHand,
                           RestTyped
      <3> QED
        BY <3>1, <3>2, <3>3 DEF RestTyped
    <2> QED
      BY <2>1, <2>2
  <1>6. HandlerTyped' /\ ServedIsSettled'
    <2>1. CASE Crash
      BY <2>1 DEF Crash, Idle, HandlerTyped, ServedIsSettled
    <2>2. CASE Buying \/ MarkPaidByHand \/ MarkUnpaidByHand
      <3>1. handler' = handler
        BY <2>2 DEF Buying, BuyDomain, Register, SaveDomain, BuyFails, MarkPaidByHand, MarkUnpaidByHand
      <3> QED
        BY <1>1, <1>2, <3>1 DEF HandlerTyped, ServedIsSettled
    <2> QED
      BY <2>1, <2>2
  <1> QED
    BY <1>2, <1>3, <1>4, <1>5, <1>6

LEMMA InvStep ==
  ASSUME BillingInv, [Next]_vars
  PROVE  BillingInv'
  <1>1. CASE UNCHANGED vars
    BY <1>1 DEF vars, BillingInv, RowTyped, HandlerTyped, StripeTyped, RestTyped, EventsTold, Told,
       SaysPaid, Settled, ServedIsSettled, StoredIsSettled, StripeMeansPaid
  <1>2. CASE Next
    BY <1>2, StripeStep, DeliveryStep, StartedStep, EndedStep, OtherStep DEF Next, Buying
  <1> QED
    BY <1>1, <1>2

LEMMA Invariance == Spec => []BillingInv
  BY InitInv, InvStep, PTL DEF Spec

-----------------------------------------------------------------------------

\* No event, in whatever order it comes, takes a request or the row to a value
\* they do not have.
THEOREM TypeCorrect == Spec => []TypeOK
  <1>1. BillingInv => TypeOK
    <2> SUFFICES ASSUME BillingInv PROVE TypeOK
      OBVIOUS
    <2>1. events \in Seq(Event)
      BY SeqMonotonic DEF BillingInv, EventsTold, Told
    <2> QED
      BY <2>1 DEF BillingInv, TypeOK, RowTyped, HandlerTyped, StripeTyped, RestTyped
  <1> QED
    BY <1>1, Invariance, PTL

\* A project is paid by subscription only when that subscription's payment has
\* settled, however events are repeated, overtake each other or are answered
\* late, and whatever crashes in between (handleStripeWebhook's gate).
THEOREM PaymentWasSettled == Spec => []PaidMeansSettled
  <1>1. BillingInv => PaidMeansSettled
    BY DEF BillingInv, StripeMeansPaid, StoredIsSettled, Settled, PaidMeansSettled
  <1> QED
    BY <1>1, Invariance, PTL

-----------------------------------------------------------------------------
(* With one delivery at a time, in order, the events still to come say what   *)
(* the row does not: a live subscription's payment is the last of them, and   *)
(* an ended one's end is among them as long as the row counts it as paid.     *)

\* One event after the other, and none but the oldest.
OneAtATime == Window = 1 /\ \A g, h \in Handlers : g = h

Pending == 1 .. Len(events)
Pays(e) == Handled(e) = "record"

OneCheckout ==
  \A s, t \in Subs : {checkout[s], checkout[t]} \subseteq {"open", "processing", "live"} => s = t

\* What Stripe has told of a subscription is how far it has come ...
Emitted ==
  \A i \in Pending :
    /\ checkout[events[i].sub] \notin {"none", "open"}
    /\ checkout[events[i].sub] = "processing" => events[i].type = "completed" /\ ~Pays(events[i])
    /\ events[i].type = "deleted" => checkout[events[i].sub] = "ended"

\* ... once, and in order.
Once ==
  \A i, j \in Pending :
    /\ events[i].sub = events[j].sub
    /\ events[i].type = events[j].type \/ (Pays(events[i]) /\ Pays(events[j]))
    => i = j
PaidBeforeEnd ==
  \A i \in Pending : Pays(events[i]) /\ checkout[events[i].sub] = "ended" =>
    \E j \in Pending : i < j /\ events[j].type = "deleted" /\ events[j].sub = events[i].sub
MailInv == OneCheckout /\ Emitted /\ Once /\ PaidBeforeEnd

FirstServed == \A h \in Handlers : handler[h].pc # "idle" => events # <<>> /\ handler[h].event = events[1]

\* What a request has done to the row is still so.
ServedRow(pc, e) ==
  /\ pc \in {"record", "markPaid", "renewOn", "accept"} => Pays(e)
  /\ pc \in {"end", "markUnpaid", "renewOff"} => e.type = "deleted"
  /\ pc \in {"markPaid", "markUnpaid"} => row.sub = e.sub
  /\ pc \in {"renewOn", "accept"} => row.paid /\ row.sub = e.sub
  /\ pc = "ok" /\ Pays(e) => row.paid /\ row.sub = e.sub
  /\ pc = "renewOff" => ~row.paid \/ row.via = "manual"
  /\ pc \in {"renewOff", "ok"} /\ e.type = "deleted" => ~(row.via = "stripe" /\ row.sub = e.sub)
  /\ pc \in {"markPaid", "renewOn", "accept"} => announced[e.sub] = 0
Served == \A h \in Handlers : handler[h].pc # "idle" => ServedRow(handler[h].pc, handler[h].event)

LiveIsLast ==
  \A s \in Live :
    \/ events # <<>> /\ Pays(events[Len(events)]) /\ events[Len(events)].sub = s
    \/ events = <<>> /\ row.paid /\ row.sub = s
EndIsPending ==
  row.via = "stripe" /\ row.sub \notin Live =>
    \E i \in Pending : events[i].type = "deleted" /\ events[i].sub = row.sub

\* A payment that was announced and comes again is the oldest event, and on the row.
Silent ==
  \A i \in Pending : Pays(events[i]) /\ announced[events[i].sub] > 0 => i = 1 /\ row.paid /\ row.sub = events[1].sub
Untold == \A s \in Subs : announced[s] \in 0 .. 1 /\ (announced[s] > 0 => s \in Settled)

\* Between a payment's change and its call, the switch may be behind.
Turning  == \E h \in Handlers : handler[h].pc \in {"renewOn", "renewOff"}
Switched == ~Turning /\ ~missed /\ renew # "no domain" /\ row.via # "manual" => ((renew = "on") <=> row.paid)

OrderInv ==
  /\ BillingInv /\ MailInv /\ FirstServed /\ Served /\ LiveIsLast /\ EndIsPending
  /\ Silent /\ Untold /\ Switched

LEMMA EventKinds ==
  ASSUME NEW e \in Event
  PROVE  /\ Handled(e) \in {"record", "end", "ok"}
         /\ Handled(e) = "end" <=> e.type = "deleted"
         /\ Pays(e) => e.type \in {"completed", "async_succeeded"}
         /\ e.sub \in Subs
  BY DEF Handled, Pays, Event

LEMMA EventsSeq ==
  ASSUME BillingInv
  PROVE  /\ events \in Seq(Event) /\ Len(events) \in Nat /\ (events = <<>> <=> Len(events) = 0)
         /\ \A i \in Pending : events[i] \in Told /\ events[i] \in Event /\ events[i].sub \in Subs
         /\ \A i \in Pending : Pays(events[i]) => events[i].sub \in Settled
  <1>1. events \in Seq(Told) /\ Told \subseteq Event
    BY DEF BillingInv, EventsTold, Told
  <1>2. events \in Seq(Event) /\ Len(events) \in Nat /\ (events # <<>> => Len(events) # 0) /\ Len(<<>>) = 0
    BY <1>1, SeqMonotonic, LenProperties, EmptySeq
  <1>3. ASSUME NEW i \in Pending
        PROVE  /\ events[i] \in Told /\ events[i] \in Event /\ events[i].sub \in Subs
               /\ Pays(events[i]) => events[i].sub \in Settled
    <2>1. events[i] \in Told /\ events[i] \in Event
      BY <1>1, ElementOfSeq DEF Pending
    <2> QED
      BY <2>1, EventKinds DEF Told, SaysPaid, Pays
  <1> QED
    BY <1>2, <1>3

\* One event more ...
Adds(e) ==
  /\ Len(events') = Len(events) + 1 /\ events' # <<>>
  /\ \A i \in Pending : events'[i] = events[i]
  /\ events'[Len(events) + 1] = e

LEMMA EmitAdds ==
  ASSUME BillingInv, NEW type \in {"completed", "async_succeeded", "async_failed", "deleted"},
         NEW s \in Subs, NEW paid \in BOOLEAN, Emit(type, s, paid)
  PROVE  \E e \in Event : e = [type |-> type, sub |-> s, paid |-> paid] /\ Adds(e)
  <1> DEFINE e == [type |-> type, sub |-> s, paid |-> paid]
  <1>1. e \in Event
    BY DEF Event
  <1>2. events' = Append(events, e)
    BY DEF Emit
  <1>3. events \in Seq(Event) /\ Len(events) \in Nat
    BY EventsSeq
  <1> HIDE DEF e
  <1>4. /\ Len(events') = Len(events) + 1 /\ events' \in Seq(Event)
        /\ \A i \in 1 .. Len(events) : events'[i] = events[i]
        /\ events'[Len(events) + 1] = e
    BY <1>1, <1>2, <1>3, AppendProperties
  <1>5. Adds(e)
    BY <1>3, <1>4, EmptySeq DEF Adds, Pending
  <1> QED
    BY <1>1, <1>5 DEF e

\* ... and the oldest one less.
Drops ==
  /\ Len(events') = Len(events) - 1
  /\ \A i \in 1 .. (Len(events) - 1) : events'[i] = events[i + 1]

LEMMA OldestRemoved ==
  ASSUME NEW S, NEW s \in Seq(S), 1 \in 1 .. Len(s)
  PROVE  /\ Len(RemoveAt(s, 1)) = Len(s) - 1
         /\ \A i \in 1 .. (Len(s) - 1) : RemoveAt(s, 1)[i] = s[i + 1]
  <1>1. Len(s) \in Nat
    BY LenProperties
  <1>2. SubSeq(s, 1, 1 - 1) = <<>>
    BY SubSeqEmpty
  <1>3. /\ SubSeq(s, 2, Len(s)) \in Seq(S) /\ Len(SubSeq(s, 2, Len(s))) = Len(s) - 1
        /\ \A i \in 1 .. (Len(s) - 1) : SubSeq(s, 2, Len(s))[i] = s[i + 1]
    <2>1. \A i \in 2 .. Len(s) : s[i] \in S
      BY <1>1, ElementOfSeq
    <2>2. /\ SubSeq(s, 2, Len(s)) \in Seq(S)
          /\ Len(SubSeq(s, 2, Len(s))) = IF 2 <= Len(s) THEN Len(s) - 2 + 1 ELSE 0
          /\ \A i \in 1 .. Len(s) - 2 + 1 : SubSeq(s, 2, Len(s))[i] = s[2 + i - 1]
      BY <1>1, <2>1, SubSeqProperties
    <2>3. ASSUME NEW i \in 1 .. (Len(s) - 1) PROVE SubSeq(s, 2, Len(s))[i] = s[i + 1]
      <3>1. i \in 1 .. Len(s) - 2 + 1 /\ 2 + i - 1 = i + 1
        BY <1>1
      <3>2. SubSeq(s, 2, Len(s))[i] = s[2 + i - 1]
        BY <2>2, <3>1
      <3> QED
        BY <3>1, <3>2
    <2>4. (IF 2 <= Len(s) THEN Len(s) - 2 + 1 ELSE 0) = Len(s) - 1
      <3> DEFINE n == Len(s)
      <3>1. n \in Nat /\ n >= 1
        BY <1>1
      <3> HIDE DEF n
      <3>2. n # 1 => 2 <= n
        BY <3>1
      <3>3. n - 2 + 1 = n - 1
        BY <3>1
      <3>4. (IF 2 <= n THEN n - 2 + 1 ELSE 0) = n - 1
        BY <3>1, <3>2, <3>3
      <3> QED
        BY <3>4 DEF n
    <2> QED
      BY <2>2, <2>3, <2>4
  <1>4. <<>> \o SubSeq(s, 2, Len(s)) = SubSeq(s, 2, Len(s))
    BY <1>3, ConcatEmptySeq
  <1>5. RemoveAt(s, 1) = SubSeq(s, 1, 1 - 1) \o SubSeq(s, 2, Len(s))
    BY DEF RemoveAt
  <1>6. RemoveAt(s, 1) = SubSeq(s, 2, Len(s))
    BY <1>2, <1>4, <1>5
  <1> QED
    BY <1>3, <1>6

LEMMA AckDrops ==
  ASSUME OrderInv, NEW h \in Handlers, Acknowledge(h)
  PROVE  /\ events # <<>> /\ handler[h].event = events[1] /\ handler[h].pc = "ok"
         /\ 1 \in Pending /\ Len(events) \in Nat /\ Drops
         /\ events' \in Seq(Event)
  <1>1. events # <<>> /\ handler[h].event = events[1] /\ handler[h].pc = "ok"
    BY DEF OrderInv, FirstServed, Acknowledge
  <1>2. Len(events) \in Nat /\ Len(events) # 0 /\ events \in Seq(Event)
    BY <1>1, EventsSeq DEF OrderInv
  <1>3. 1 \in Pending /\ events[1] \in Range(events)
    BY <1>2, LenProperties DEF Pending, Range
  <1>4. PICK i \in 1 .. Len(events) : events[i] = events[1] /\ events' = RemoveAt(events, i)
    BY <1>1, <1>3 DEF Acknowledge
  <1>5. i = 1
    BY <1>3, <1>4 DEF OrderInv, MailInv, Once, Pending
  <1> QED
    BY <1>1, <1>2, <1>3, <1>4, <1>5, OldestRemoved, RemoveAtTold DEF Drops, Pending

LEMMA MailKept == ASSUME MailInv, UNCHANGED <<checkout, events>> PROVE MailInv'
  BY DEF MailInv, OneCheckout, Emitted, Once, PaidBeforeEnd, Pending, Pays, Handled

\* Stripe: what a subscription's events say of it stays in step with it.
LEMMA MailStripe ==
  ASSUME OrderInv, NEW s \in Subs,
         Subscribe(s) \/ CompleteCheckout(s) \/ SettlePayment(s) \/ Cancel(s)
  PROVE  MailInv'
  <1>1. /\ checkout \in [Subs -> {"none", "open", "processing", "failed", "live", "ended"}]
        /\ \A i \in Pending : events[i] \in Event /\ events[i].sub \in Subs
        /\ Len(events) \in Nat
    BY EventsSeq DEF OrderInv, BillingInv, StripeTyped
  <1>2. MailInv
    BY DEF OrderInv
  <1>3. CASE Subscribe(s)
    <2>1. events' = events /\ checkout' = [checkout EXCEPT ![s] = "open"] /\ checkout[s] = "none"
          /\ \A t \in Subs : checkout[t] \in {"none", "failed", "ended"}
      BY <1>3 DEF Subscribe
    <2>2. OneCheckout'
      BY <1>1, <2>1 DEF OneCheckout
    <2>3. \A i \in Pending : events[i].sub # s
      BY <1>2, <2>1 DEF MailInv, Emitted
    <2>4. Emitted' /\ PaidBeforeEnd'
      BY <1>1, <1>2, <2>1, <2>3 DEF MailInv, Emitted, PaidBeforeEnd, Pending, Pays, Handled
    <2>5. Once'
      BY <1>2, <2>1 DEF MailInv, Once, Pending, Pays, Handled
    <2> QED
      BY <2>2, <2>4, <2>5 DEF MailInv
  \* The others: one event more, of s; what is new is how far s has come.
  <1>4. ASSUME NEW e \in Event, e.sub = s, Adds(e), NEW c \in {"processing", "failed", "live", "ended"},
               checkout' = [checkout EXCEPT ![s] = c],
               checkout[s] \in {"open", "processing", "live"},
               c = "processing" => checkout[s] = "open" /\ e.type = "completed" /\ ~Pays(e),
               e.type = "deleted" <=> c = "ended",
               checkout[s] = "live" => c = "ended" /\ e.type = "deleted",
               checkout[s] = "processing" => e.type # "completed" /\ e.type # "deleted" /\ c # "ended",
               checkout[s] = "open" => c # "ended",
               ~(Pays(e) /\ e.type = "deleted")
        PROVE  MailInv'
    <2> DEFINE n == Len(events) + 1
    <2>1. /\ n \in Nat /\ Pending' = 1 .. n /\ n \in Pending' /\ Pending \subseteq Pending'
          /\ \A i \in Pending : events'[i] = events[i] /\ i < n /\ i \in Nat
          /\ events'[n] = e
          /\ \A i \in Pending' : i \in Pending \/ i = n
      BY <1>1, <1>4 DEF Adds, Pending
    <2>2. checkout'[s] = c /\ \A t \in Subs \ {s} : checkout'[t] = checkout[t]
      BY <1>1, <1>4
    <2>3. OneCheckout'
      BY <1>2, <1>4, <2>2 DEF MailInv, OneCheckout
    <2> HIDE DEF n
    <2>4. \A i \in Pending : events[i].sub = s =>
            /\ checkout[s] # "open" /\ events[i].type # e.type /\ ~(Pays(events[i]) /\ Pays(e))
            /\ events[i].type # "deleted"
      BY <1>2, <1>4 DEF MailInv, Emitted
    <2>5. Emitted'
      BY <1>1, <1>2, <1>4, <2>1, <2>2, <2>4 DEF MailInv, Emitted, Pays, Handled
    <2>6. Once'
      BY <1>1, <1>2, <1>4, <2>1, <2>4 DEF MailInv, Once, Pays, Handled
    <2>7. PaidBeforeEnd'
      BY <1>1, <1>2, <1>4, <2>1, <2>2 DEF MailInv, PaidBeforeEnd, Pays, Handled
    <2> QED
      BY <2>3, <2>5, <2>6, <2>7 DEF MailInv
  <1>5. CASE CompleteCheckout(s)
    <2>1. PICK paid \in BOOLEAN :
            /\ checkout' = [checkout EXCEPT ![s] = IF paid THEN "live" ELSE "processing"]
            /\ Emit("completed", s, paid) /\ checkout[s] = "open"
      BY <1>5 DEF CompleteCheckout
    <2>2. PICK e \in Event : e = [type |-> "completed", sub |-> s, paid |-> paid] /\ Adds(e)
      BY <2>1, EmitAdds DEF OrderInv
    <2>3. e.sub = s /\ e.type = "completed" /\ (Pays(e) <=> paid)
      BY <2>2 DEF Pays, Handled
    <2> QED
      BY <1>4, <2>1, <2>2, <2>3
  <1>6. CASE SettlePayment(s)
    <2>1. checkout[s] = "processing"
      BY <1>6 DEF SettlePayment
    <2>2. CASE checkout' = [checkout EXCEPT ![s] = "live"] /\ Emit("async_succeeded", s, TRUE)
      <3>1. PICK e \in Event : e = [type |-> "async_succeeded", sub |-> s, paid |-> TRUE] /\ Adds(e)
        BY <2>2, EmitAdds DEF OrderInv
      <3> QED
        BY <1>4, <2>1, <2>2, <3>1
    <2>3. CASE checkout' = [checkout EXCEPT ![s] = "failed"] /\ Emit("async_failed", s, FALSE)
      <3>1. PICK e \in Event : e = [type |-> "async_failed", sub |-> s, paid |-> FALSE] /\ Adds(e)
        BY <2>3, EmitAdds DEF OrderInv
      <3> QED
        BY <1>4, <2>1, <2>3, <3>1
    <2> QED
      BY <1>6, <2>2, <2>3 DEF SettlePayment
  <1>7. CASE Cancel(s)
    <2>1. checkout[s] = "live" /\ checkout' = [checkout EXCEPT ![s] = "ended"] /\ Emit("deleted", s, FALSE)
      BY <1>7 DEF Cancel
    <2>2. PICK e \in Event : e = [type |-> "deleted", sub |-> s, paid |-> FALSE] /\ Adds(e)
      BY <2>1, EmitAdds DEF OrderInv
    <2>3. e.sub = s /\ e.type = "deleted" /\ ~Pays(e)
      BY <2>2 DEF Pays, Handled
    <2> QED
      BY <1>4, <2>1, <2>2, <2>3
  <1> QED
    BY <1>3, <1>5, <1>6, <1>7

LEMMA MailDrop ==
  ASSUME MailInv, Len(events) \in Nat, Drops, UNCHANGED checkout
  PROVE  MailInv'
  <1>1. \A i \in Pending' : i + 1 \in Pending /\ i \in Nat /\ events'[i] = events[i + 1]
    BY DEF Drops, Pending
  <1>2. \A i \in Pending : i \in Nat /\ (i > 1 => i - 1 \in Pending' /\ (i - 1) + 1 = i)
    BY DEF Drops, Pending
  <1>3. OneCheckout' /\ Emitted'
    BY <1>1 DEF MailInv, OneCheckout, Emitted, Pays, Handled
  <1>4. Once'
    <2> SUFFICES ASSUME NEW i \in Pending', NEW j \in Pending', events'[i].sub = events'[j].sub,
                        events'[i].type = events'[j].type \/ (Pays(events'[i]) /\ Pays(events'[j]))
                 PROVE  i = j
      BY DEF Once, Pays, Handled
    <2>1. i + 1 = j + 1
      BY <1>1 DEF MailInv, Once
    <2> QED
      BY <1>1, <2>1
  <1>5. PaidBeforeEnd'
    <2> SUFFICES ASSUME NEW i \in Pending', Pays(events'[i]), checkout[events'[i].sub] = "ended"
                 PROVE  \E j \in Pending' : i < j /\ events'[j].type = "deleted" /\ events'[j].sub = events'[i].sub
      BY DEF PaidBeforeEnd, Pays, Handled
    <2>1. PICK j \in Pending : i + 1 < j /\ events[j].type = "deleted" /\ events[j].sub = events[i + 1].sub
      BY <1>1 DEF MailInv, PaidBeforeEnd
    <2>2. j > 1 /\ i < j - 1
      BY <1>1, <1>2, <2>1
    <2>3. j - 1 \in Pending' /\ events'[j - 1] = events[j]
      BY <1>1, <1>2, <2>2
    <2> QED
      BY <1>1, <2>1, <2>2, <2>3
  <1> QED
    BY <1>3, <1>4, <1>5 DEF MailInv

\* Stripe's steps leave the row alone.
LEMMA OrderStripe ==
  ASSUME OrderInv, NEW s \in Subs,
         Subscribe(s) \/ CompleteCheckout(s) \/ SettlePayment(s) \/ Cancel(s)
  PROVE  (FirstServed /\ Served /\ LiveIsLast /\ EndIsPending /\ Silent /\ Untold /\ Switched)'
  <1>1. UNCHANGED <<row, handler, buyer, renew, missed, announced>>
    BY DEF Subscribe, CompleteCheckout, SettlePayment, Cancel, Outside
  <1>2. /\ checkout \in [Subs -> {"none", "open", "processing", "failed", "live", "ended"}]
        /\ \A i \in Pending : events[i] \in Event /\ events[i].sub \in Subs
        /\ Len(events) \in Nat /\ (events = <<>> <=> Len(events) = 0)
        /\ announced \in [Subs -> 0 .. 2]
    BY EventsSeq DEF OrderInv, BillingInv, StripeTyped, RestTyped
  <1>3. Served' /\ Switched'
    BY <1>1 DEF OrderInv, Served, ServedRow, Switched, Turning, Pays, Handled
  <1>4. row.sub # NoSub => row.sub \in Settled
    BY DEF OrderInv, BillingInv, StoredIsSettled
  <1>5. CASE Subscribe(s)
    <2>1. events' = events /\ checkout' = [checkout EXCEPT ![s] = "open"] /\ checkout[s] = "none"
      BY <1>5 DEF Subscribe
    <2>2. Live' = Live /\ Settled \subseteq Settled'
      BY <1>2, <2>1 DEF Live, Settled
    <2>3. FirstServed' /\ LiveIsLast' /\ EndIsPending' /\ Silent'
      BY <1>1, <2>1, <2>2 DEF OrderInv, FirstServed, LiveIsLast, EndIsPending, Silent, Pending, Pays, Handled
    <2>4. Untold'
      BY <1>1, <2>2 DEF OrderInv, Untold
    <2> QED
      BY <1>3, <2>3, <2>4
  <1>6. ASSUME NEW e \in Event, e.sub = s, Adds(e), NEW c \in {"processing", "failed", "live", "ended"},
               checkout' = [checkout EXCEPT ![s] = c],
               checkout[s] \in {"open", "processing", "live"},
               c = "live" <=> Pays(e),
               c = "ended" => e.type = "deleted" /\ checkout[s] = "live",
               c # "ended" => checkout[s] # "live"
        PROVE  (FirstServed /\ Served /\ LiveIsLast /\ EndIsPending /\ Silent /\ Untold /\ Switched)'
    <2> DEFINE n == Len(events) + 1
    <2>1. /\ n \in Nat /\ Pending' = 1 .. n /\ n \in Pending' /\ Pending \subseteq Pending' /\ Len(events') = n
          /\ \A i \in Pending : events'[i] = events[i]
          /\ events'[n] = e /\ events' # <<>> /\ (events # <<>> => 1 \in Pending)
          /\ \A i \in Pending' : i \in Pending \/ i = n
      BY <1>2, <1>6 DEF Adds, Pending
    <2>2. checkout'[s] = c /\ \A t \in Subs \ {s} : checkout'[t] = checkout[t]
      BY <1>2, <1>6
    <2> HIDE DEF n
    <2>3. FirstServed'
      BY <1>1, <2>1 DEF OrderInv, FirstServed
    <2>4. LiveIsLast'
      <3>1. \A t \in Subs \ {s} : t \notin Live
        BY <1>6 DEF OrderInv, MailInv, OneCheckout, Live
      <3>2. \A t \in Live' : t = s /\ c = "live"
        BY <2>2, <3>1 DEF Live
      <3> QED
        BY <1>6, <2>1, <3>2 DEF LiveIsLast, Pays, Handled
    <2>5. EndIsPending'
      <3> SUFFICES ASSUME row.via = "stripe", row.sub \notin Live'
                   PROVE  \E i \in Pending' : events'[i].type = "deleted" /\ events'[i].sub = row.sub
        BY <1>1 DEF EndIsPending
      <3>1. CASE row.sub \in Live
        <4>1. row.sub = s /\ c = "ended"
          BY <1>6, <2>2, <3>1 DEF Live
        <4> QED
          BY <1>6, <2>1, <4>1
      <3>2. CASE row.sub \notin Live
        BY <2>1, <3>2 DEF OrderInv, EndIsPending
      <3> QED
        BY <3>1, <3>2
    <2>6. Untold' /\ (Pays(e) => announced[s] = 0)
      <3>1. Settled \subseteq Settled'
        BY <1>2, <1>6, <2>2 DEF Settled
      <3>2. Pays(e) => s \notin Settled
        BY <1>6, <2>2 DEF Settled
      <3> QED
        BY <1>1, <3>1, <3>2 DEF OrderInv, Untold
    <2>7. Silent'
      <3> SUFFICES ASSUME NEW i \in Pending', Pays(events'[i]), announced[events'[i].sub] > 0
                   PROVE  i = 1 /\ row.paid /\ row.sub = events'[1].sub
        BY <1>1 DEF Silent, Pays, Handled
      <3>1. i \in Pending /\ events'[i] = events[i]
        BY <1>6, <2>1, <2>6
      <3> QED
        BY <2>1, <3>1 DEF OrderInv, Silent
    <2> QED
      BY <1>3, <2>3, <2>4, <2>5, <2>6, <2>7
  <1>7. CASE CompleteCheckout(s)
    <2>1. PICK paid \in BOOLEAN :
            /\ checkout' = [checkout EXCEPT ![s] = IF paid THEN "live" ELSE "processing"]
            /\ Emit("completed", s, paid) /\ checkout[s] = "open"
      BY <1>7 DEF CompleteCheckout
    <2>2. PICK e \in Event : e = [type |-> "completed", sub |-> s, paid |-> paid] /\ Adds(e)
      BY <2>1, EmitAdds DEF OrderInv
    <2>3. e.sub = s /\ e.type = "completed" /\ (Pays(e) <=> paid)
      BY <2>2 DEF Pays, Handled
    <2> QED
      BY <1>6, <2>1, <2>2, <2>3
  <1>8. CASE SettlePayment(s)
    <2>1. checkout[s] = "processing"
      BY <1>8 DEF SettlePayment
    <2>2. CASE checkout' = [checkout EXCEPT ![s] = "live"] /\ Emit("async_succeeded", s, TRUE)
      <3>1. PICK e \in Event : e = [type |-> "async_succeeded", sub |-> s, paid |-> TRUE] /\ Adds(e)
        BY <2>2, EmitAdds DEF OrderInv
      <3>2. e.sub = s /\ Pays(e)
        BY <3>1 DEF Pays, Handled
      <3> QED
        BY <1>6, <2>1, <2>2, <3>1, <3>2
    <2>3. CASE checkout' = [checkout EXCEPT ![s] = "failed"] /\ Emit("async_failed", s, FALSE)
      <3>1. PICK e \in Event : e = [type |-> "async_failed", sub |-> s, paid |-> FALSE] /\ Adds(e)
        BY <2>3, EmitAdds DEF OrderInv
      <3>2. e.sub = s /\ ~Pays(e)
        BY <3>1 DEF Pays, Handled
      <3> QED
        BY <1>6, <2>1, <2>3, <3>1, <3>2
    <2> QED
      BY <1>8, <2>2, <2>3 DEF SettlePayment
  <1>9. CASE Cancel(s)
    <2>1. checkout[s] = "live" /\ checkout' = [checkout EXCEPT ![s] = "ended"] /\ Emit("deleted", s, FALSE)
      BY <1>9 DEF Cancel
    <2>2. PICK e \in Event : e = [type |-> "deleted", sub |-> s, paid |-> FALSE] /\ Adds(e)
      BY <2>1, EmitAdds DEF OrderInv
    <2>3. e.sub = s /\ e.type = "deleted" /\ ~Pays(e)
      BY <2>2 DEF Pays, Handled
    <2> QED
      BY <1>6, <2>1, <2>2, <2>3
  <1> QED
    BY <1>5, <1>7, <1>8, <1>9

\* A request taken up, answered or given up.
LEMMA OrderDelivery ==
  ASSUME OrderInv, OneAtATime, NEW h \in Handlers,
         Deliver(h) \/ Acknowledge(h) \/ LoseAnswer(h) \/ Conflict(h)
  PROVE  (MailInv /\ FirstServed /\ Served /\ LiveIsLast /\ EndIsPending /\ Silent /\ Untold /\ Switched)'
  <1>1. UNCHANGED <<row, checkout, buyer, renew, missed, announced>> /\ \A g \in Handlers : g = h
    BY DEF Deliver, Acknowledge, LoseAnswer, Conflict, OneAtATime
  <1>2. Untold' /\ Live' = Live
    BY <1>1 DEF OrderInv, Untold, Settled, Live
  <1>3. Len(events) \in Nat /\ (events = <<>> <=> Len(events) = 0) /\ \A i \in Pending : events[i] \in Event
    BY EventsSeq DEF OrderInv
  <1>4. ASSUME events' = events
        PROVE  (MailInv /\ LiveIsLast /\ EndIsPending /\ Silent)'
    <2>1. MailInv'
      BY <1>1, <1>4, MailKept DEF OrderInv
    <2> QED
      BY <1>1, <1>2, <1>4, <2>1 DEF OrderInv, LiveIsLast, EndIsPending, Silent, Pending, Pays, Handled
  <1>5. ASSUME handler'[h].pc = "idle" PROVE FirstServed' /\ Served'
    BY <1>1, <1>5 DEF FirstServed, Served
  <1>6. handler \in [Handlers -> [pc : {"idle"}] \cup Request]
    BY DEF OrderInv, BillingInv, HandlerTyped
  <1>10. ASSUME handler[h].pc \notin {"renewOn", "renewOff"} PROVE Switched'
    BY <1>1, <1>10 DEF OrderInv, Switched, Turning
  <1>7. CASE Deliver(h)
    <2>0. Switched'
      BY <1>7, <1>10 DEF Deliver
    <2>1. PICK i \in 1 .. Len(events) : i <= Window /\ handler' = [handler EXCEPT ![h] =
            [pc |-> Handled(events[i]), event |-> events[i], wasPaid |-> FALSE, kind |-> "none"]]
      BY <1>7 DEF Deliver
    <2>2. i = 1 /\ 1 \in Pending /\ events # <<>> /\ events' = events
      BY <1>3, <1>7, <2>1 DEF OneAtATime, Pending, Deliver
    <2>3. handler'[h].pc = Handled(events[1]) /\ handler'[h].event = events[1]
      BY <1>6, <2>1, <2>2
    <2>4. FirstServed'
      BY <1>1, <2>2, <2>3 DEF FirstServed
    <2>5. ServedRow(Handled(events[1]), events[1])
      BY <1>3, <2>2, EventKinds DEF ServedRow, Pays
    <2>6. Served'
      BY <1>1, <2>3, <2>5 DEF Served, ServedRow, Pays, Handled
    <2> QED
      BY <1>2, <1>4, <2>0, <2>2, <2>4, <2>6
  <1>8. CASE LoseAnswer(h) \/ Conflict(h)
    <2>1. events' = events /\ handler'[h].pc = "idle"
      BY <1>6, <1>8 DEF LoseAnswer, Conflict, Idle
    <2>2. Switched'
      BY <1>8, <1>10 DEF LoseAnswer, Conflict
    <2> QED
      BY <1>2, <1>4, <1>5, <2>1, <2>2
  <1>9. CASE Acknowledge(h)
    <2>1. /\ events # <<>> /\ handler[h].event = events[1] /\ handler[h].pc = "ok"
          /\ 1 \in Pending /\ Drops /\ events' \in Seq(Event)
      BY <1>9, AckDrops
    <2>2. handler'[h].pc = "idle"
      BY <1>6, <1>9 DEF Acknowledge, Idle
    <2>3. ServedRow("ok", events[1])
      BY <2>1 DEF OrderInv, Served
    <2>4. MailInv'
      BY <1>1, <1>3, <2>1, MailDrop DEF OrderInv
    <2>5. /\ \A i \in Pending' : i + 1 \in Pending /\ i \in Nat /\ i + 1 # 1 /\ events'[i] = events[i + 1]
          /\ \A i \in Pending : i # 1 => i - 1 \in Pending' /\ events'[i - 1] = events[i]
          /\ Len(events') = Len(events) - 1
      BY <1>3, <2>1 DEF Drops, Pending
    <2>6. events' = <<>> <=> Len(events') = 0
      BY <2>1, EmptySeq
    <2>7. LiveIsLast'
      <3> SUFFICES ASSUME NEW s \in Live
                   PROVE  \/ events' # <<>> /\ Pays(events'[Len(events')]) /\ events'[Len(events')].sub = s
                          \/ events' = <<>> /\ row.paid /\ row.sub = s
        BY <1>1, <1>2 DEF LiveIsLast, Pays, Handled
      <3>1. Pays(events[Len(events)]) /\ events[Len(events)].sub = s
        BY <2>1 DEF OrderInv, LiveIsLast
      <3>2. CASE Len(events) = 1
        BY <2>3, <2>5, <2>6, <3>1, <3>2 DEF ServedRow
      <3>3. CASE Len(events) # 1
        <4>1. Len(events) \in Pending /\ Len(events') # 0
          BY <1>3, <2>1, <2>5, <3>3 DEF Pending
        <4>2. events'[Len(events')] = events[Len(events)]
          BY <2>5, <3>3, <4>1
        <4> QED
          BY <2>6, <3>1, <4>1, <4>2
      <3> QED
        BY <3>2, <3>3
    <2>8. EndIsPending'
      <3> SUFFICES ASSUME row.via = "stripe", row.sub \notin Live
                   PROVE  \E i \in Pending' : events'[i].type = "deleted" /\ events'[i].sub = row.sub
        BY <1>1, <1>2 DEF EndIsPending
      <3>1. PICK i \in Pending : events[i].type = "deleted" /\ events[i].sub = row.sub
        BY DEF OrderInv, EndIsPending
      <3>2. i # 1
        BY <2>3, <3>1 DEF ServedRow
      <3> QED
        BY <2>5, <3>1, <3>2
    <2>9. Silent'
      <3> SUFFICES ASSUME NEW i \in Pending', Pays(events'[i]), announced[events'[i].sub] > 0
                   PROVE  FALSE
        BY <1>1 DEF Silent, Pays, Handled
      <3> QED
        BY <2>5 DEF OrderInv, Silent
    <2> QED
      BY <1>2, <1>5, <1>10, <2>1, <2>2, <2>4, <2>7, <2>8, <2>9
  <1> QED
    BY <1>7, <1>8, <1>9

\* The event that is served is the oldest; its request has done to the row what it should.
LEMMA Serving ==
  ASSUME OrderInv, NEW h \in Handlers, handler[h].pc # "idle"
  PROVE  /\ events # <<>> /\ handler[h].event = events[1] /\ 1 \in Pending
         /\ events[1] \in Event /\ events[1].sub \in Subs
         /\ ServedRow(handler[h].pc, events[1])
         /\ row.paid \in BOOLEAN /\ row \in Row
         /\ Pays(events[1]) /\ events[1].sub \notin Live =>
              \E i \in Pending : events[i].type = "deleted" /\ events[i].sub = events[1].sub
  <1>1. events # <<>> /\ handler[h].event = events[1]
    BY DEF OrderInv, FirstServed
  <1>2. /\ Len(events) \in Nat /\ Len(events) # 0
        /\ \A i \in Pending : events[i] \in Event /\ events[i].sub \in Subs
        /\ \A i \in Pending : Pays(events[i]) => events[i].sub \in Settled
    BY <1>1, EventsSeq DEF OrderInv
  <1>3. 1 \in Pending
    BY <1>2 DEF Pending
  <1>4. Pays(events[1]) /\ events[1].sub \notin Live =>
          \E i \in Pending : events[i].type = "deleted" /\ events[i].sub = events[1].sub
    BY <1>2, <1>3 DEF Settled, Live, OrderInv, MailInv, PaidBeforeEnd
  <1> QED
    BY <1>1, <1>2, <1>3, <1>4 DEF OrderInv, Served, BillingInv, RowTyped, Row

\* What follows when a request goes on: the rest of the mail is as it was.
LEMMA GoesOn ==
  ASSUME OrderInv, OneAtATime, NEW h \in Handlers, handler[h].pc # "idle", UNCHANGED <<checkout, events>>,
         handler'[h].event = handler[h].event, (ServedRow(handler[h].pc, handler[h].event))'
  PROVE  (MailInv /\ FirstServed /\ Served /\ LiveIsLast)'
  <1>1. events # <<>> /\ handler[h].event = events[1] /\ \A g \in Handlers : g = h
    BY Serving DEF OneAtATime
  <1>2. MailInv'
    BY MailKept DEF OrderInv
  <1>3. FirstServed'
    BY <1>1 DEF FirstServed
  <1>4. Served'
    BY <1>1 DEF Served
  <1>5. LiveIsLast'
    BY <1>1 DEF OrderInv, LiveIsLast, Live, Pays, Handled
  <1> QED
    BY <1>2, <1>3, <1>4, <1>5

\* setDomainAutoRenew leaves the switch in step, or it was missed.
LEMMA SwitchSet ==
  ASSUME OrderInv, OneAtATime, NEW h \in Handlers, UNCHANGED row, NEW to \in {"on", "off"},
         handler[h].pc = IF to = "on" THEN "renewOn" ELSE "renewOff", SetDomainAutoRenew(h, to),
         row.via # "manual" => ((to = "on") <=> row.paid)
  PROVE  Switched'
  <1>1. renew \in {"no domain", "on", "off"}
    BY DEF OrderInv, BillingInv, RestTyped
  <1>2. CASE handler[h].kind = "purchased"
    BY <1>2 DEF SetDomainAutoRenew, Switched
  <1>3. CASE renew' = renew /\ missed' = (missed \/ Owed(h))
    <2>1. Owed(h) <=> renew \notin {"no domain", to}
      BY <1>1 DEF Owed
    <2> QED
      BY <1>3, <2>1, Zenon DEF Switched
  <1> QED
    BY <1>2, <1>3 DEF SetDomainAutoRenew

\* A request that is elsewhere neither turns the switch nor owes a turn.
LEMMA SwitchKept ==
  ASSUME OrderInv, OneAtATime, NEW h \in Handlers, handler[h].pc \notin {"renewOn", "renewOff"},
         UNCHANGED <<renew, missed>>, row'.paid = row.paid, row'.via = row.via
  PROVE  Switched'
  BY DEF OrderInv, OneAtATime, Switched, Turning

\* A request that owes a turn knows the payment.
LEMMA OwedIsKnown ==
  ASSUME OrderInv, NEW h \in Handlers
  PROVE  /\ handler[h].pc = "renewOn" => row.paid
         /\ handler[h].pc = "renewOff" => ~row.paid \/ row.via = "manual"
  BY DEF OrderInv, Served, ServedRow

\* SubscriptionStarted.
LEMMA OrderStarted ==
  ASSUME OrderInv, OneAtATime, NEW h \in Handlers,
         Record(h) \/ MarkPaid(h) \/ RenewOn(h) \/ Accept(h)
  PROVE  (MailInv /\ FirstServed /\ Served /\ LiveIsLast /\ EndIsPending /\ Silent /\ Untold /\ Switched)'
  <1> DEFINE e == events[1]
             pc == handler[h].pc
  <1>1. pc # "idle" /\ UNCHANGED <<checkout, events>> /\ Live' = Live /\ Settled' = Settled
    BY DEF Record, MarkPaid, RenewOn, Accept, Live, Settled
  <1>2. /\ events # <<>> /\ handler[h].event = e /\ 1 \in Pending /\ e \in Event /\ e.sub \in Subs
        /\ ServedRow(pc, e) /\ row.paid \in BOOLEAN /\ row \in Row
        /\ Pays(e) /\ e.sub \notin Live => \E i \in Pending : events[i].type = "deleted" /\ events[i].sub = e.sub
    BY <1>1, Serving
  <1>3. HandlerTyped /\ handler[h] \in Request /\ (Pays(e) => e.type # "deleted")
    BY <1>1, <1>2, EventKinds DEF OrderInv, BillingInv, HandlerTyped
  <1>4. Pays(e)
    BY <1>2 DEF ServedRow, Record, MarkPaid, RenewOn, Accept
  <1> HIDE DEF e, pc
  <1>5. CASE Record(h)
    <2>1. pc = "record" /\ UNCHANGED <<renew, missed, announced>>
      BY <1>5 DEF Record, pc
    <2>2. Untold'
      BY <1>1, <2>1 DEF OrderInv, Untold
    <2>3. CASE row.paid /\ row.sub = e.sub /\ Step(h, "ok") /\ row' = row
      <3>1. handler'[h].pc = "ok" /\ handler'[h].event = e
        BY <1>1, <1>2, <1>3, <2>3, StepType DEF PC, pc
      <3>2. (ServedRow(handler[h].pc, handler[h].event))'
        BY <1>3, <1>4, <2>3, <3>1 DEF ServedRow, Pays, Handled
      <3>3. (MailInv /\ FirstServed /\ Served /\ LiveIsLast)'
        BY <1>1, <1>2, <3>1, <3>2, GoesOn DEF pc
      <3>4. (EndIsPending /\ Silent)'
        BY <1>1, <2>1, <2>3 DEF OrderInv, EndIsPending, Silent, Pending, Pays, Handled
      <3>5. Switched'
        BY <2>1, <2>3, SwitchKept DEF pc
      <3> QED
        BY <2>2, <3>3, <3>4, <3>5
    <2>4. CASE /\ ~(row.paid /\ row.sub = e.sub) /\ row' = [row EXCEPT !.sub = e.sub]
               /\ handler' = [handler EXCEPT ![h].pc = "markPaid", ![h].wasPaid = row.paid,
                                             ![h].kind = row.kind]
      <3>1. row'.sub = e.sub /\ row'.via = row.via /\ row'.paid = row.paid
        BY <1>2, <2>4 DEF Row
      <3>2. handler'[h].pc = "markPaid" /\ handler'[h].event = e
        BY <1>2, <1>3, <2>4 DEF HandlerTyped, Request
      <3>3. announced[e.sub] = 0
        BY <1>2, <1>4, <2>4 DEF OrderInv, Silent, Untold, e
      <3>4. (ServedRow(handler[h].pc, handler[h].event))'
        BY <1>3, <1>4, <2>1, <3>1, <3>2, <3>3 DEF ServedRow, Pays, Handled
      <3>5. (MailInv /\ FirstServed /\ Served /\ LiveIsLast)'
        BY <1>1, <1>2, <3>2, <3>4, GoesOn DEF pc
      <3>6. EndIsPending'
        BY <1>1, <1>2, <1>4, <3>1 DEF EndIsPending, Pending
      <3>7. Silent'
        <4> SUFFICES ASSUME NEW i \in Pending, Pays(events[i]), announced[events[i].sub] > 0 PROVE FALSE
          BY <1>1, <2>1 DEF Silent, Pending, Pays, Handled
        <4>1. i = 1
          BY DEF OrderInv, Silent
        <4> QED
          BY <3>3, <4>1 DEF e
      <3>8. Switched'
        BY <2>1, <3>1, SwitchKept DEF pc
      <3> QED
        BY <2>2, <3>5, <3>6, <3>7, <3>8
    <2> QED
      BY <1>2, <1>5, <2>3, <2>4 DEF Record
  <1>6. CASE MarkPaid(h)
    <2>1. pc = "markPaid" /\ UNCHANGED announced /\ row.sub = e.sub /\ announced[e.sub] = 0
      BY <1>2, <1>6 DEF MarkPaid, pc, ServedRow
    <2>2. row'.paid /\ row'.sub = e.sub
      BY <1>2, <1>6, <2>1 DEF MarkPaid, Row
    <2>3. handler'[h].pc = "renewOn" /\ handler'[h].event = e
      BY <1>1, <1>2, <1>3, <1>6, StepType DEF MarkPaid, PC, pc
    <2>4. (ServedRow(handler[h].pc, handler[h].event))'
      BY <1>3, <1>4, <2>1, <2>2, <2>3 DEF ServedRow, Pays, Handled
    <2>5. (MailInv /\ FirstServed /\ Served /\ LiveIsLast)'
      BY <1>1, <1>2, <2>3, <2>4, GoesOn DEF pc
    <2>6. EndIsPending'
      BY <1>1, <1>2, <1>4, <2>2 DEF EndIsPending, Pending
    <2>7. Silent'
      BY <1>1, <2>1, <2>2 DEF OrderInv, Silent, Pending, Pays, Handled, e
    <2>8. Untold'
      BY <1>1, <2>1 DEF OrderInv, Untold
    <2>9. Switched'
      BY <2>3 DEF Switched, Turning
    <2> QED
      BY <2>5, <2>6, <2>7, <2>8, <2>9
  <1>7. CASE RenewOn(h)
    <2>1. /\ pc = "renewOn" /\ UNCHANGED <<row, announced>> /\ row.paid /\ row.sub = e.sub /\ announced[e.sub] = 0
          /\ SetDomainAutoRenew(h, "on")
      BY <1>2, <1>7 DEF RenewOn, pc, ServedRow
    <2>2. handler'[h].pc \in {"ok", "accept"} /\ handler'[h].event = e
      BY <1>1, <1>2, <1>3, <1>7, StepType DEF RenewOn, PC, pc
    <2>3. (ServedRow(handler[h].pc, handler[h].event))'
      BY <1>3, <1>4, <2>1, <2>2 DEF ServedRow, Pays, Handled
    <2>4. (MailInv /\ FirstServed /\ Served /\ LiveIsLast)'
      BY <1>1, <1>2, <2>2, <2>3, GoesOn DEF pc
    <2>5. (EndIsPending /\ Silent /\ Untold)'
      BY <1>1, <2>1 DEF OrderInv, EndIsPending, Silent, Untold, Pending, Pays, Handled
    <2>6. Switched'
      BY <2>1, SwitchSet DEF pc
    <2> QED
      BY <2>4, <2>5, <2>6
  <1>8. CASE Accept(h)
    <2>1. pc = "accept" /\ UNCHANGED <<renew, missed>> /\ row.paid /\ row.sub = e.sub /\ announced[e.sub] = 0
      BY <1>2, <1>8 DEF Accept, pc, ServedRow
    <2>2. row'.paid = row.paid /\ row'.sub = row.sub /\ row'.via = row.via
      BY <1>2, <1>8 DEF Accept, Row
    <2>3. handler'[h].pc = "ok" /\ handler'[h].event = e
      BY <1>1, <1>2, <1>3, <1>8, StepType DEF Accept, PC, pc
    <2>4. (ServedRow(handler[h].pc, handler[h].event))'
      BY <1>3, <1>4, <2>1, <2>2, <2>3 DEF ServedRow, Pays, Handled
    <2>5. (MailInv /\ FirstServed /\ Served /\ LiveIsLast)'
      BY <1>1, <1>2, <2>3, <2>4, GoesOn DEF pc
    <2>6. EndIsPending' /\ Switched'
      BY <1>1, <2>1, <2>2, SwitchKept DEF OrderInv, EndIsPending, Pending, pc
    <2>7. announced'[e.sub] = 1 /\ \A s \in Subs \ {e.sub} : announced'[s] = announced[s]
      <3>1. announced \in [Subs -> 0 .. 2]
        BY DEF OrderInv, BillingInv, RestTyped
      <3>2. announced' = [announced EXCEPT ![e.sub] = IF announced[e.sub] < 2 THEN announced[e.sub] + 1 ELSE announced[e.sub]]
        BY <1>2, <1>8 DEF Accept
      <3> QED
        BY <1>2, <2>1, <3>1, <3>2
    <2>8. e.sub \in Settled
      BY <1>2, <1>4, EventsSeq DEF OrderInv, e
    <2>9. Untold'
      BY <1>1, <2>7, <2>8 DEF OrderInv, Untold
    <2>10. Silent'
      <3> SUFFICES ASSUME NEW i \in Pending, Pays(events[i]), announced'[events[i].sub] > 0
                   PROVE  i = 1 /\ row'.paid /\ row'.sub = events[1].sub
        BY <1>1 DEF Silent, Pending, Pays, Handled
      <3>1. CASE events[i].sub = e.sub
        <4>1. i = 1
          BY <1>2, <1>4, <3>1 DEF OrderInv, MailInv, Once, e
        <4> QED
          BY <2>1, <2>2, <4>1 DEF e
      <3>2. CASE events[i].sub # e.sub
        <4>1. events[i].sub \in Subs
          BY EventsSeq DEF OrderInv
        <4> QED
          BY <2>2, <2>7, <3>2, <4>1 DEF OrderInv, Silent
      <3> QED
        BY <3>1, <3>2
    <2> QED
      BY <2>5, <2>6, <2>9, <2>10
  <1> QED
    BY <1>5, <1>6, <1>7, <1>8

\* SubscriptionEnded.
LEMMA OrderEnded ==
  ASSUME OrderInv, OneAtATime, NEW h \in Handlers, End(h) \/ MarkUnpaid(h) \/ RenewOff(h)
  PROVE  (MailInv /\ FirstServed /\ Served /\ LiveIsLast /\ EndIsPending /\ Silent /\ Untold /\ Switched)'
  <1> DEFINE e == events[1]
             pc == handler[h].pc
  <1>1. pc # "idle" /\ UNCHANGED <<checkout, events, announced>> /\ Live' = Live /\ Settled' = Settled
    BY DEF End, MarkUnpaid, RenewOff, Live, Settled
  <1>2. /\ events # <<>> /\ handler[h].event = e /\ 1 \in Pending /\ e \in Event /\ e.sub \in Subs
        /\ ServedRow(pc, e) /\ row.paid \in BOOLEAN /\ row \in Row
    BY <1>1, Serving
  <1>3. HandlerTyped /\ handler[h] \in Request /\ (Pays(e) => e.type # "deleted")
    BY <1>1, <1>2, EventKinds DEF OrderInv, BillingInv, HandlerTyped
  <1>4. e.type = "deleted" /\ ~Pays(e) /\ StripeMeansPaid
    BY <1>2, <1>3 DEF ServedRow, End, MarkUnpaid, RenewOff, OrderInv, BillingInv
  <1>5. Untold'
    BY <1>1 DEF OrderInv, Untold
  <1> HIDE DEF e, pc
  <1>6. Silent'
    <2>1. \A i \in Pending : Pays(events[i]) => announced[events[i].sub] = 0 \/ ~(announced[events[i].sub] > 0)
      BY <1>4 DEF OrderInv, Silent, e
    <2> QED
      BY <1>1, <1>4, <2>1 DEF OrderInv, Silent, Pending, Pays, Handled, e
  <1>7. CASE End(h)
    <2>1. pc = "end" /\ UNCHANGED <<row, renew, missed>>
      BY <1>7 DEF End, pc
    <2>2. handler'[h].event = e /\ handler'[h].pc = IF row.paid /\ row.sub = e.sub THEN "markUnpaid" ELSE "ok"
      BY <1>1, <1>2, <1>3, <1>7, EndType DEF OrderInv, BillingInv
    <2>3. (ServedRow(handler[h].pc, handler[h].event))'
      BY <1>4, <2>1, <2>2 DEF ServedRow, Pays, Handled, StripeMeansPaid
    <2>4. (MailInv /\ FirstServed /\ Served /\ LiveIsLast)'
      BY <1>1, <1>2, <2>2, <2>3, GoesOn DEF pc
    <2>5. EndIsPending' /\ Switched'
      BY <1>1, <2>1, SwitchKept DEF OrderInv, EndIsPending, Pending, pc
    <2> QED
      BY <1>5, <1>6, <2>4, <2>5
  <1>8. CASE MarkUnpaid(h)
    <2>1. row'.paid = FALSE /\ row'.via = "none"
      BY <1>2, <1>8 DEF MarkUnpaid, Row
    <2>2. handler'[h].event = e /\ handler'[h].pc = "renewOff"
      BY <1>1, <1>2, <1>3, <1>8, StepType DEF MarkUnpaid, PC, pc
    <2>3. (ServedRow(handler[h].pc, handler[h].event))'
      BY <1>4, <2>1, <2>2 DEF ServedRow, Pays, Handled
    <2>4. (MailInv /\ FirstServed /\ Served /\ LiveIsLast)'
      BY <1>1, <1>2, <2>2, <2>3, GoesOn DEF pc
    <2>5. EndIsPending' /\ Switched'
      BY <2>1, <2>2 DEF EndIsPending, Switched, Turning
    <2> QED
      BY <1>5, <1>6, <2>4, <2>5
  <1>9. CASE RenewOff(h)
    <2>1. /\ pc = "renewOff" /\ UNCHANGED row /\ SetDomainAutoRenew(h, "off")
          /\ (~row.paid \/ row.via = "manual") /\ ~(row.via = "stripe" /\ row.sub = e.sub)
      BY <1>2, <1>4, <1>9 DEF RenewOff, pc, ServedRow
    <2>2. handler'[h].event = e /\ handler'[h].pc = "ok"
      BY <1>1, <1>2, <1>3, <1>9, StepType DEF RenewOff, PC, pc
    <2>3. (ServedRow(handler[h].pc, handler[h].event))'
      BY <1>4, <2>1, <2>2 DEF ServedRow, Pays, Handled
    <2>4. (MailInv /\ FirstServed /\ Served /\ LiveIsLast)'
      BY <1>1, <1>2, <2>2, <2>3, GoesOn DEF pc
    <2>5. EndIsPending'
      BY <1>1, <2>1 DEF OrderInv, EndIsPending, Pending
    <2>6. Switched'
      BY <2>1, SwitchSet DEF pc
    <2> QED
      BY <1>5, <1>6, <2>4, <2>5, <2>6
  <1> QED
    BY <1>7, <1>8, <1>9

\* A domain bought, the operator's marks, and crashes.
LEMMA OrderOther ==
  ASSUME OrderInv, OneAtATime, Buying \/ MarkPaidByHand \/ MarkUnpaidByHand \/ Crash
  PROVE  (MailInv /\ FirstServed /\ Served /\ LiveIsLast /\ EndIsPending /\ Silent /\ Untold /\ Switched)'
  <1>1. /\ UNCHANGED <<checkout, events, announced>> /\ Live' = Live /\ Settled' = Settled
        /\ row \in Row /\ HandlerTyped /\ StripeMeansPaid
    BY DEF Buying, BuyDomain, Register, SaveDomain, BuyFails, MarkPaidByHand, MarkUnpaidByHand, Crash, Live, Settled, OrderInv, BillingInv, RowTyped
  <1>2. MailInv' /\ Untold'
    BY <1>1, MailKept DEF OrderInv, Untold
  <1>3. CASE Buying \/ Crash
    <2>1. row'.paid = row.paid /\ row'.sub = row.sub /\ row'.via = row.via
      BY <1>1, <1>3 DEF Buying, BuyDomain, Register, SaveDomain, BuyFails, Crash, Row
    <2>2. (LiveIsLast /\ EndIsPending /\ Silent)'
      BY <1>1, <2>1 DEF OrderInv, LiveIsLast, EndIsPending, Silent, Pending, Pays, Handled
    <2>3. Switched'
      <3>1. CASE Register
        <4>1. renew' = "on" /\ missed' = (missed \/ ~row.paid)
          BY <3>1 DEF Register
        <4> QED
          BY <2>1, <4>1, Zenon DEF Switched
      <3>2. CASE BuyDomain \/ SaveDomain \/ BuyFails
        <4>1. UNCHANGED <<handler, renew, missed>>
          BY <3>2 DEF BuyDomain, SaveDomain, BuyFails
        <4> QED
          BY <2>1, <4>1 DEF OrderInv, Switched, Turning
      <3>3. CASE Crash
        <4> SUFFICES ASSUME ~missed', renew' # "no domain", row'.via # "manual" PROVE (renew' = "on") <=> row'.paid
          BY DEF Switched
        <4>1. renew' = renew /\ ~missed /\ \A h \in Handlers : ~Owed(h)
          BY <3>3, Zenon DEF Crash
        <4>2. renew \in {"no domain", "on", "off"}
          BY DEF OrderInv, BillingInv, RestTyped
        <4>3. CASE Turning
          <5>1. PICK h \in Handlers : handler[h].pc \in {"renewOn", "renewOff"}
            BY <4>3 DEF Turning
          <5> QED
            BY <2>1, <4>1, <4>2, <5>1, OwedIsKnown DEF Owed
        <4>4. CASE ~Turning
          BY <2>1, <4>1, <4>4 DEF OrderInv, Switched
        <4> QED
          BY <4>3, <4>4
      <3> QED
        BY <1>3, <3>1, <3>2, <3>3 DEF Buying
    <2>4. FirstServed' /\ Served'
      <3>1. CASE Buying
        <4>1. handler' = handler
          BY <3>1 DEF Buying, BuyDomain, Register, SaveDomain, BuyFails
        <4> QED
          BY <1>1, <2>1, <4>1 DEF OrderInv, FirstServed, Served, ServedRow, Pays, Handled
      <3>2. CASE Crash
        BY <3>2 DEF Crash, Idle, FirstServed, Served
      <3> QED
        BY <1>3, <3>1, <3>2
    <2> QED
      BY <1>2, <2>2, <2>3, <2>4
  <1>4. CASE MarkPaidByHand
    <2>1. /\ UNCHANGED handler /\ ~row.paid
          /\ row'.paid = TRUE /\ row'.via = "manual" /\ row'.sub = row.sub
      BY <1>1, <1>4 DEF MarkPaidByHand, Row
    <2>2. (LiveIsLast /\ EndIsPending /\ Silent /\ Switched)'
      BY <1>1, <2>1 DEF OrderInv, LiveIsLast, EndIsPending, Silent, Switched, Pending, Pays, Handled
    <2>3. FirstServed' /\ Served'
      BY <1>1, <2>1 DEF OrderInv, FirstServed, Served, ServedRow, Pays, Handled
    <2> QED
      BY <1>2, <2>2, <2>3
  <1>5. CASE MarkUnpaidByHand
    <2>1. /\ events = <<>> /\ Live = {} /\ row'.via = "none" /\ row'.paid = FALSE /\ handler' = handler
          /\ renew' = renew /\ missed' = (missed \/ renew = "on")
      BY <1>1, <1>5 DEF MarkUnpaidByHand, Row, Live
    <2>2. Pending = {}
      BY <2>1, EventsSeq DEF OrderInv, Pending
    <2>3. (LiveIsLast /\ EndIsPending /\ Silent)'
      BY <1>1, <2>1, <2>2 DEF LiveIsLast, EndIsPending, Silent, Pending
    <2>5. Switched'
      BY <2>1, Zenon DEF Switched
    <2>4. FirstServed' /\ Served'
      BY <1>1, <2>1 DEF OrderInv, FirstServed, Served
    <2> QED
      BY <1>2, <2>3, <2>4, <2>5
  <1> QED
    BY <1>3, <1>4, <1>5

LEMMA OrderInvariance == ASSUME OneAtATime PROVE Spec => []OrderInv
  <1>1. Init => OrderInv
    <2> SUFFICES ASSUME Init PROVE OrderInv
      OBVIOUS
    <2>1. BillingInv
      BY InitInv
    <2>2. /\ Pending = {} /\ Live = {} /\ \A h \in Handlers : handler[h].pc = "idle"
          /\ \A s \in Subs : checkout[s] = "none" /\ announced[s] = 0
      <3>1. Len(events) = 0
        BY EmptySeq DEF Init
      <3>2. Pending = {}
        BY <3>1 DEF Pending
      <3>3. \A s \in Subs : checkout[s] = "none" /\ announced[s] = 0
        BY DEF Init
      <3> QED
        BY <3>2, <3>3 DEF Init, Live, Idle
    <2>3. MailInv
      BY <2>2 DEF MailInv, OneCheckout, Emitted, Once, PaidBeforeEnd
    <2>4. FirstServed /\ Served /\ LiveIsLast /\ Silent /\ Untold
      BY <2>2 DEF FirstServed, Served, LiveIsLast, Silent, Untold
    <2>5. EndIsPending /\ Switched
      BY DEF Init, EndIsPending, Switched
    <2> QED
      BY <2>1, <2>3, <2>4, <2>5 DEF OrderInv
  <1>2. OrderInv /\ [Next]_vars => OrderInv'
    <2> SUFFICES ASSUME OrderInv, [Next]_vars PROVE OrderInv'
      OBVIOUS
    <2>1. BillingInv'
      BY InvStep DEF OrderInv
    <2>2. CASE UNCHANGED vars
      BY <2>1, <2>2, MailKept DEF vars, OrderInv, FirstServed, Served, ServedRow, LiveIsLast, EndIsPending, Silent,
                                  Untold, Switched, Turning, Settled, Live, Pending, Pays, Handled
    <2>3. ASSUME NEW s \in Subs, Subscribe(s) \/ CompleteCheckout(s) \/ SettlePayment(s) \/ Cancel(s)
          PROVE  OrderInv'
      BY <2>1, <2>3, MailStripe, OrderStripe DEF OrderInv
    <2>4. ASSUME NEW h \in Handlers, Deliver(h) \/ Acknowledge(h) \/ LoseAnswer(h) \/ Conflict(h)
          PROVE  OrderInv'
      BY <2>1, <2>4, OrderDelivery DEF OrderInv
    <2>5. ASSUME NEW h \in Handlers, Record(h) \/ MarkPaid(h) \/ RenewOn(h) \/ Accept(h)
          PROVE  OrderInv'
      BY <2>1, <2>5, OrderStarted DEF OrderInv
    <2>6. ASSUME NEW h \in Handlers, End(h) \/ MarkUnpaid(h) \/ RenewOff(h)
          PROVE  OrderInv'
      BY <2>1, <2>6, OrderEnded DEF OrderInv
    <2>7. CASE Buying \/ MarkPaidByHand \/ MarkUnpaidByHand \/ Crash
      BY <2>1, <2>7, OrderOther DEF OrderInv
    <2> QED
      BY <2>2, <2>3, <2>4, <2>5, <2>6, <2>7 DEF Next, Buying
  <1> QED
    BY <1>1, <1>2, PTL DEF Spec

\* Once every event is handled, a live subscription means a paid project, and one paid by
\* subscription has a live one: for any number of subscriptions, crashes, conflicts and
\* lost answers, as long as Stripe's events come in order and one at a time.
THEOREM InStepWhenQuiet == ASSUME OneAtATime PROVE Spec => []QuietMeansInStep
  <1>1. OrderInv => QuietMeansInStep
    <2> SUFFICES ASSUME OrderInv, events = <<>>
                 PROVE  (Live # {} => row.paid) /\ (row.via = "stripe" => row.sub \in Live)
      BY DEF QuietMeansInStep, Quiet
    <2>1. Pending = {}
      BY EventsSeq DEF OrderInv, Pending
    <2> QED
      BY <2>1 DEF OrderInv, LiveIsLast, EndIsPending
  <1> QED
    BY <1>1, OrderInvariance, PTL

\* Nobody is told twice that the same subscription is active, whatever crashes, conflicts
\* and repeated deliveries come in between (SubscriptionStarted's replay check), under the
\* same condition.
THEOREM ToldOnce == ASSUME OneAtATime PROVE Spec => []AnnouncedOnce
  <1>1. OrderInv => AnnouncedOnce
    BY DEF OrderInv, Untold, AnnouncedOnce
  <1> QED
    BY <1>1, OrderInvariance, PTL

\* Once every event is handled, a registered domain renews itself exactly while its project is
\* paid, unless the one call of setDomainAutoRenew was missed in a way the model names (the
\* registrar's error, a crash, a handler whose copy lacks the domain, an operator's mark):
\* for any number of subscriptions, purchases, crashes and lost answers, with Stripe's events
\* in order and one at a time.
THEOREM RenewalIsInStep == ASSUME OneAtATime PROVE Spec => []RenewalFollowsPayment
  <1>1. OrderInv => RenewalFollowsPayment
    <2> SUFFICES ASSUME OrderInv, Quiet, ~missed, renew # "no domain", row.via # "manual" PROVE (renew = "on") = row.paid
      BY DEF RenewalFollowsPayment
    <2>1. row.paid \in BOOLEAN
      BY DEF OrderInv, BillingInv, RowTyped, Row
    <2>2. ~Turning
      BY DEF Quiet, Turning
    <2>3. (renew = "on") <=> row.paid
      BY <2>2 DEF OrderInv, Switched
    <2> QED
      BY <2>1, <2>3
  <1> QED
    BY <1>1, OrderInvariance, PTL
=============================================================================
