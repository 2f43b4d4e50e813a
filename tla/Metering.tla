------------------------------ MODULE Metering ------------------------------
(***************************************************************************)
(* The monthly changes of a paying customer (orchestrator/changes.go and   *)
(* project.go): Reiterate counts a paid change when it starts, finishBuild *)
(* bills it when it ships beyond the allowance, markFailed gives it back.  *)
(* Who gives back is decided where the build's goroutine starts, and again *)
(* by recovery, which has only the iteration's number and prompt to go by. *)
(*                                                                         *)
(* The project has its first preview.  Months are the customer's own       *)
(* windows, counted from 1; 0 is the unset ChangePeriodStart.  Builds of   *)
(* one project do not overlap here (Pipeline has those races); the Stripe  *)
(* call of a shipped change overlaps the next build.  Not modelled: a      *)
(* subscription that ends, after which changes are free again.             *)
(***************************************************************************)
EXTENDS Integers, FiniteSets

CONSTANTS
  PerMonth,       \* changesPerMonth
  MaxIterations,  \* builds of an unpaid project
  MaxMonths,      \* bound: months that pass
  MaxChanges,     \* bound: changes and fixes that start
  MaxCrashes      \* bound: process crashes or deploys

ASSUME MeteringAssumption ==
  /\ PerMonth \in Nat \ {0}
  /\ MaxIterations \in Nat /\ MaxMonths \in Nat \ {0}
  /\ MaxChanges \in Nat /\ MaxCrashes \in Nat

VARIABLES
  row,        \* paid, IterationsUsed, ChangesThisPeriod, ChangePeriodStart
  build,      \* the project's building pass
  now,        \* the month
  due,        \* overage charges decided on, Stripe not yet asked
  invoiced,   \* Stripe: overage charges on the customer's invoices
  waived,     \* overage charges that came to nothing: comps, errors, crashes
  shipped,    \* paid changes that shipped, by the month that counted them
  starts, crashes

vars == <<row, build, now, due, invoiced, waived, shipped, starts, crashes>>

Months == 1 .. MaxMonths

Row == [paid : BOOLEAN, used : Nat, count : Nat, start : Months \cup {0}]

\* by: a customer's change or an operator's fix.   month: the month whose
\* allowance the change took, 0 for one that Reiterate did not count.
\* refund: the flag given to asyncWithPaidChangeRefund.   stranded: status
\* building, with no iteration for recovery to find.
Build == [pc : {"none", "agent", "fail", "stranded"}, by : {"customer", "operator"},
          month : Months \cup {0}, refund : BOOLEAN]

NoBuild == [pc |-> "none", by |-> "operator", month |-> 0, refund |-> FALSE]

TypeOK ==
  /\ row \in Row
  /\ build \in Build
  /\ now \in Months
  /\ {due, invoiced, waived} \subseteq Nat
  /\ shipped \in [Months -> Nat]
  /\ starts \in 0 .. MaxChanges
  /\ crashes \in 0 .. MaxCrashes

-----------------------------------------------------------------------------
(* The counter: project.go. *)

RecordChange(r) ==
  IF now > r.start THEN [r EXCEPT !.start = now, !.count = 1]
                   ELSE [r EXCEPT !.count = @ + 1]

ChangesUsed == IF now > row.start THEN 0 ELSE row.count

\* Weakened: no floor.
RefundBelowZero(r) == [r EXCEPT !.count = @ - 1]

RefundChange(r) == IF r.count = 0 THEN r ELSE [r EXCEPT !.count = @ - 1]

-----------------------------------------------------------------------------
(* Requests, and time. *)

Money == UNCHANGED <<due, invoiced, waived, shipped>>

Starts(by, month) ==
  /\ build.pc = "none"
  /\ starts < MaxChanges
  /\ starts' = starts + 1
  /\ build' = [pc |-> "agent", by |-> by, month |-> month, refund |-> month # 0]
  /\ UNCHANGED <<now, crashes>> /\ Money

\* A paid change is counted at once, and never refused.
RequestChange == row.paid /\ row' = RecordChange(row) /\ Starts("customer", now)

\* An unpaid refinement is capped, and not counted.
Refine == ~row.paid /\ row.used < MaxIterations /\ Starts("customer", 0) /\ UNCHANGED row

OperatorIterate == Starts("operator", 0) /\ UNCHANGED row

\* MarkPaid, also while an unpaid refinement is being built.
MarkPaid ==
  /\ ~row.paid
  /\ row' = [row EXCEPT !.paid = TRUE]
  /\ UNCHANGED <<build, now, starts, crashes>> /\ Money

NextMonth ==
  /\ now < MaxMonths
  /\ now' = now + 1
  /\ UNCHANGED <<row, build, starts, crashes>> /\ Money

-----------------------------------------------------------------------------
(* The build ends. *)

\* Weakened: the last included change is billed.
OverageTooEarly == row.paid /\ build.by = "customer" /\ row.count >= PerMonth

\* finishBuild decides by the counter it finds.
Overage == row.paid /\ build.by = "customer" /\ row.count > PerMonth

FinishBuild ==
  /\ build.pc = "agent"
  /\ due' = IF Overage THEN due + 1 ELSE due
  /\ row' = IF build.by = "customer" THEN [row EXCEPT !.used = @ + 1] ELSE row
  /\ shipped' = IF build.month = 0 THEN shipped ELSE [shipped EXCEPT ![build.month] = @ + 1]
  /\ build' = NoBuild
  /\ UNCHANGED <<now, invoiced, waived, starts, crashes>>

\* billOverage: no Stripe customer, or a Stripe error, leaves the operator a note.
BillOverage ==
  /\ due > 0
  /\ due' = due - 1
  /\ \/ invoiced' = invoiced + 1 /\ UNCHANGED waived
     \/ waived' = waived + 1 /\ UNCHANGED invoiced
  /\ UNCHANGED <<row, build, now, shipped, starts, crashes>>

BuildFails ==
  /\ build.pc = "agent"
  /\ build' = [build EXCEPT !.pc = "fail"]
  /\ UNCHANGED <<row, now, starts, crashes>> /\ Money

\* Weakened: a failed change keeps its place in the allowance.
MarkFailedKeepsIt ==
  /\ build.pc = "fail"
  /\ build' = NoBuild
  /\ UNCHANGED <<row, now, starts, crashes>> /\ Money

\* markFailed on a project that has a preview; its write may fail for good.
MarkFailed ==
  /\ build.pc = "fail"
  /\ \/ /\ row' = IF row.paid /\ build.refund THEN RefundChange(row) ELSE row
        /\ build' = NoBuild
     \/ build' = [build EXCEPT !.pc = "stranded"] /\ UNCHANGED row
  /\ UNCHANGED <<now, starts, crashes>> /\ Money

\* Recovery re-attaches to the build or reaps it, and takes any numbered build
\* with a prompt for a counted change.  Between two writes of the row and the
\* iteration it finds nothing.  Charges not yet made are forgotten.
Crash ==
  /\ crashes < MaxCrashes
  /\ crashes' = crashes + 1
  /\ due' = 0 /\ waived' = waived + due
  /\ IF build.pc \in {"none", "stranded"} THEN UNCHANGED build
     ELSE \E pc \in {"agent", "fail", "stranded"} :
            build' = [build EXCEPT !.pc = pc, !.refund = build.by = "customer"]
  /\ UNCHANGED <<row, now, invoiced, shipped, starts>>

Init ==
  /\ row = [paid |-> FALSE, used |-> 1, count |-> 0, start |-> 0]
  /\ build = NoBuild
  /\ now = 1
  /\ due = 0 /\ invoiced = 0 /\ waived = 0
  /\ shipped = [m \in Months |-> 0]
  /\ starts = 0 /\ crashes = 0

Next ==
  \/ RequestChange \/ Refine \/ OperatorIterate \/ MarkPaid \/ NextMonth
  \/ FinishBuild \/ BillOverage \/ BuildFails \/ MarkFailed
  \/ Crash

Spec == Init /\ [][Next]_vars

-----------------------------------------------------------------------------
(* Properties. *)

\* What the customer is shown as used this month is what they got, and the one
\* change being built: a failed build, of whoever's, found by whichever path,
\* in whatever month, neither costs a change nor gives one back (markFailed:
\* "otherwise the customer silently loses a change").
UsedIsShipped ==
  ChangesUsed = shipped[now] + IF build.month = now THEN 1 ELSE 0

\* The shipped changes beyond their month's allowance, by their number in the month.
ShippedBeyond == {c \in Months \X (1 .. MaxChanges) : PerMonth < c[2] /\ c[2] <= shipped[c[1]]}

\* Exactly the shipped changes beyond a month's allowance are charged, each
\* once, unless the charge was waived or lost: none for a failed change, for an
\* operator's fix or for a free refinement that was paid for while it was built.
OverageBilledOnce == invoiced + due + waived = Cardinality(ShippedBeyond)
=============================================================================
