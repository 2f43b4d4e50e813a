---------------------------- MODULE MeteringProofs ----------------------------
(***************************************************************************)
(* UsedIsShipped for every allowance, cap, number of months, changes and   *)
(* crashes.  The counter belongs to one month, row.start; it counts what   *)
(* that month shipped and the counted change being built (CounterInv).     *)
(* Recovery may flag a refinement that was never counted for a refund: it  *)
(* began unpaid, so nothing had been counted, and RefundChange's floor     *)
(* does the rest (UncountedInv).                                           *)
(***************************************************************************)
EXTENDS Metering, FiniteSetTheorems, TLAPS

RowTyped   == row \in Row
BuildTyped == build \in Build
RestTyped  ==
  /\ now \in Months
  /\ due \in Nat /\ invoiced \in Nat /\ waived \in Nat
  /\ shipped \in [Months -> Nat]
  /\ starts \in 0 .. MaxChanges
  /\ crashes \in 0 .. MaxCrashes

TypeInv == RowTyped /\ BuildTyped /\ RestTyped

\* Nothing is counted or shipped in a month that has not come, or been used.
MonthInv ==
  /\ row.start <= now
  /\ \A m \in Months : m > row.start => shipped[m] = 0
  /\ row.start = 0 => row.count = 0

CounterInv ==
  row.start # 0 => row.count = shipped[row.start] + IF build.month = row.start THEN 1 ELSE 0

\* Who holds a place in the allowance, and who may be taken to.
CountedInv ==
  /\ build.month # 0 => /\ build.month = row.start
                        /\ build.pc # "none" /\ build.refund /\ row.paid
  /\ build.refund => build.by = "customer"

UncountedInv ==
  /\ ~row.paid => row.start = 0
  /\ build.pc # "none" /\ build.by = "customer" /\ build.month = 0 => row.count = 0

UsedInv == TypeInv /\ MonthInv /\ CounterInv /\ CountedInv /\ UncountedInv

-----------------------------------------------------------------------------

LEMMA NoBuildType == NoBuild \in Build
  BY DEF NoBuild, Build

LEMMA StartsCount ==
  ASSUME RestTyped, NEW by \in {"customer", "operator"}, NEW month, Starts(by, month)
  PROVE  starts' \in 0 .. MaxChanges
  <1>1. starts \in 0 .. MaxChanges /\ MaxChanges \in Nat
    BY MeteringAssumption DEF RestTyped
  <1>2. starts < MaxChanges /\ starts' = starts + 1
    BY DEF Starts
  <1> QED
    BY <1>1, <1>2

LEMMA InitInv == Init => UsedInv
  <1> SUFFICES ASSUME Init PROVE UsedInv
    OBVIOUS
  <1>1. RowTyped
    BY DEF Init, RowTyped, Row
  <1>2. BuildTyped
    BY NoBuildType DEF Init, BuildTyped
  <1>3. RestTyped
    <2>1. 1 \in Months /\ 0 \in 0 .. MaxChanges /\ 0 \in 0 .. MaxCrashes
      BY MeteringAssumption DEF Months
    <2> QED
      BY <2>1 DEF Init, RestTyped
  <1>4. MonthInv
    BY DEF Init, MonthInv
  <1>5. CounterInv /\ CountedInv /\ UncountedInv
    BY DEF Init, NoBuild, CounterInv, CountedInv, UncountedInv
  <1> QED
    BY <1>1, <1>2, <1>3, <1>4, <1>5 DEF UsedInv, TypeInv

\* What starts a build, with nothing counted, leaves the counter alone.
LEMMA StartUncounted ==
  ASSUME UsedInv, Refine \/ OperatorIterate
  PROVE  UsedInv'
  <1> USE DEF UsedInv, TypeInv
  <1>1. UNCHANGED <<row, now, due, invoiced, waived, shipped, crashes>> /\ build.pc = "none"
    BY DEF Refine, OperatorIterate, Starts, Money
  <1>2. starts' \in 0 .. MaxChanges
    BY StartsCount DEF Refine, OperatorIterate
  <1>3. PICK by \in {"customer", "operator"} :
          /\ build' = [pc |-> "agent", by |-> by, month |-> 0, refund |-> FALSE]
          /\ by = "customer" => ~row.paid
    BY DEF Refine, OperatorIterate, Starts
  <1>4. TypeInv'
    BY <1>1, <1>2, <1>3 DEF RowTyped, BuildTyped, RestTyped, Build
  <1>5. build.month = 0
    BY <1>1 DEF CountedInv
  <1>6. MonthInv' /\ CounterInv'
    BY <1>1, <1>3, <1>5 DEF MonthInv, CounterInv
  <1>7. CountedInv' /\ UncountedInv'
    BY <1>1, <1>3 DEF CountedInv, UncountedInv, MonthInv
  <1> QED
    BY <1>4, <1>6, <1>7

\* RecordChange rolls the window forward and takes a place.
LEMMA StartCounted ==
  ASSUME UsedInv, RequestChange
  PROVE  UsedInv'
  <1> USE DEF UsedInv, TypeInv
  <1>1. UNCHANGED <<now, due, invoiced, waived, shipped, crashes>> /\ build.pc = "none" /\ row.paid
    BY DEF RequestChange, Starts, Money
  <1>2. starts' \in 0 .. MaxChanges
    BY StartsCount DEF RequestChange
  <1>3. build' = [pc |-> "agent", by |-> "customer", month |-> now, refund |-> TRUE] /\ now \in Months /\ now # 0
    <2>1. now \in Months /\ now # 0
      BY DEF RestTyped, Months
    <2>2. build' = [pc |-> "agent", by |-> "customer", month |-> now, refund |-> now # 0]
      BY DEF RequestChange, Starts
    <2>3. (now # 0) = TRUE
      BY <2>1
    <2> QED
      BY <2>1, <2>2, <2>3
  <1>4. /\ row'.paid /\ row' \in Row /\ row'.start = now
        /\ row'.count = IF now > row.start THEN 1 ELSE row.count + 1
    <2>1. row' = RecordChange(row) /\ row.start <= now /\ row.start \in Nat /\ row.count \in Nat /\ now \in Nat
      BY <1>3 DEF RequestChange, RowTyped, Row, MonthInv, Months
    <2>2. CASE now > row.start
      <3>1. row' = [row EXCEPT !.start = now, !.count = 1]
        BY <2>1, <2>2 DEF RecordChange
      <3> QED
        BY <1>1, <1>3, <2>2, <3>1 DEF RowTyped, Row
    <2>3. CASE ~(now > row.start)
      <3>1. row' = [row EXCEPT !.count = row.count + 1] /\ row.start = now
        BY <2>1, <2>3 DEF RecordChange
      <3> QED
        BY <1>1, <1>3, <2>1, <2>3, <3>1 DEF RowTyped, Row
    <2> QED
      BY <2>2, <2>3
  <1>5. TypeInv'
    BY <1>1, <1>2, <1>3, <1>4 DEF RowTyped, BuildTyped, RestTyped, Build
  <1>6. MonthInv'
    BY <1>1, <1>3, <1>4 DEF MonthInv, RestTyped, RowTyped, Row, Months
  <1>7. CounterInv'
    <2>1. CASE now > row.start
      <3>1. shipped[now] = 0
        BY <2>1 DEF MonthInv, RestTyped
      <3> QED
        BY <1>1, <1>3, <1>4, <2>1, <3>1 DEF CounterInv
    <2>2. CASE ~(now > row.start)
      <3>1. row.start = now /\ build.month = 0
        BY <1>1, <2>2 DEF MonthInv, CountedInv, RowTyped, Row, Months, RestTyped
      <3>2. row.count = shipped[now]
        <4>1. row.count = shipped[now] + 0 /\ shipped[now] \in Nat
          BY <1>3, <3>1 DEF CounterInv, RestTyped
        <4> QED
          BY <4>1
      <3> QED
        BY <1>1, <1>3, <1>4, <2>2, <3>2 DEF CounterInv
    <2> QED
      BY <2>1, <2>2
  <1>8. CountedInv' /\ UncountedInv'
    BY <1>3, <1>4 DEF CountedInv, UncountedInv
  <1> QED
    BY <1>5, <1>6, <1>7, <1>8

\* Payment, time and Stripe's answers.
LEMMA OutsideStep ==
  ASSUME UsedInv, MarkPaid \/ NextMonth \/ BillOverage \/ BuildFails
  PROVE  UsedInv'
  <1> USE DEF UsedInv, TypeInv
  <1>1. CASE MarkPaid
    <2>1. /\ UNCHANGED <<build, now, due, invoiced, waived, shipped, starts, crashes>>
          /\ row' \in Row /\ row'.paid /\ row'.count = row.count /\ row'.start = row.start
      BY <1>1 DEF MarkPaid, Money, RowTyped, Row
    <2> QED
      BY <2>1 DEF RowTyped, BuildTyped, RestTyped, MonthInv, CounterInv, CountedInv, UncountedInv
  <1>2. CASE NextMonth
    <2>1. /\ UNCHANGED <<row, build, due, invoiced, waived, shipped, starts, crashes>>
          /\ now' \in Months /\ now < now'
      BY <1>2, MeteringAssumption DEF NextMonth, Money, RestTyped, Months
    <2>2. MonthInv'
      BY <2>1 DEF MonthInv, RestTyped, RowTyped, Row, Months
    <2> QED
      BY <2>1, <2>2 DEF RowTyped, BuildTyped, RestTyped, CounterInv, CountedInv, UncountedInv
  <1>3. CASE BillOverage
    <2>1. /\ UNCHANGED <<row, build, now, shipped, starts, crashes>>
          /\ due' \in Nat /\ invoiced' \in Nat /\ waived' \in Nat
      BY <1>3 DEF BillOverage, RestTyped
    <2> QED
      BY <2>1 DEF RowTyped, BuildTyped, RestTyped, MonthInv, CounterInv, CountedInv, UncountedInv
  <1>4. CASE BuildFails
    <2>1. /\ UNCHANGED <<row, now, due, invoiced, waived, shipped, starts, crashes>>
          /\ build.pc = "agent" /\ build' = [build EXCEPT !.pc = "fail"]
      BY <1>4 DEF BuildFails, Money
    <2>2. /\ build' \in Build /\ build'.pc = "fail" /\ build'.month = build.month
          /\ build'.by = build.by /\ build'.refund = build.refund
      BY <2>1 DEF BuildTyped, Build
    <2> QED
      BY <2>1, <2>2 DEF RowTyped, BuildTyped, RestTyped, MonthInv, CounterInv, CountedInv, UncountedInv
  <1> QED
    BY <1>1, <1>2, <1>3, <1>4

\* A shipped change turns from the one being built into one of its month's.
LEMMA ShipStep ==
  ASSUME UsedInv, FinishBuild
  PROVE  UsedInv'
  <1> USE DEF UsedInv, TypeInv
  <1>1. UNCHANGED <<now, invoiced, waived, starts, crashes>> /\ build' = NoBuild /\ due' \in Nat
    BY DEF FinishBuild, RestTyped
  <1>2. row' \in Row /\ row'.paid = row.paid /\ row'.count = row.count /\ row'.start = row.start
    BY DEF FinishBuild, RowTyped, Row
  <1>3. build.month \in Months \cup {0} /\ build.month # 0 => build.month = row.start
    BY DEF BuildTyped, Build, CountedInv
  <1>4. shipped' \in [Months -> Nat]
    <2>1. CASE build.month = 0
      BY <2>1 DEF FinishBuild, RestTyped
    <2>2. CASE build.month # 0
      <3>1. build.month \in Months /\ shipped \in [Months -> Nat]
        BY <1>3, <2>2 DEF RestTyped, BuildTyped, Build
      <3>2. shipped' = [shipped EXCEPT ![build.month] = shipped[build.month] + 1]
        BY <2>2 DEF FinishBuild
      <3> QED
        BY <3>1, <3>2
    <2> QED
      BY <2>1, <2>2
  <1>5. \A m \in Months : shipped'[m] = shipped[m] + IF build.month = m THEN 1 ELSE 0
    BY DEF FinishBuild, RestTyped, Months
  <1>6. TypeInv'
    BY <1>1, <1>2, <1>4, NoBuildType DEF RowTyped, BuildTyped, RestTyped
  <1>7. MonthInv'
    <2>1. \A m \in Months : m > row.start => build.month # m
      BY DEF CountedInv, RowTyped, Row, Months
    <2> QED
      BY <1>1, <1>2, <1>5, <2>1 DEF MonthInv, RestTyped
  <1>8. CounterInv'
    <2>1. row.start # 0 => row.start \in Months
      BY DEF RowTyped, Row
    <2> QED
      <3> SUFFICES ASSUME row.start # 0
                   PROVE  row.count = shipped'[row.start] + 0
        BY <1>1, <1>2, <2>1 DEF CounterInv, NoBuild
      <3>1. row.count = shipped[row.start] + IF build.month = row.start THEN 1 ELSE 0
        BY DEF CounterInv
      <3>2. shipped'[row.start] = shipped[row.start] + IF build.month = row.start THEN 1 ELSE 0
        BY <1>5, <2>1
      <3>3. shipped'[row.start] \in Nat
        BY <1>4, <2>1
      <3> QED
        BY <3>1, <3>2, <3>3
  <1>9. CountedInv' /\ UncountedInv'
    BY <1>1, <1>2 DEF NoBuild, CountedInv, UncountedInv
  <1> QED
    BY <1>6, <1>7, <1>8, <1>9

\* A failed change gives back the place it holds, and only that.
LEMMA FailStep ==
  ASSUME UsedInv, MarkFailed
  PROVE  UsedInv'
  <1> USE DEF UsedInv, TypeInv
  <1>1. UNCHANGED <<now, due, invoiced, waived, shipped, starts, crashes>> /\ build.pc = "fail"
    BY DEF MarkFailed, Money
  <1>2. CASE build' = [build EXCEPT !.pc = "stranded"] /\ UNCHANGED row
    <2>1. /\ build' \in Build /\ build'.pc = "stranded" /\ build'.month = build.month
          /\ build'.by = build.by /\ build'.refund = build.refund
      BY <1>2 DEF BuildTyped, Build
    <2> QED
      BY <1>1, <1>2, <2>1 DEF RowTyped, BuildTyped, RestTyped, MonthInv, CounterInv, CountedInv, UncountedInv
  <1>3. CASE /\ build' = NoBuild
             /\ row' = IF row.paid /\ build.refund THEN RefundChange(row) ELSE row
    <2>1. row.count \in Nat /\ row.start \in Nat
      BY DEF RowTyped, Row, Months
    <2>2. /\ row' \in Row /\ row'.paid = row.paid /\ row'.start = row.start
          /\ row'.count = IF row.paid /\ build.refund /\ row.count # 0 THEN row.count - 1 ELSE row.count
      BY <1>3, <2>1 DEF RefundChange, RowTyped, Row
    <2>3. TypeInv'
      BY <1>1, <1>3, <2>2, NoBuildType DEF RowTyped, BuildTyped, RestTyped
    <2>4. CounterInv'
      <3>1. CASE build.month # 0
        <4>1. row.paid /\ build.refund /\ build.month = row.start
          BY <3>1 DEF CountedInv
        <4>2. row.start # 0 /\ row.start \in Months /\ row.count = shipped[row.start] + 1
          BY <3>1, <4>1 DEF CounterInv, RowTyped, Row
        <4>3. shipped[row.start] \in Nat
          BY <4>2 DEF RestTyped
        <4> QED
          BY <1>1, <1>3, <2>2, <4>1, <4>2, <4>3 DEF CounterInv, NoBuild
      <3>2. CASE build.month = 0
        <4>1. build.refund => row.count = 0
          BY <1>1, <3>2 DEF CountedInv, UncountedInv
        <4> QED
          BY <1>1, <1>3, <2>2, <3>2, <4>1 DEF CounterInv, NoBuild
      <3> QED
        BY <3>1, <3>2
    <2>5. MonthInv'
      BY <1>1, <2>2 DEF MonthInv
    <2>6. CountedInv' /\ UncountedInv'
      BY <1>3, <2>2 DEF NoBuild, CountedInv, UncountedInv
    <2> QED
      BY <2>3, <2>4, <2>5, <2>6
  <1> QED
    BY <1>2, <1>3 DEF MarkFailed

\* Recovery raises the flag of every customer's build, counted or not.
LEMMA CrashStep ==
  ASSUME UsedInv, Crash
  PROVE  UsedInv'
  <1> USE DEF UsedInv, TypeInv
  <1>1. UNCHANGED <<row, now, invoiced, shipped, starts>> /\ due' \in Nat /\ waived' \in Nat
    BY DEF Crash, RestTyped
  <1>2. crashes' \in 0 .. MaxCrashes
    BY MeteringAssumption DEF Crash, RestTyped
  <1> DEFINE Resumed ==
        /\ build' \in Build /\ build'.month = build.month /\ build'.by = build.by
        /\ build'.pc = "none" <=> build.pc = "none"
        /\ build.refund => build'.refund
        /\ build'.refund => build'.by = "customer"
  <1>3. Resumed
    <2>1. CASE UNCHANGED build
      BY <2>1 DEF BuildTyped, CountedInv
    <2>2. CASE build.pc # "none" /\ ~UNCHANGED build
      <3>1. PICK pc \in {"agent", "fail", "stranded"} :
              build' = [build EXCEPT !.pc = pc, !.refund = build.by = "customer"]
        BY <2>2 DEF Crash
      <3> DEFINE flag == build.by = "customer"
      <3>2. flag \in BOOLEAN
        OBVIOUS
      <3>3. build' = [build EXCEPT !.pc = pc, !.refund = flag]
        BY <3>1
      <3> HIDE DEF flag
      <3>4. build' \in Build /\ build'.month = build.month /\ build'.by = build.by
            /\ build'.pc = pc /\ build'.refund = flag
        BY <3>2, <3>3 DEF BuildTyped, Build
      <3>5. build.refund => flag
        BY DEF CountedInv, flag
      <3>6. flag => build.by = "customer"
        BY DEF flag
      <3> QED
        BY <2>2, <3>4, <3>5, <3>6
    <2> QED
      BY <2>1, <2>2 DEF Crash
  <1> HIDE DEF Resumed
  <1>4. TypeInv'
    BY <1>1, <1>2, <1>3 DEF RowTyped, BuildTyped, RestTyped, Resumed
  <1>5. MonthInv' /\ CounterInv'
    BY <1>1, <1>3 DEF MonthInv, CounterInv, Resumed
  <1>6. CountedInv' /\ UncountedInv'
    BY <1>1, <1>3 DEF CountedInv, UncountedInv, Resumed
  <1> QED
    BY <1>4, <1>5, <1>6

LEMMA InvStep == UsedInv /\ [Next]_vars => UsedInv'
  <1> SUFFICES ASSUME UsedInv, [Next]_vars PROVE UsedInv'
    OBVIOUS
  <1>1. CASE UNCHANGED vars
    BY <1>1 DEF vars, UsedInv, TypeInv, RowTyped, BuildTyped, RestTyped, MonthInv, CounterInv, CountedInv,
       UncountedInv
  <1>2. CASE Next
    BY <1>2, StartUncounted, StartCounted, OutsideStep, ShipStep, FailStep, CrashStep DEF Next
  <1> QED
    BY <1>1, <1>2

\* What the customer sees as used this month is what shipped, plus the change
\* being built: for every allowance, whatever fails, crashes, is resumed or
\* crosses the end of a month.
THEOREM UsedWasShipped == Spec => []UsedIsShipped
  <1>1. UsedInv => UsedIsShipped
    <2> SUFFICES ASSUME UsedInv PROVE UsedIsShipped
      OBVIOUS
    <2> USE DEF UsedInv, TypeInv
    <2>1. CASE now > row.start
      <3>1. shipped[now] = 0 /\ build.month # now
        BY <2>1 DEF MonthInv, CountedInv, RestTyped, Months, RowTyped, Row
      <3> QED
        BY <2>1, <3>1 DEF UsedIsShipped, ChangesUsed
    <2>2. CASE ~(now > row.start)
      <3>1. row.start = now /\ now # 0
        BY <2>2 DEF MonthInv, RestTyped, RowTyped, Row, Months
      <3> QED
        BY <2>2, <3>1 DEF UsedIsShipped, ChangesUsed, CounterInv
    <2> QED
      BY <2>1, <2>2
  <1> QED
    BY <1>1, InitInv, InvStep, PTL DEF Spec

\* The counter never goes below zero, nor any value out of its range.
THEOREM TypeCorrect == Spec => []TypeOK
  <1>1. UsedInv => TypeOK
    BY DEF UsedInv, TypeInv, TypeOK, RowTyped, BuildTyped, RestTyped
  <1> QED
    BY <1>1, InitInv, InvStep, PTL DEF Spec
-----------------------------------------------------------------------------
(* The charges for overage.  What one build adds to the shipped changes       *)
(* beyond the allowance is the change finishBuild bills: the counter it finds *)
(* is the number that change has in its month.                                *)

\* A month ships no more than was started.
ShippedWithin ==
  \A m \in Months : shipped[m] + (IF build.month = m THEN 1 ELSE 0) <= starts

ChargeInv == UsedInv /\ ShippedWithin /\ OverageBilledOnce

LEMMA BeyondIsFinite ==
  /\ IsFiniteSet(Months \X (1 .. MaxChanges))
  /\ IsFiniteSet(ShippedBeyond) /\ Cardinality(ShippedBeyond) \in Nat
  <1>1. IsFiniteSet(Months) /\ IsFiniteSet(1 .. MaxChanges)
    BY FS_Interval, MeteringAssumption DEF Months
  <1>2. IsFiniteSet(Months \X (1 .. MaxChanges))
    BY <1>1, FS_Product
  <1>3. IsFiniteSet(ShippedBeyond)
    BY <1>2, FS_Subset DEF ShippedBeyond
  <1> QED
    BY <1>2, <1>3, FS_CardinalityType

LEMMA WithinStep ==
  ASSUME UsedInv, ShippedWithin, [Next]_vars
  PROVE  ShippedWithin'
  <1> USE DEF UsedInv, TypeInv
  <1>0. starts \in Nat /\ shipped \in [Months -> Nat]
    BY DEF RestTyped
  <1>1. CASE RequestChange \/ Refine \/ OperatorIterate
    <2>1. UNCHANGED shipped /\ starts' = starts + 1 /\ build.pc = "none"
      BY <1>1 DEF RequestChange, Refine, OperatorIterate, Starts, Money
    <2>2. \A m \in Months : shipped[m] \in Nat /\ shipped[m] <= starts
      <3> SUFFICES ASSUME NEW m \in Months PROVE shipped[m] \in Nat /\ shipped[m] <= starts
        OBVIOUS
      <3>1. shipped[m] \in Nat /\ shipped[m] + (IF build.month = m THEN 1 ELSE 0) <= starts
        BY <1>0 DEF ShippedWithin
      <3> QED
        BY <1>0, <3>1
    <2> QED
      BY <1>0, <2>1, <2>2 DEF ShippedWithin
  <1>2. CASE FinishBuild
    <2>1. UNCHANGED starts /\ build'.month = 0
      BY <1>2 DEF FinishBuild, NoBuild
    <2>2. \A m \in Months : shipped'[m] = shipped[m] + IF build.month = m THEN 1 ELSE 0
      BY <1>0, <1>2 DEF FinishBuild, Months
    <2>3. \A m \in Months : m # 0
      BY DEF Months
    <2> QED
      BY <1>0, <2>1, <2>2, <2>3 DEF ShippedWithin
  <1>3. CASE MarkPaid \/ NextMonth \/ BillOverage
    BY <1>3 DEF MarkPaid, NextMonth, BillOverage, Money, ShippedWithin
  <1>4. CASE BuildFails \/ MarkFailed \/ Crash
    <2>1. UNCHANGED <<shipped, starts>>
      BY <1>4 DEF BuildFails, MarkFailed, Crash, Money
    <2>2. build'.month \in {build.month, 0}
      <3>1. CASE BuildFails \/ MarkFailed
        BY <3>1 DEF BuildFails, MarkFailed, NoBuild, BuildTyped, Build
      <3>2. CASE Crash
        <4>1. CASE UNCHANGED build
          BY <4>1
        <4>2. CASE ~UNCHANGED build
          <5>1. PICK pc \in {"agent", "fail", "stranded"} :
                  build' = [build EXCEPT !.pc = pc, !.refund = build.by = "customer"]
            BY <3>2, <4>2 DEF Crash
          <5> QED
            BY <5>1 DEF BuildTyped, Build
        <4> QED
          BY <4>1, <4>2
      <3> QED
        BY <1>4, <3>1, <3>2
    <2>3. \A m \in Months : m # 0
      BY DEF Months
    <2> QED
      BY <1>0, <2>1, <2>2, <2>3 DEF ShippedWithin
  <1>5. CASE UNCHANGED vars
    BY <1>5 DEF vars, ShippedWithin
  <1> QED
    BY <1>1, <1>2, <1>3, <1>4, <1>5 DEF Next

\* Steps that ship nothing only move charges between due, invoiced and waived.
LEMMA MoneyStep ==
  ASSUME UsedInv, OverageBilledOnce, [Next]_vars, ~FinishBuild
  PROVE  OverageBilledOnce'
  <1> USE DEF UsedInv, TypeInv
  <1>0. due \in Nat /\ invoiced \in Nat /\ waived \in Nat
    BY DEF RestTyped
  <1>1. UNCHANGED shipped
    BY DEF Next, vars, RequestChange, Refine, OperatorIterate, MarkPaid, NextMonth, BillOverage, BuildFails,
       MarkFailed, Crash, Starts, Money
  <1>2. invoiced' + due' + waived' = invoiced + due + waived
    <2>1. CASE BillOverage
      BY <1>0, <2>1 DEF BillOverage
    <2>2. CASE Crash
      BY <1>0, <2>2 DEF Crash
    <2> QED
      BY <2>1, <2>2 DEF Next, vars, RequestChange, Refine, OperatorIterate, MarkPaid, NextMonth, BuildFails,
         MarkFailed, Starts, Money
  <1>3. ShippedBeyond' = ShippedBeyond
    BY <1>1 DEF ShippedBeyond
  <1> QED
    BY <1>2, <1>3 DEF OverageBilledOnce

\* The counter finishBuild compares is the number of the change in its month.
LEMMA OverageIsBeyond ==
  ASSUME UsedInv, FinishBuild
  PROVE  Overage <=> build.month # 0 /\ PerMonth < shipped[build.month] + 1
  <1> USE DEF UsedInv, TypeInv
  <1>1. CASE build.month = 0
    <2>1. build.by = "customer" => row.count = 0
      BY <1>1 DEF FinishBuild, UncountedInv
    <2> QED
      BY <1>1, <2>1, MeteringAssumption DEF Overage
  <1>2. CASE build.month # 0
    <2>1. build.month = row.start /\ row.paid /\ build.by = "customer" /\ row.start \in Months
      BY <1>2 DEF CountedInv, RowTyped, Row
    <2>2. row.count = shipped[row.start] + 1
      BY <1>2, <2>1 DEF CounterInv
    <2> QED
      BY <1>2, <2>1, <2>2 DEF Overage
  <1> QED
    BY <1>1, <1>2

LEMMA ChargeStep ==
  ASSUME ChargeInv, FinishBuild
  PROVE  OverageBilledOnce'
  <1> USE DEF ChargeInv, UsedInv, TypeInv
  <1>0. /\ due \in Nat /\ invoiced \in Nat /\ waived \in Nat /\ shipped \in [Months -> Nat]
        /\ starts \in Nat /\ starts <= MaxChanges /\ MaxChanges \in Nat /\ PerMonth \in Nat
    BY MeteringAssumption DEF RestTyped
  <1>1. UNCHANGED <<invoiced, waived>> /\ due' = IF Overage THEN due + 1 ELSE due
    BY DEF FinishBuild
  <1>2. CASE build.month = 0
    <2>1. UNCHANGED <<invoiced, waived, due, shipped>>
      BY <1>1, <1>2, OverageIsBeyond DEF FinishBuild
    <2> QED
      BY <2>1 DEF OverageBilledOnce, ShippedBeyond
  <1>3. CASE build.month # 0
    <2> DEFINE m == build.month
    <2> DEFINE n == shipped[m] + 1
    <2>1. m \in Months /\ shipped' = [shipped EXCEPT ![m] = n]
      BY <1>3 DEF FinishBuild, BuildTyped, Build
    <2>2. n \in 1 .. MaxChanges
      <3>1. shipped[m] + 1 <= starts /\ shipped[m] \in Nat
        BY <1>0, <2>1 DEF ShippedWithin
      <3> QED
        BY <1>0, <3>1
    <2>3. Overage <=> PerMonth < n
      BY <1>3, OverageIsBeyond
    <2>4. <<m, n>> \notin ShippedBeyond
      BY <1>0, <2>1 DEF ShippedBeyond
    <2>5. ShippedBeyond' = IF PerMonth < n THEN ShippedBeyond \cup {<<m, n>>} ELSE ShippedBeyond
      <3>1. ASSUME NEW a \in Months, NEW k \in 1 .. MaxChanges
            PROVE  PerMonth < k /\ k <= shipped'[a]
                     <=> (PerMonth < k /\ k <= shipped[a]) \/ (PerMonth < n /\ a = m /\ k = n)
        <4>1. CASE a = m
          <5>1. shipped'[a] = shipped[a] + 1 /\ shipped[a] \in Nat /\ k \in Nat /\ n = shipped[a] + 1
            BY <1>0, <2>1, <4>1
          <5> HIDE DEF m, n
          <5> QED
            BY <1>0, <4>1, <5>1
        <4>2. CASE a # m
          BY <1>0, <2>1, <4>2
        <4> QED
          BY <4>1, <4>2
      <3> HIDE DEF m, n
      <3>2. ShippedBeyond' = {c \in Months \X (1 .. MaxChanges) : PerMonth < c[2] /\ c[2] <= shipped'[c[1]]}
        BY DEF ShippedBeyond, Months
      <3>3. <<m, n>> \in Months \X (1 .. MaxChanges)
        BY <2>1, <2>2
      <3>4. \A c \in Months \X (1 .. MaxChanges) :
              c \in ShippedBeyond' <=> c \in ShippedBeyond \/ (PerMonth < n /\ c = <<m, n>>)
        BY <3>1, <3>2 DEF ShippedBeyond
      <3> QED
        BY <3>2, <3>3, <3>4 DEF ShippedBeyond
    <2> HIDE DEF m, n
    <2>6. Cardinality(ShippedBeyond')
            = IF PerMonth < n THEN Cardinality(ShippedBeyond) + 1 ELSE Cardinality(ShippedBeyond)
      BY <2>4, <2>5, BeyondIsFinite, FS_AddElement
    <2> QED
      BY <1>0, <1>1, <2>3, <2>6, BeyondIsFinite DEF OverageBilledOnce
  <1> QED
    BY <1>2, <1>3

\* Every shipped change beyond its month's allowance is charged, waived or lost once,
\* and nothing else is: for every allowance, and however failures, crashes and the ends
\* of months fall.
THEOREM OverageIsBilledOnce == Spec => []OverageBilledOnce
  <1>1. Init => ChargeInv
    <2> SUFFICES ASSUME Init PROVE ShippedWithin /\ OverageBilledOnce
      BY InitInv DEF ChargeInv
    <2>1. ShippedWithin
      BY DEF Init, NoBuild, Months, ShippedWithin
    <2>2. ShippedBeyond = {}
      BY MeteringAssumption DEF Init, ShippedBeyond
    <2> QED
      BY <2>1, <2>2, FS_EmptySet DEF Init, OverageBilledOnce
  <1>2. ChargeInv /\ [Next]_vars => ChargeInv'
    BY InvStep, WithinStep, MoneyStep, ChargeStep DEF ChargeInv
  <1>3. ChargeInv => OverageBilledOnce
    BY DEF ChargeInv
  <1> QED
    BY <1>1, <1>2, <1>3, PTL DEF Spec
=============================================================================
