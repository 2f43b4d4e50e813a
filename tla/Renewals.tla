------------------------------ MODULE Renewals ------------------------------
(***************************************************************************)
(* Renewals of a purchased, active domain: the registrar renews it once a  *)
(* year and charges us, and a daily poller passes the price on when the    *)
(* registry's expiry has moved past what the customer has paid for         *)
(* (rebillDomainRenewals, product/internal/orchestrator/domains.go).       *)
(*                                                                         *)
(* Time is counted in months from the registration.                        *)
(***************************************************************************)
EXTENDS Naturals

CONSTANTS Lags,         \* months that may pass between registration and activation
          MaxRenewals,  \* bound: renewals by the registrar
          MaxDetours    \* bound: detaches, other writes, crashes, unanswered and refused calls

VARIABLES
  row,       \* the projects row: domain status, DomainPaidThrough (0: not tracked)
  fresh,     \* the poller's copy is current
  poller,    \* [pc, paid, exp]: where it is, its copy, the expiry it read
  expiry,    \* the registry's expiry date
  covered,   \* what the customer or the operator has been told to pay for (0: nothing yet)
  invoiced,  \* invoice items added
  detours

vars == <<row, fresh, poller, expiry, covered, invoiced, detours>>

Year == 12
Grace == 1
Idle == [pc |-> "idle", paid |-> 0, exp |-> 0]
Last == Year * (MaxRenewals + 1)
Detour == detours < MaxDetours /\ detours' = detours + 1

TypeOK ==
  /\ row \in [status : {"registering", "active", "none"}, paid : Nat] /\ fresh \in BOOLEAN
  /\ poller \in [pc : {"idle", "read", "anchor", "bill", "save"}, paid : Nat, exp : 0 .. Last]
  /\ expiry \in Year .. Last /\ covered \in Nat /\ invoiced \in Nat /\ detours \in 0 .. MaxDetours

Active == row.status = "active"

Init ==
  /\ row = [status |-> "registering", paid |-> 0] /\ expiry = Year /\ covered = 0
  /\ fresh = FALSE /\ poller = Idle /\ invoiced = 0 /\ detours = 0

----------------------------------------------------------------------------
(* The registrar, and other writers of the row.                            *)

\* activateDomain counts a year from the day it runs; a row from before the tracking has
\* no date.
Activate ==
  /\ row.status = "registering"
  /\ \E paid \in {Year + lag : lag \in Lags} \cup {0} :
       row' = [status |-> "active", paid |-> paid] /\ covered' = paid
  /\ UNCHANGED <<fresh, poller, expiry, invoiced, detours>>

AutoRenew ==
  /\ Active /\ expiry < Last /\ expiry' = expiry + Year
  /\ UNCHANGED <<row, fresh, poller, covered, invoiced, detours>>

DetachDomain ==
  /\ Active /\ Detour /\ row' = [row EXCEPT !.status = "none"] /\ fresh' = FALSE
  /\ UNCHANGED <<poller, expiry, covered, invoiced>>

Touch ==
  /\ fresh /\ Detour /\ fresh' = FALSE
  /\ UNCHANGED <<row, poller, expiry, covered, invoiced>>

----------------------------------------------------------------------------
(* The poller.                                                             *)

End == poller' = Idle /\ fresh' = FALSE
To(pc) == poller' = [poller EXCEPT !.pc = pc] /\ UNCHANGED fresh

\* rebillDomainRenewals lists the projects; this one's turn may come much later.
ListProjects ==
  /\ poller.pc = "idle" /\ Active
  /\ poller' = [pc |-> "read", paid |-> row.paid, exp |-> 0] /\ fresh' = TRUE
  /\ UNCHANGED <<row, expiry, covered, invoiced, detours>>

\* A first sight anchors the clock; a renewal shows as more than the grace.
DomainExpiry ==
  /\ poller.pc = "read"
  /\ IF poller.paid > 0 /\ expiry <= poller.paid + Grace THEN End
     ELSE /\ poller' = [poller EXCEPT !.pc = IF poller.paid = 0 THEN "anchor" ELSE "bill", !.exp = expiry]
          /\ UNCHANGED fresh
  /\ UNCHANGED <<row, expiry, covered, invoiced, detours>>

\* No answer, or a date that cannot be read: the next day again.
ExpiryUnknown ==
  /\ poller.pc = "read" /\ Detour /\ End
  /\ UNCHANGED <<row, expiry, covered, invoiced>>

\* Weakened: a refused invoice item does not keep the renewal open.
RefusedAndSaved ==
  /\ poller.pc = "bill" /\ Detour /\ To("save")
  /\ UNCHANGED <<row, expiry, covered, invoiced>>

\* AddInvoiceItem refused: nothing is saved.
Refused ==
  /\ poller.pc = "bill" /\ Detour /\ End
  /\ UNCHANGED <<row, expiry, covered, invoiced>>

\* Added, or noted for the operator where there is nobody to bill.
Bill ==
  /\ poller.pc = "bill" /\ To("save")
  /\ covered' = poller.exp
  /\ invoiced' \in {invoiced, invoiced + 1}
  /\ UNCHANGED <<row, expiry, detours>>

SavePaidThrough ==
  /\ poller.pc \in {"anchor", "save"} /\ End
  /\ row' = IF fresh THEN [row EXCEPT !.paid = poller.exp] ELSE row
  /\ covered' = IF fresh /\ poller.pc = "anchor" THEN poller.exp ELSE covered
  /\ UNCHANGED <<expiry, invoiced, detours>>

Crash ==
  /\ poller.pc # "idle" /\ Detour /\ End
  /\ UNCHANGED <<row, expiry, covered, invoiced>>

Poll == ListProjects \/ DomainExpiry \/ Bill \/ SavePaidThrough

Next == Activate \/ AutoRenew \/ DetachDomain \/ Touch \/ Poll \/ ExpiryUnknown \/ Refused \/ Crash

Spec == Init /\ [][Next]_vars

\* The ticker ticks, daily.
Fairness == WF_vars(Poll)
FairSpec == Spec /\ Fairness

----------------------------------------------------------------------------
(* Properties.                                                             *)

\* The registrar has renewed beyond what the customer or the operator was told of.
Behind == Active /\ covered > 0 /\ expiry > covered + Grace

\* A renewal that the registrar charges us for is passed on, to the customer or to the
\* operator, whatever is refused, overwritten or restarted on the way (rebillDomainRenewal:
\* nothing is saved before the invoice item is).
RenewalPassedOn == Behind ~> ~Behind

\* It "bills any that GleSYS has auto-renewed since we last billed them" (domains.go:579):
\* not more items than renewals.
RenewalInvoicedOnce == invoiced * Year <= expiry - Year
=============================================================================
