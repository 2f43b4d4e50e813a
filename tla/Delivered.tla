------------------------------ MODULE Delivered ------------------------------
(***************************************************************************)
(* What surrounds a delivered site, side by side: the subscription that    *)
(* Stripe's events pay for (Billing), the yearly renewals of its domain    *)
(* (Renewals), the review of its code (Reviews), the accounts of the site  *)
(* itself (SiteAccounts) and the dispatcher that sends its notifications   *)
(* (SiteHooks).                                                            *)
(*                                                                         *)
(* The site is a program and a database of its own; Reviews keeps of the   *)
(* payment what its triggers need, and Renewals of the domain what its     *)
(* poller does.  A behaviour is one of one component, chosen at the start, *)
(* while the others keep their initial states; no fair action is enabled   *)
(* in an initial state, so the fairness of components at rest asks nothing *)
(* of it.                                                                  *)
(***************************************************************************)
EXTENDS Billing

CONSTANTS
  \* SiteAccounts
  Requests, Emails, Owner, Folded, Reserved,
  \* SiteHooks
  Targets, Keyed, Admins, MaxMessages, MaxStops, MaxFaults,
  \* Reviews: a snapshot has at most MaxFiles files, of these sizes
  Runs, Sizes, MaxFiles, MaxFile, MaxTotal, MaxBuilds, MaxRestarts,
  \* Renewals
  Lags, MaxRenewals, MaxDetours

ASSUME DeliveredAssumption ==
  /\ Owner \in Folded /\ Folded \subseteq Emails /\ Reserved \in BOOLEAN /\ Keyed \subseteq Targets
  /\ MaxMessages \in Nat /\ MaxStops \in Nat /\ MaxFaults \in Nat
  /\ Sizes \subseteq Nat \ {0} /\ MaxFiles \in Nat /\ MaxFile \in Nat \ {0} /\ MaxTotal \in Nat
  /\ MaxBuilds \in Nat /\ MaxRestarts \in Nat /\ "pay" \notin Runs
  /\ Lags \subseteq Nat /\ MaxRenewals \in Nat /\ MaxDetours \in Nat

VARIABLES
  part,  \* the component that runs
  \* SiteAccounts
  users, sessions, req, cookie, served,
  \* SiteHooks
  stored, on, trigger, rows, sent, outbox, done, admin, disp, up, senders, told, skipped, stops, faults,
  \* Reviews
  project, current, pay, build, run, kept, lost, builds, restarts,
  \* Renewals
  domain, seen, poller, expiry, covered, invoiced, detours

Members == INSTANCE SiteAccounts

Hooks == INSTANCE SiteHooks WITH Hooks <- Targets

Snapshots == UNION {[1..n -> Sizes] : n \in 0..MaxFiles}

Reviewer == INSTANCE Reviews WITH
  row <- project, fresh <- current, crashes <- restarts, Trees <- Snapshots, MaxCrashes <- MaxRestarts

Renewal == INSTANCE Renewals WITH row <- domain, fresh <- seen

membersVars == <<users, sessions, req, cookie, served>>
hooksVars == <<stored, on, trigger, rows, sent, outbox, done, admin, disp, up, senders, told, skipped,
               stops, faults>>
reviewerVars == <<project, current, pay, build, run, kept, lost, builds, restarts>>
renewalVars == <<domain, seen, poller, expiry, covered, invoiced, detours>>
deliveredVars == <<part, vars, membersVars, hooksVars, reviewerVars, renewalVars>>

DeliveredInit ==
  /\ part \in {"billing", "members", "hooks", "reviewer", "renewal"}
  /\ Init /\ Members!Init /\ Hooks!Init /\ Reviewer!Init /\ Renewal!Init
  /\ part # "hooks" => senders = Targets  \* of Hooks' two initial states, one for a component at rest

DeliveredNext ==
  /\ UNCHANGED part
  /\ IF part = "billing" THEN Next ELSE UNCHANGED vars
  /\ IF part = "members" THEN Members!Next ELSE UNCHANGED membersVars
  /\ IF part = "hooks" THEN Hooks!Next ELSE UNCHANGED hooksVars
  /\ IF part = "reviewer" THEN Reviewer!Next ELSE UNCHANGED reviewerVars
  /\ IF part = "renewal" THEN Renewal!Next ELSE UNCHANGED renewalVars

DeliveredSpec ==
  /\ DeliveredInit /\ [][DeliveredNext]_deliveredVars
  /\ Fairness /\ Hooks!Fairness /\ Renewal!Fairness

----------------------------------------------------------------------------
(* The components' properties, under the names their modules give them.     *)

\* Every component's state keeps its type.
DeliveredTypeOK == TypeOK /\ Members!TypeOK /\ Hooks!TypeOK /\ Reviewer!TypeOK /\ Renewal!TypeOK

\* A site reserved for the customer who ordered it is owned only under an address that the
\* guard takes for the customer's (auth.CreateUser, handleSignup).
OwnerIsReserved == Members!OwnerIsReserved

\* An outbox entry is put aside only after its hooks were told, or after a failed read or a
\* missing notifier made deliver pass over them (hooks.deliver).
ToldBeforeDone == Hooks!ToldBeforeDone

\* Every outbox entry is put aside in the end (hooks.Run, hooks.Drain).
OutboxDrains == Hooks!OutboxDrains

\* A paid project with a finished build is reviewed (runCodeReview, finishBuild).
PaidIsReviewed == Reviewer!PaidIsReviewed

\* The reviewer is told of every file it does not see (sourceBundle).
ReviewerKnowsTheRest == Reviewer!ReviewerKnowsTheRest

\* A renewal the registrar charges for is passed on (rebillDomainRenewals).
RenewalPassedOn == Renewal!RenewalPassedOn
=============================================================================
