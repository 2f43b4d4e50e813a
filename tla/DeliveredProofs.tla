--------------------------- MODULE DeliveredProofs ---------------------------
(***************************************************************************)
(* Theorems about what surrounds a delivered site, for every value of the   *)
(* constants: its accounts (Members), the review of its code (Reviewer),    *)
(* its notification hooks (Hooks), and the types of all of it.              *)
(***************************************************************************)
EXTENDS Delivered, BillingProofs, FiniteSetTheorems, SequenceTheorems, WellFoundedInduction, TLAPS

\* Only one component runs; the others' steps are theirs or stutters.
LEMMA PartSteps ==
  ASSUME [DeliveredNext]_deliveredVars
  PROVE  /\ [Next]_vars /\ [Members!Next]_membersVars /\ [Hooks!Next]_hooksVars
         /\ [Reviewer!Next]_reviewerVars /\ [Renewal!Next]_renewalVars
  BY DEF DeliveredNext, deliveredVars

-----------------------------------------------------------------------------
(* The owner of the site.  What the guard of handleSignup read, what         *)
(* CreateUser counted and what it inserts are three moments; the invariant    *)
(* says what each request still knows of the accounts table at its own.       *)

\* Every account that is an admin has an address the guard takes for the customer's, and
\* an address has one account.
AdminIsOwner ==
  /\ \A u \in users : u \in Members!Accounts /\ (u.admin => u.email \in Folded)
  /\ \A u, v \in users : u.email = v.email => u = v

\* A request that passed the guard and has not counted has such an address, or the table has
\* an account by now; one that counted no account has such an address.
GuardHolds ==
  \A r \in Requests :
    /\ req[r].email \in Emails
    /\ req[r].pc = "count" /\ users = {} => req[r].email \in Folded
    /\ req[r].pc = "insert" /\ req[r].first => req[r].email \in Folded

ReqShape == req \in [Requests -> [pc : Members!Phases, email : Emails, first : BOOLEAN]]

OwnerInv == ReqShape /\ AdminIsOwner /\ GuardHolds /\ served \subseteq Folded

----------------------------------------------------------------------------
LEMMA InitOwner == ASSUME Owner \in Folded, Folded \subseteq Emails, Members!Init PROVE OwnerInv
  BY DEF Members!Init, OwnerInv, ReqShape, AdminIsOwner, GuardHolds, Members!Phases

\* A request that takes an address moves on with it.
LEMMA Taken ==
  ASSUME NEW r \in Requests, NEW pc \in Members!Phases, NEW e \in Emails, ReqShape,
         req' = [req EXCEPT ![r].pc = pc, ![r].email = e]
  PROVE  /\ ReqShape'
         /\ req'[r].pc = pc /\ req'[r].email = e
         /\ \A q \in Requests \ {r} : req'[q] = req[q]
<1>1. req[r] \in [pc : Members!Phases, email : Emails, first : BOOLEAN]
  BY DEF ReqShape
<1>2. req' = [req EXCEPT ![r] = [[req[r] EXCEPT !.pc = pc] EXCEPT !.email = e]]
  BY DEF ReqShape
<1>3. [[req[r] EXCEPT !.pc = pc] EXCEPT !.email = e] \in [pc : Members!Phases, email : Emails, first : BOOLEAN]
  BY <1>1
<1>4. [[req[r] EXCEPT !.pc = pc] EXCEPT !.email = e].pc = pc /\ [[req[r] EXCEPT !.pc = pc] EXCEPT !.email = e].email = e
  BY <1>1
<1> QED BY <1>2, <1>3, <1>4 DEF ReqShape

\* The step keeps the invariant: sign-ups only add accounts, so an empty table was empty
\* when it was read before.
LEMMA StepOwner == ASSUME Reserved, Folded \subseteq Emails, OwnerInv, [Members!Next]_membersVars PROVE OwnerInv'
<1> USE DEF OwnerInv, ReqShape, AdminIsOwner, GuardHolds, Members!Move, Members!Phases
<1>1. CASE UNCHANGED membersVars
  BY <1>1 DEF membersVars
<1>2. ASSUME NEW r \in Requests, Members!Request(r) PROVE OwnerInv'
  <2>1. CASE Members!Signup(r)
    <3>1. PICK e \in Emails :
            req' = [req EXCEPT ![r].pc = IF Members!Refused(e) THEN "done" ELSE "count", ![r].email = e]
      BY <2>1 DEF Members!Signup
    <3>2. users' = users /\ served' = served
      BY <2>1 DEF Members!Signup
    <3>3. ReqShape' /\ req'[r].email = e /\ \A q \in Requests \ {r} : req'[q] = req[q]
      <4>1. (IF Members!Refused(e) THEN "done" ELSE "count") \in Members!Phases
        OBVIOUS
      <4> QED BY <3>1, <4>1, Taken
    <3>4. req'[r].pc = (IF Members!Refused(e) THEN "done" ELSE "count")
      <4>1. (IF Members!Refused(e) THEN "done" ELSE "count") \in Members!Phases
        OBVIOUS
      <4> QED BY <3>1, <4>1, Taken
    <3>5. GuardHolds'
      BY <3>2, <3>3, <3>4 DEF Members!Refused
    <3> QED BY <3>2, <3>3, <3>5
  <2>2. CASE Members!CountUsers(r)
    BY <2>2 DEF Members!CountUsers
  <2>3. CASE Members!InsertUser(r)
    <3>1. CASE req[r].email \in Members!Registered
      BY <2>3, <3>1 DEF Members!InsertUser
    <3>2. CASE req[r].email \notin Members!Registered
      <4>1. users' = users \cup {[email |-> req[r].email, admin |-> req[r].first]}
            /\ req' = [req EXCEPT ![r].pc = "session"] /\ served' = served
        BY <2>3, <3>2 DEF Members!InsertUser
      <4>2. req[r].email \in Emails /\ req[r].first \in BOOLEAN /\ (req[r].first => req[r].email \in Folded)
        BY <2>3 DEF Members!InsertUser
      <4>3. AdminIsOwner'
        BY <3>2, <4>1, <4>2 DEF Members!Accounts, Members!Registered
      <4>4. GuardHolds' /\ ReqShape'
        BY <4>1
      <4> QED BY <4>1, <4>3, <4>4
    <3> QED BY <3>1, <3>2
  <2>4. CASE Members!Login(r)
    <3>1. PICK e \in Members!Registered : req' = [req EXCEPT ![r].pc = "session", ![r].email = e]
      BY <2>4 DEF Members!Login
    <3>2. e \in Emails
      BY <3>1 DEF Members!Registered, Members!Accounts
    <3>3. users' = users /\ served' = served
      BY <2>4 DEF Members!Login
    <3>4. ReqShape' /\ req'[r].pc = "session" /\ req'[r].email = e /\ \A q \in Requests \ {r} : req'[q] = req[q]
      BY <3>1, <3>2, Taken
    <3>5. GuardHolds'
      BY <3>2, <3>3, <3>4
    <3> QED BY <3>3, <3>4, <3>5
  <2>5. CASE Members!RequestFails(r)
    BY <2>5 DEF Members!RequestFails
  <2>6. CASE Members!StartSession(r)
    BY <2>6 DEF Members!StartSession
  <2>7. CASE Members!NextPage(r)
    BY <2>7 DEF Members!NextPage
  <2>8. CASE Members!RequireOwner(r)
    <3>1. req' = [req EXCEPT ![r].pc = "done"] /\ users' = users
      BY <2>8 DEF Members!RequireOwner
    <3>2. served' \subseteq Folded
      BY <2>8 DEF Members!RequireOwner
    <3> QED BY <3>1, <3>2
  <2>9. CASE Members!Logout(r)
    BY <2>9 DEF Members!Logout
  <2>10. CASE Members!Expire(r)
    BY <2>10 DEF Members!Expire
  <2> QED BY <1>2, <2>1, <2>2, <2>3, <2>4, <2>5, <2>6, <2>7, <2>8, <2>9, <2>10 DEF Members!Request
<1> QED BY <1>1, <1>2 DEF Members!Next

LEMMA OwnerInvSuffices == ASSUME OwnerInv PROVE Members!OwnerIsReserved
  BY DEF OwnerInv, AdminIsOwner, Members!OwnerIsReserved

\* "reserve that first account for it" (handlers.go:66): with a reserved address, whoever is
\* the site's owner or is served its admin signed up with an address that the guard takes
\* for the customer's, and no address has two accounts, however many sign-ups run between
\* one's guard, its count and its insert, and whatever the guard's comparison folds.
THEOREM SiteHasItsOwner == DeliveredSpec => []OwnerIsReserved
<1>1. CASE ~Reserved
  <2>1. OwnerIsReserved
    BY <1>1 DEF OwnerIsReserved, Members!OwnerIsReserved
  <2> QED BY <1>1, <2>1, PTL
<1>2. CASE Reserved
  <2>1. DeliveredInit => OwnerInv
    BY InitOwner, DeliveredAssumption DEF DeliveredInit
  <2>2. OwnerInv /\ [DeliveredNext]_deliveredVars => OwnerInv'
    <3> SUFFICES ASSUME OwnerInv, [DeliveredNext]_deliveredVars PROVE OwnerInv'
      OBVIOUS
    <3>1. [Members!Next]_membersVars
      BY PartSteps
    <3> QED
      BY <1>2, <3>1, StepOwner, DeliveredAssumption
  <2>3. OwnerInv => OwnerIsReserved
    BY OwnerInvSuffices DEF OwnerIsReserved
  <2> QED BY <2>1, <2>2, <2>3, PTL DEF DeliveredSpec
<1> QED BY <1>1, <1>2

-----------------------------------------------------------------------------
(* The review of a paid project's code.  The payment and the build each look  *)
(* at what the other has stored; the invariant needs nothing of who holds     *)
(* which copy, only that what is kept has its key on the row.                 *)

ReviewTypes ==
  /\ project \in [paid : BOOLEAN, key : BOOLEAN, review : BOOLEAN]
  /\ run \in [Runs -> [pc : {"idle", "load", "fetch", "model", "save"}, force : BOOLEAN]]
  /\ build \in [pc : {"idle", "upload", "succeed", "fail", "offer"}, saved : BOOLEAN, offer : BOOLEAN]
  /\ kept \in BOOLEAN /\ lost \in BOOLEAN

ReviewInv == ReviewTypes /\ (kept => project.key) /\ PaidIsReviewed

\* Nobody has paid.
LEMMA ReviewStart == ASSUME Reviewer!Init PROVE ReviewInv
  BY DEF Reviewer!Init, ReviewInv, ReviewTypes, PaidIsReviewed, Reviewer!PaidIsReviewed, Reviewer!Idle, Reviewer!NoBuild

\* A new run takes a free place: the runs under way stay, and an automatic one is one of them.
LEMMA Started ==
  ASSUME ReviewTypes, NEW force \in BOOLEAN, Reviewer!StartCodeReview(force)
  PROVE  /\ run' \in [Runs -> [pc : {"idle", "load", "fetch", "model", "save"}, force : BOOLEAN]]
         /\ Reviewer!Automatic \subseteq Reviewer!Automatic'
         /\ ~force => Reviewer!Automatic' # {}
<1> DEFINE r == CHOOSE q \in Reviewer!Free : TRUE
<1>1. r \in Reviewer!Free
  BY DEF Reviewer!StartCodeReview
<1>2. r \in Runs /\ run[r].pc = "idle"
  BY <1>1 DEF Reviewer!Free
<1>3. run' = [run EXCEPT ![r] = [pc |-> "load", force |-> force]]
  BY DEF Reviewer!StartCodeReview
<1> HIDE DEF r
<1>4. run'[r] = [pc |-> "load", force |-> force] /\ \A q \in Runs \ {r} : run'[q] = run[q]
  BY <1>2, <1>3 DEF ReviewTypes
<1>5. run' \in [Runs -> [pc : {"idle", "load", "fetch", "model", "save"}, force : BOOLEAN]]
  BY <1>2, <1>3 DEF ReviewTypes
<1>6. Reviewer!Automatic \subseteq Reviewer!Automatic'
  BY <1>2, <1>4 DEF Reviewer!Automatic
<1>7. ~force => r \in Reviewer!Automatic'
  BY <1>2, <1>4 DEF Reviewer!Automatic
<1> QED BY <1>5, <1>6, <1>7

\* A run moves on: it stays as automatic as it was.
LEMMA Moved ==
  ASSUME ReviewTypes, NEW r \in Runs, run[r].pc # "idle",
         NEW pc \in {"load", "fetch", "model", "save"}, Reviewer!Step(r, pc)
  PROVE  /\ run' \in [Runs -> [pc : {"idle", "load", "fetch", "model", "save"}, force : BOOLEAN]]
         /\ Reviewer!Automatic' = Reviewer!Automatic
<1>1. run' = [run EXCEPT ![r] = [run[r] EXCEPT !.pc = pc]] /\ run[r] \in [pc : {"idle", "load", "fetch", "model", "save"}, force : BOOLEAN]
  BY DEF Reviewer!Step, ReviewTypes
<1>2. [run[r] EXCEPT !.pc = pc] \in [pc : {"idle", "load", "fetch", "model", "save"}, force : BOOLEAN]
      /\ [run[r] EXCEPT !.pc = pc].pc = pc /\ [run[r] EXCEPT !.pc = pc].force = run[r].force
  BY <1>1
<1>3. /\ run' \in [Runs -> [pc : {"idle", "load", "fetch", "model", "save"}, force : BOOLEAN]]
      /\ run'[r].pc = pc /\ run'[r].force = run[r].force /\ \A q \in Runs \ {r} : run'[q] = run[q]
  BY <1>1, <1>2 DEF ReviewTypes
<1> QED BY <1>3 DEF Reviewer!Automatic

\* A run ends: one automatic run fewer, or none fewer if the operator asked for it.
LEMMA Ended ==
  ASSUME ReviewTypes, NEW r \in Runs, Reviewer!End(r)
  PROVE  /\ run' \in [Runs -> [pc : {"idle", "load", "fetch", "model", "save"}, force : BOOLEAN]]
         /\ Reviewer!Automatic \ {r} = Reviewer!Automatic'
         /\ run[r].force => Reviewer!Automatic' = Reviewer!Automatic
<1>1. /\ run' \in [Runs -> [pc : {"idle", "load", "fetch", "model", "save"}, force : BOOLEAN]]
      /\ run'[r].pc = "idle" /\ \A q \in Runs \ {r} : run'[q] = run[q]
  BY DEF Reviewer!End, ReviewTypes, Reviewer!Idle
<1> QED BY <1>1 DEF Reviewer!Automatic

\* Every step keeps the invariant: what ends a run without a review has been recorded as lost,
\* and a publish decides on the row it saves.
LEMMA ReviewStep == ASSUME ReviewInv, [Reviewer!Next]_reviewerVars PROVE ReviewInv'
<1> USE DEF ReviewInv, ReviewTypes, PaidIsReviewed, Reviewer!PaidIsReviewed, Reviewer!Promised, Reviewer!counters, Reviewer!Due
<1>1. CASE Reviewer!MarkPaid
  BY <1>1 DEF Reviewer!MarkPaid, Reviewer!Automatic
<1>2. CASE Reviewer!SavePaid
  BY <1>2 DEF Reviewer!SavePaid, Reviewer!Write, Reviewer!Automatic
<1>3. CASE Reviewer!ReviewPaid
  BY <1>3, Started DEF Reviewer!ReviewPaid
<1>4. CASE Reviewer!MarkUnpaid
  BY <1>4 DEF Reviewer!MarkUnpaid, Reviewer!Write, Reviewer!Automatic
<1>5. CASE Reviewer!RunReview
  BY <1>5, Started DEF Reviewer!RunReview
<1>6. CASE Reviewer!StartBuild
  BY <1>6 DEF Reviewer!StartBuild, Reviewer!NoBuild, Reviewer!Automatic
<1>7. CASE Reviewer!Upload
  BY <1>7 DEF Reviewer!Upload, Reviewer!Automatic
<1>8. CASE Reviewer!Publish
  <2>1. PICK k \in BOOLEAN : /\ project' = [project EXCEPT !.key = k] /\ (project.key => k) /\ (kept' <=> (kept \/ k))
                             /\ kept' \in BOOLEAN
    BY <1>8 DEF Reviewer!Publish, Reviewer!Published, Reviewer!Write
  <2>2. PICK o \in BOOLEAN : (o <=> (project.paid /\ ~project.review)) /\ build' = [build EXCEPT !.pc = "offer", !.offer = o]
    BY <1>8 DEF Reviewer!Publish, Reviewer!Published
  <2>3. project'.paid = project.paid /\ project'.review = project.review /\ project'.key = k
        /\ project' \in [paid : BOOLEAN, key : BOOLEAN, review : BOOLEAN]
    BY <2>1
  <2>4. build'.pc = "offer" /\ build'.offer = o
        /\ build' \in [pc : {"idle", "upload", "succeed", "fail", "offer"}, saved : BOOLEAN, offer : BOOLEAN]
    BY <2>2
  <2>5. UNCHANGED <<pay, run, lost>>
    BY <1>8 DEF Reviewer!Publish, Reviewer!Published
  <2> QED BY <2>1, <2>2, <2>3, <2>4, <2>5 DEF Reviewer!Automatic
<1>9. CASE Reviewer!OfferReview
  <2>1. CASE build.offer
    BY <1>9, <2>1, Started DEF Reviewer!OfferReview, Reviewer!NoBuild
  <2>2. CASE ~build.offer
    BY <1>9, <2>2 DEF Reviewer!OfferReview, Reviewer!NoBuild, Reviewer!Automatic
  <2> QED BY <2>1, <2>2
<1>10. CASE Reviewer!BuildFails
  BY <1>10 DEF Reviewer!BuildFails, Reviewer!NoBuild, Reviewer!Write, Reviewer!Automatic
<1>11. ASSUME NEW r \in Runs, Reviewer!Review(r) PROVE ReviewInv'
  <2>1. CASE Reviewer!LoadProject(r)
    <3>1. CASE (project.review /\ ~run[r].force) \/ ~project.key
      BY <2>1, <3>1, Ended DEF Reviewer!LoadProject, Reviewer!Outside
    <3>2. CASE ~((project.review /\ ~run[r].force) \/ ~project.key)
      BY <2>1, <3>2, Moved DEF Reviewer!LoadProject, Reviewer!Outside
    <3> QED BY <3>1, <3>2
  <2>2. CASE Reviewer!FetchSnapshot(r)
    BY <2>2, Moved DEF Reviewer!FetchSnapshot, Reviewer!Outside
  <2>3. CASE Reviewer!Fails(r)
    BY <2>3, Ended DEF Reviewer!Fails, Reviewer!Outside
  <2>4. CASE Reviewer!Reload(r)
    BY <2>4, Moved DEF Reviewer!Reload, Reviewer!Outside
  <2>5. CASE Reviewer!SaveReview(r)
    BY <2>5, Ended DEF Reviewer!SaveReview, Reviewer!Outside, Reviewer!Write
  <2> QED BY <1>11, <2>1, <2>2, <2>3, <2>4, <2>5 DEF Reviewer!Review
<1>12. CASE Reviewer!Touch
  BY <1>12 DEF Reviewer!Touch, Reviewer!Write, Reviewer!Automatic
<1>13. CASE Reviewer!Crash
  <2>1. run' \in [Runs -> [pc : {"idle", "load", "fetch", "model", "save"}, force : BOOLEAN]]
        /\ build' \in [pc : {"idle", "upload", "succeed", "fail", "offer"}, saved : BOOLEAN, offer : BOOLEAN]
        /\ UNCHANGED <<project, kept>>
    BY <1>13 DEF Reviewer!Crash, Reviewer!NoBuild, Reviewer!Idle
  <2>2. lost' \in BOOLEAN /\ (~lost' => ~lost /\ Reviewer!Automatic = {} /\ ~Reviewer!Promised)
    BY <1>13 DEF Reviewer!Crash
  <2> QED BY <2>1, <2>2
<1>14. CASE UNCHANGED reviewerVars
  BY <1>14 DEF reviewerVars, Reviewer!Automatic
<1> QED
  BY <1>1, <1>2, <1>3, <1>4, <1>5, <1>6, <1>7, <1>8, <1>9, <1>10, <1>11, <1>12, <1>13, <1>14
     DEF Reviewer!Next, Reviewer!Trigger, Reviewer!Build

\* A paid project with a finished build on record is reviewed or about to be, for any number
\* of review runs and builds, however payments, builds, reviews and restarts interleave
\* (runCodeReview, MarkPaid, finishBuild).
THEOREM PaidWorkIsReviewed == DeliveredSpec => []PaidIsReviewed
<1>1. DeliveredInit => ReviewInv
  BY ReviewStart DEF DeliveredInit
<1>2. ReviewInv /\ [DeliveredNext]_deliveredVars => ReviewInv'
  BY PartSteps, ReviewStep
<1>3. ReviewInv => PaidIsReviewed
  BY DEF ReviewInv
<1> QED BY <1>1, <1>2, <1>3, PTL DEF DeliveredSpec

-----------------------------------------------------------------------------
(* What a run puts in front of the reviewer.  sourceBundle is a loop over the *)
(* files, Bundle a function that recurs over their numbers: that such a       *)
(* function exists, and what holds after every file, are shown by the least   *)
(* number of files that would be an exception.                                *)

\* Any nonempty set of numbers has a least.
LEMMA Least == ASSUME NEW S \in SUBSET Nat, S # {} PROVE \E x \in S : \A y \in S : x <= y
<1>1. PICK x \in S : \A y \in S : ~(<<y, x>> \in OpToRel(<, Nat))
  BY WFMin, NatLessThanWellFounded
<1>2. \A y \in S : ~(y < x)
  BY <1>1 DEF OpToRel
<1> QED BY <1>2

Passes(tree, f, m) ==
  f = [n \in 0..m |-> IF n = 0 THEN Reviewer!EmptyBundle ELSE Reviewer!Add(tree, f[n - 1], n)]

\* The function of the first files goes on by one file.
LEMMA PassesOn ==
  ASSUME NEW tree, NEW m \in Nat, NEW f, Passes(tree, f, m)
  PROVE  \E g : Passes(tree, g, m + 1)
<1> DEFINE g == [n \in 0..m + 1 |-> IF n <= m THEN f[n] ELSE Reviewer!Add(tree, f[m], m + 1)]
<1> SUFFICES ASSUME NEW n \in 0..m + 1
             PROVE  g[n] = IF n = 0 THEN Reviewer!EmptyBundle ELSE Reviewer!Add(tree, g[n - 1], n)
  BY DEF Passes
<1>1. CASE n = 0
  BY <1>1 DEF Passes
<1>2. CASE n # 0 /\ n <= m
  <2>1. n - 1 \in 0..m /\ n - 1 \in 0..m + 1 /\ n \in 0..m /\ n - 1 <= m
    BY <1>2
  <2>2. g[n] = f[n] /\ g[n - 1] = f[n - 1]
    BY <1>2, <2>1
  <2> QED BY <1>2, <2>1, <2>2 DEF Passes
<1>3. CASE n = m + 1
  BY <1>3
<1> QED BY <1>1, <1>2, <1>3

LEMMA PassesExist == ASSUME NEW tree, NEW m \in Nat PROVE \E f : Passes(tree, f, m)
<1> DEFINE S == {k \in Nat : ~\E f : Passes(tree, f, k)}
<1>1. 0 \notin S
  <2> DEFINE f == [n \in 0..0 |-> Reviewer!EmptyBundle]
  <2>1. Passes(tree, f, 0)
    BY DEF Passes
  <2> QED BY <2>1
<1>2. ASSUME S # {} PROVE FALSE
  <2>1. PICK k \in S : \A j \in S : k <= j
    BY <1>2, Least
  <2>2. k \in Nat /\ k # 0 /\ k - 1 \in Nat /\ k - 1 \notin S
    BY <1>1, <2>1
  <2>3. PICK f : Passes(tree, f, k - 1)
    BY <2>2
  <2>4. \E g : Passes(tree, g, (k - 1) + 1)
    BY <2>2, <2>3, PassesOn
  <2>5. (k - 1) + 1 = k
    BY <2>2
  <2> QED BY <2>1, <2>4, <2>5
<1> QED BY <1>2

\* What has been told of the first n files.
ToldSoFar(tree, b, n) ==
  /\ b \in [shown : SUBSET (1..n), cut : SUBSET (1..n), named : SUBSET (1..n), total : 0..MaxTotal]
  /\ b.shown \cup b.cut \cup b.named = 1..n /\ b.shown \cap b.cut = {}
  /\ b.named # {} => b.total = MaxTotal
  /\ \A i \in b.shown \cup b.cut, j \in b.named : i < j
  /\ \A i \in b.shown : tree[i] <= MaxFile

\* One more file is shown, cut or named; once one is named, the bundle is full and only
\* names follow.
LEMMA AddTells ==
  ASSUME NEW tree, NEW n \in Nat, NEW i, i = n + 1, tree[i] \in Nat, NEW b, ToldSoFar(tree, b, n)
  PROVE  ToldSoFar(tree, Reviewer!Add(tree, b, i), i)
<1> DEFINE room == MaxTotal - b.total
           most == IF MaxFile < room THEN MaxFile ELSE room
           c == Reviewer!Add(tree, b, i)
<1> SUFFICES ToldSoFar(tree, c, i)
  OBVIOUS
<1>0. MaxFile \in Nat /\ MaxFile > 0 /\ MaxTotal \in Nat /\ tree[i] \in Nat /\ b.total \in 0..MaxTotal
  BY DeliveredAssumption DEF ToldSoFar
<1>1. room \in Nat /\ most \in 0..room /\ most <= MaxFile
  BY <1>0
<1>2. i \in 1..i /\ 1..i = 1..n \cup {i} /\ i \notin 1..n /\ \A j \in 1..n : j < i /\ j \in 1..i
  OBVIOUS
<1>3. CASE room = 0
  <2>1. c = [b EXCEPT !.named = b.named \cup {i}]
    BY <1>3 DEF Reviewer!Add
  <2>2. b.total = MaxTotal
    BY <1>0, <1>3
  <2>3. c.shown = b.shown /\ c.cut = b.cut /\ c.named = b.named \cup {i} /\ c.total = b.total
        /\ c \in [shown : SUBSET (1..i), cut : SUBSET (1..i), named : SUBSET (1..i), total : 0..MaxTotal]
    BY <2>1, <1>2 DEF ToldSoFar
  <2> HIDE DEF c
  <2> QED BY <2>2, <2>3, <1>2 DEF ToldSoFar
<1>4. CASE room > 0
  <2>0. b.named = {}
    BY <1>0, <1>4 DEF ToldSoFar
  <2>1. CASE tree[i] > most
    <3>1. c = [b EXCEPT !.cut = b.cut \cup {i}, !.total = b.total + most]
      BY <1>0, <1>1, <1>4, <2>1 DEF Reviewer!Add
    <3>2. b.total + most \in 0..MaxTotal
      BY <1>0, <1>1
    <3>3. c.shown = b.shown /\ c.cut = b.cut \cup {i} /\ c.named = b.named /\ c.total = b.total + most
          /\ c \in [shown : SUBSET (1..i), cut : SUBSET (1..i), named : SUBSET (1..i), total : 0..MaxTotal]
      BY <3>1, <3>2, <1>2 DEF ToldSoFar
    <3> HIDE DEF c
    <3> QED BY <2>0, <3>3, <1>2 DEF ToldSoFar
  <2>2. CASE ~(tree[i] > most)
    <3>1. c = [b EXCEPT !.shown = b.shown \cup {i}, !.total = b.total + tree[i]]
      BY <1>0, <1>1, <1>4, <2>2 DEF Reviewer!Add
    <3>2. b.total + tree[i] \in 0..MaxTotal /\ tree[i] <= MaxFile
      BY <1>0, <1>1, <2>2
    <3>3. b.shown \cup {i} \in SUBSET (1..i) /\ b.cut \in SUBSET (1..i) /\ b.named \in SUBSET (1..i)
      BY <1>2 DEF ToldSoFar
    <3>4. c.shown = b.shown \cup {i} /\ c.cut = b.cut /\ c.named = b.named /\ c.total = b.total + tree[i]
          /\ c \in [shown : SUBSET (1..i), cut : SUBSET (1..i), named : SUBSET (1..i), total : 0..MaxTotal]
      BY <3>1, <3>2, <3>3 DEF ToldSoFar
    <3> HIDE DEF c
    <3> QED BY <2>0, <3>2, <3>4, <1>2 DEF ToldSoFar
  <2> QED BY <2>1, <2>2
<1> QED BY <1>1, <1>3, <1>4

LEMMA BundleTells == ASSUME NEW tree \in Seq(Nat) PROVE Reviewer!Told(tree, Reviewer!Bundle(tree))
<1> DEFINE m == Len(tree)
           f == CHOOSE g : g = [n \in 0..m |-> IF n = 0 THEN Reviewer!EmptyBundle ELSE Reviewer!Add(tree, g[n - 1], n)]
<1>0. m \in Nat /\ DOMAIN tree = 1..m /\ \A i \in 1..m : tree[i] \in Nat
  OBVIOUS
<1>1. Reviewer!Bundle(tree) = f[m]
  BY DEF Reviewer!Bundle
<1>2. Passes(tree, f, m)
  BY <1>0, PassesExist DEF Passes
<1> HIDE DEF f, m
<1>3. f[0] = Reviewer!EmptyBundle /\ \A n \in Nat : n + 1 <= m => f[n + 1] = Reviewer!Add(tree, f[n], n + 1)
  <2>1. f[0] = Reviewer!EmptyBundle
    BY <1>0, <1>2 DEF Passes
  <2>2. ASSUME NEW n \in Nat, n + 1 <= m PROVE f[n + 1] = Reviewer!Add(tree, f[n], n + 1)
    <3>1. n + 1 \in 0..m /\ n + 1 # 0 /\ (n + 1) - 1 = n
      BY <1>0, <2>2
    <3> QED BY <1>2, <3>1 DEF Passes
  <2> QED BY <2>1, <2>2
<1> DEFINE S == {n \in 0..m : ~ToldSoFar(tree, f[n], n)}
<1>4. 0 \notin S
  <2>1. 1..0 = {}
    OBVIOUS
  <2> QED BY <1>3, <2>1, DeliveredAssumption DEF ToldSoFar, Reviewer!EmptyBundle
<1>5. ASSUME S # {} PROVE FALSE
  <2>0. S \in SUBSET Nat
    BY <1>0
  <2> HIDE DEF S
  <2>1. PICK k \in S : \A j \in S : k <= j
    BY <1>5, <2>0, Least
  <2> USE DEF S
  <2>2. k \in 0..m /\ k # 0 /\ k - 1 \in 0..m /\ k - 1 \in Nat /\ k - 1 \notin S /\ (k - 1) + 1 = k
    BY <1>0, <1>4, <2>1
  <2> DEFINE j == k - 1
  <2>3. ToldSoFar(tree, f[j], j) /\ j + 1 <= m /\ j \in Nat /\ j + 1 = k /\ tree[j + 1] \in Nat
    BY <1>0, <2>2
  <2> HIDE DEF j
  <2>4. ToldSoFar(tree, f[j + 1], j + 1)
    BY <1>3, <2>3, AddTells
  <2> QED BY <2>1, <2>3, <2>4
<1>6. ToldSoFar(tree, f[m], m)
  BY <1>0, <1>5
<1> QED BY <1>0, <1>1, <1>6 DEF ToldSoFar, Reviewer!Told, m

LEMMA SnapshotsAreSequences == Snapshots \subseteq Seq(Nat)
<1> SUFFICES ASSUME NEW n \in 0..MaxFiles, NEW tree \in [1..n -> Sizes] PROVE tree \in Seq(Nat)
  BY DEF Snapshots
<1>1. n \in Nat /\ Sizes \subseteq Nat
  BY DeliveredAssumption
<1>2. tree \in [1..n -> Nat]
  BY <1>1
<1> QED BY <1>1, <1>2

\* "so the model knows what it did not see" (review.go:124), for every limit and every
\* snapshot: a file that is not shown whole is marked as cut or named, in order, and the
\* bundle is full before one is only named (sourceBundle).
THEOREM ReviewerIsTold == DeliveredSpec => []ReviewerKnowsTheRest
<1>1. ReviewerKnowsTheRest
  BY BundleTells, SnapshotsAreSequences DEF ReviewerKnowsTheRest, Reviewer!ReviewerKnowsTheRest, Reviewer!AllTold
<1> QED BY <1>1, PTL

-----------------------------------------------------------------------------
(* The notification hooks.  An entry's hooks are loaded, its row is read, the *)
(* hooks are called and the entry is marked in four statements, between       *)
(* which the owner, the site's visitors and a shutdown come.                  *)

\* A nonempty set of numbers below a bound has a greatest.
LEMMA Greatest ==
  ASSUME NEW n \in Nat, NEW S \in SUBSET (0..n), S # {}
  PROVE  \E x \in S : \A y \in S : x >= y
<1> DEFINE T == {k \in Nat : \A y \in S : k >= y}
<1>1. n \in T
  OBVIOUS
<1>2. PICK k \in T : \A t \in T : k <= t
  BY <1>1, Least
<1>3. k \in S
  <2> SUFFICES ASSUME k \notin S PROVE FALSE
    OBVIOUS
  <2>1. \A y \in S : y < k
    BY <1>2
  <2>2. PICK z \in S : z < k
    BY <2>1
  <2>3. k \in Nat /\ z \in Nat /\ k > 0
    BY <2>2
  <2>4. k - 1 \in T
    BY <2>1, <2>3
  <2> QED BY <1>2, <2>3, <2>4
<1> QED BY <1>2, <1>3

Entry == [row : Hooks!Rowids, msg : Nat, due : SUBSET Targets]

HookTypes ==
  /\ on \in SUBSET Targets /\ stored \in SUBSET Targets /\ on \subseteq stored
  /\ sent \in 0..MaxMessages
  /\ rows \in [Hooks!Rowids -> 0..sent]
  /\ outbox \in Seq(Entry) /\ done \subseteq DOMAIN outbox
  /\ disp \in [pc : {"idle", "load", "render", "notify", "mark"}, batch : SUBSET Nat,
               hooks : SUBSET Targets, msg : Nat]
  /\ disp.batch \subseteq DOMAIN outbox
  /\ up \in {"serving", "stopping", "down"}

\* Rowids do not run ahead of the messages; what an entry is owed is on.
Numbered == \A r \in Hooks!Rowids : rows[r] # 0 => r <= sent
DueIsOn == \A i \in DOMAIN outbox : outbox[i].msg \in 1..sent /\ outbox[i].due \subseteq on

\* The entry's row still holds its message; its hooks were called, or passed over.
Kept(i) == rows[outbox[i].row] = outbox[i].msg
Called(i, h) == <<outbox[i].msg, h>> \in told \/ <<i, h>> \in skipped
AllCalled(i) == \A h \in outbox[i].due : Called(i, h)

\* What the dispatcher knows of the entry it is at.  A stopping process never serves again
\* before it has gone down, and going down forgets the batch.
AtEntry ==
  /\ up = "down" => disp = Hooks!NoBatch
  /\ disp.pc # "idle" => disp.batch # {}
  /\ disp.pc = "render" => outbox[Hooks!Head1].due \subseteq disp.hooks
  /\ disp.pc = "notify" /\ Kept(Hooks!Head1) =>
       /\ disp.msg = outbox[Hooks!Head1].msg
       /\ \A h \in outbox[Hooks!Head1].due : h \in disp.hooks \/ Called(Hooks!Head1, h)
  /\ disp.pc = "mark" /\ up = "serving" /\ Kept(Hooks!Head1) => AllCalled(Hooks!Head1)

DoneCalled == \A i \in done : Kept(i) => AllCalled(i)

HooksInv == HookTypes /\ Numbered /\ DueIsOn /\ AtEntry /\ DoneCalled

\* Nothing is on, stored or under way.
LEMMA HooksStart == ASSUME MaxMessages \in Nat, Hooks!Init PROVE HooksInv
  BY DEF Hooks!Init, HooksInv, HookTypes, Numbered, DueIsOn, AtEntry, DoneCalled, Hooks!NoBatch

\* The outbox is a sequence of entries.
LEMMA EntryAt ==
  ASSUME HookTypes
  PROVE  /\ DOMAIN outbox = 1 .. Len(outbox) /\ Len(outbox) \in Nat /\ DOMAIN outbox \subseteq Nat
         /\ \A i \in DOMAIN outbox : outbox[i] \in Entry /\ outbox[i].row \in Hooks!Rowids
<1>1. DOMAIN outbox = 1 .. Len(outbox) /\ Len(outbox) \in Nat
  BY DEF HookTypes
<1>2. \A i \in DOMAIN outbox : outbox[i] \in Entry
  BY <1>1, ElementOfSeq DEF HookTypes
<1> QED BY <1>1, <1>2 DEF Entry

\* The entry the dispatcher is at is one of the outbox.
LEMMA HeadIsEntry ==
  ASSUME HookTypes, disp.batch # {}
  PROVE  Hooks!Head1 \in disp.batch /\ Hooks!Head1 \in DOMAIN outbox
<1>1. disp.batch \in SUBSET Nat
  BY DEF HookTypes
<1>2. \E x \in disp.batch : \A y \in disp.batch : x <= y
  BY <1>1, Least
<1>3. Hooks!Head1 \in disp.batch
  BY <1>2 DEF Hooks!Head1, Hooks!Min
<1> QED BY <1>3 DEF HookTypes

\* Entries keep their message and are owed no more than before, rows that hold a message
\* of an entry have held it, calls stay made: then an entry that was called is so still.
Quieter ==
  /\ DOMAIN outbox \subseteq DOMAIN outbox'
  /\ \A i \in DOMAIN outbox : /\ outbox'[i].row = outbox[i].row /\ outbox'[i].msg = outbox[i].msg
                              /\ outbox'[i].due \subseteq outbox[i].due
                              /\ Kept(i)' => Kept(i)
  /\ told \subseteq told' /\ skipped \subseteq skipped'

\* Seen from an entry whose hooks were called.
LEMMA QuieterCalled ==
  ASSUME Quieter
  PROVE  \A i \in DOMAIN outbox : (Kept(i) => AllCalled(i)) => (Kept(i)' => AllCalled(i)')
  BY DEF Quieter, AllCalled, Called

\* The dispatcher rests while others write.
LEMMA Resting ==
  ASSUME HookTypes, AtEntry, DoneCalled, Quieter, UNCHANGED <<disp, done>>,
         up' = up \/ (up' = "stopping" /\ up # "down") \/ (up = "down" /\ up' = "serving")
  PROVE  AtEntry' /\ DoneCalled'
<1>1. DoneCalled'
  BY QuieterCalled DEF DoneCalled, HookTypes
<1>2. Hooks!Head1' = Hooks!Head1
  BY DEF Hooks!Head1
<1>3. CASE disp.pc = "idle"
  BY <1>1, <1>3 DEF AtEntry, Hooks!NoBatch
<1>4. CASE disp.pc # "idle"
  <2>1. Hooks!Head1 \in DOMAIN outbox
    BY <1>4, HeadIsEntry DEF AtEntry
  <2>2. up # "down"
    BY <1>4 DEF AtEntry, Hooks!NoBatch
  <2>3. disp.pc = "mark" /\ up' = "serving" /\ Kept(Hooks!Head1)' => AllCalled(Hooks!Head1)'
    BY <2>1, <2>2, <1>2, QuieterCalled DEF AtEntry
  <2>4. disp.pc = "notify" /\ Kept(Hooks!Head1)' =>
          /\ disp.msg = outbox'[Hooks!Head1].msg
          /\ \A h \in outbox'[Hooks!Head1].due : h \in disp.hooks \/ Called(Hooks!Head1, h)'
    BY <2>1, <1>2 DEF AtEntry, Quieter, Called
  <2>5. disp.pc = "render" => outbox'[Hooks!Head1].due \subseteq disp.hooks
    BY <2>1 DEF AtEntry, Quieter
  <2> QED BY <1>1, <1>2, <2>2, <2>3, <2>4, <2>5 DEF AtEntry, Hooks!NoBatch
<1> QED BY <1>3, <1>4

\* A batch is given up or ended.
LEMMA Emptied ==
  ASSUME HookTypes, DoneCalled, disp' = Hooks!NoBatch, UNCHANGED <<outbox, rows, told, skipped, done>>
  PROVE  AtEntry' /\ DoneCalled'
  BY DEF AtEntry, DoneCalled, Hooks!NoBatch, Kept, AllCalled, Called

\* A hook turned off is owed nothing any more.
LEMMA WriteHookKeeps ==
  ASSUME HooksInv, NEW a \in Admins, NEW hooks \in SUBSET Targets, NEW enabled \in SUBSET hooks,
         Hooks!WriteHook(a, hooks, enabled)
  PROVE  HooksInv'
<1> USE DEF HooksInv, HookTypes
<1>1. /\ stored' = hooks /\ on' = enabled
      /\ outbox' = [i \in DOMAIN outbox |-> [outbox[i] EXCEPT !.due = @ \cap enabled]]
      /\ UNCHANGED <<rows, sent, done, disp, up, senders, told, skipped>>
  BY DEF Hooks!WriteHook, Hooks!procVars, Hooks!toldVars
<1>2. /\ DOMAIN outbox = 1 .. Len(outbox) /\ Len(outbox) \in Nat
      /\ \A i \in DOMAIN outbox : outbox[i] \in Entry
  BY ElementOfSeq
<1>3. \A i \in DOMAIN outbox : /\ outbox'[i] \in Entry /\ outbox'[i].row = outbox[i].row
                               /\ outbox'[i].msg = outbox[i].msg
                               /\ outbox'[i].due = outbox[i].due \cap enabled
  BY <1>1, <1>2 DEF Entry
<1>4. outbox' \in Seq(Entry) /\ DOMAIN outbox' = DOMAIN outbox
  <2>1. DOMAIN outbox' = 1 .. Len(outbox)
    BY <1>1, <1>2
  <2>2. outbox' = [i \in 1 .. Len(outbox) |-> outbox'[i]]
    BY <1>1, <1>2
  <2> QED BY <1>2, <1>3, <2>1, <2>2, IsASeq
<1>5. Quieter
  BY <1>1, <1>3, <1>4 DEF Quieter, Kept
<1>6. AtEntry' /\ DoneCalled'
  BY <1>1, <1>5, Resting
<1>7. Numbered'
  BY <1>1 DEF Numbered
<1>8. DueIsOn'
  <2> SUFFICES ASSUME NEW k \in DOMAIN outbox PROVE outbox'[k].msg \in 1 .. sent /\ outbox'[k].due \subseteq enabled
    BY <1>1, <1>4 DEF DueIsOn
  <2> QED BY <1>3 DEF DueIsOn
<1>9. HookTypes'
  BY <1>1, <1>4
<1> QED BY <1>6, <1>7, <1>8, <1>9

\* A new row has a rowid of the table and a message that no entry had before.
LEMMA InsertRowKeeps ==
  ASSUME HooksInv, MaxMessages \in Nat, Hooks!InsertRow
  PROVE  HooksInv'
<1> USE DEF HooksInv, HookTypes
<1> DEFINE used == {r \in Hooks!Rowids : rows[r] # 0}
           new == IF used = {} THEN 1 ELSE Hooks!Max(used) + 1
           entry == [row |-> new, msg |-> sent + 1, due |-> on]
<1>1. /\ sent < MaxMessages /\ sent' = sent + 1 /\ rows' = [rows EXCEPT ![new] = sent + 1]
      /\ outbox' = (IF trigger THEN Append(outbox, entry) ELSE outbox)
      /\ UNCHANGED <<stored, on, trigger, done, disp, up, senders, told, skipped>>
  BY DEF Hooks!InsertRow, Hooks!hookVars, Hooks!procVars, Hooks!toldVars
<1>2. new \in 1 .. (sent + 1)
  <2>1. CASE used = {}
    BY <2>1
  <2>2. CASE used # {}
    <3>1. used \in SUBSET (0..MaxMessages)
      BY DEF Hooks!Rowids
    <3>2. \E x \in used : \A y \in used : x >= y
      BY <2>2, <3>1, Greatest
    <3>3. Hooks!Max(used) \in used
      BY <3>2 DEF Hooks!Max
    <3>4. Hooks!Max(used) \in 1 .. sent
      BY <3>3 DEF Numbered, Hooks!Rowids
    <3> QED BY <2>2, <3>4
  <2> QED BY <2>1, <2>2
<1> HIDE DEF new, used
<1>3. new \in Hooks!Rowids
  BY <1>1, <1>2 DEF Hooks!Rowids
<1>4. rows' \in [Hooks!Rowids -> 0..sent'] /\ rows'[new] = sent + 1
      /\ \A r \in Hooks!Rowids \ {new} : rows'[r] = rows[r]
  BY <1>1, <1>3
<1>5. Numbered'
  BY <1>1, <1>2, <1>4 DEF Numbered, Hooks!Rowids
<1>6. DOMAIN outbox = 1 .. Len(outbox) /\ Len(outbox) \in Nat /\ \A i \in DOMAIN outbox : outbox[i] \in Entry
  BY ElementOfSeq
<1>7. entry \in Entry
  BY <1>3 DEF Entry
<1>8. /\ outbox' \in Seq(Entry) /\ DOMAIN outbox \subseteq DOMAIN outbox'
      /\ \A i \in DOMAIN outbox : outbox'[i] = outbox[i]
      /\ \A i \in DOMAIN outbox' : i \in DOMAIN outbox \/ outbox'[i] = entry
  <2>1. CASE trigger
    <3> HIDE DEF entry
    <3>1. Append(outbox, entry) \in Seq(Entry) /\ Len(Append(outbox, entry)) = Len(outbox) + 1
          /\ \A i \in 1 .. Len(outbox) : Append(outbox, entry)[i] = outbox[i]
          /\ Append(outbox, entry)[Len(outbox) + 1] = entry
      BY <1>7, AppendProperties
    <3>2. DOMAIN outbox' = 1 .. (Len(outbox) + 1)
      BY <1>1, <2>1, <3>1
    <3> QED BY <1>1, <1>6, <2>1, <3>1, <3>2
  <2>2. CASE ~trigger
    BY <1>1, <2>2
  <2> QED BY <2>1, <2>2
<1>9. DueIsOn'
  BY <1>1, <1>8 DEF DueIsOn
<1>10. \A i \in DOMAIN outbox : outbox[i].row \in Hooks!Rowids /\ outbox[i].msg \in 1 .. sent
  BY <1>6 DEF DueIsOn, Entry
<1>11. Quieter
  BY <1>1, <1>4, <1>8, <1>10 DEF Quieter, Kept
<1>12. AtEntry' /\ DoneCalled'
  BY <1>1, <1>11, Resting
<1> QED BY <1>1, <1>4, <1>5, <1>8, <1>9, <1>12

\* The dispatcher: each step hands what it knows of the entry to the next.
LEMMA DispatchKeeps == ASSUME HooksInv, Hooks!Dispatch PROVE HooksInv'
<1> USE DEF HooksInv, HookTypes
<1> DEFINE i == Hooks!Head1
<1>0. DOMAIN outbox \subseteq Nat /\ \A k \in DOMAIN outbox : outbox[k] \in Entry
  BY EntryAt
<1>1. UNCHANGED <<stored, on, rows, sent, outbox, up, senders>> /\ told \subseteq told' /\ skipped \subseteq skipped'
  BY DEF Hooks!Dispatch, Hooks!Poll, Hooks!LoadHooks, Hooks!RenderRow, Hooks!ReadFails, Hooks!NotifyHook,
         Hooks!DeliverCancelled, Hooks!MarkDone, Hooks!hookVars, Hooks!dataVars, Hooks!procVars, Hooks!toldVars
<1>2. Numbered' /\ DueIsOn'
  BY <1>1 DEF Numbered, DueIsOn
<1>3. \A k \in done : Kept(k)' => AllCalled(k)'
  BY <1>1 DEF DoneCalled, Kept, AllCalled, Called
<1>4. CASE Hooks!Poll
  <2>1. /\ disp' = [pc |-> "load", batch |-> Hooks!Pending, hooks |-> {}, msg |-> 0]
        /\ Hooks!Pending # {} /\ Hooks!Pending \subseteq DOMAIN outbox /\ done' = done /\ up = "serving"
    BY <1>4 DEF Hooks!Poll, Hooks!NoBatch, Hooks!Pending
  <2> QED BY <1>0, <1>1, <1>2, <1>3, <2>1 DEF AtEntry, DoneCalled
<1>10. ASSUME Hooks!ReadFails, disp.pc # "idle", up = "serving", done' = done PROVE HooksInv'
  <2>1. disp' = [disp EXCEPT !.pc = "mark"] /\ skipped' = skipped \cup ({i} \X outbox[i].due)
    BY <1>10 DEF Hooks!ReadFails, Hooks!To
  <2>2. i \in DOMAIN outbox /\ i' = i
    BY <1>10, <2>1, HeadIsEntry DEF AtEntry, Hooks!Head1
  <2> HIDE DEF i
  <2>3. AllCalled(i)'
    BY <1>1, <2>1, <2>2 DEF AllCalled, Called
  <2> QED BY <1>1, <1>2, <1>3, <1>10, <2>1, <2>2, <2>3 DEF AtEntry, DoneCalled, i
<1>5. CASE Hooks!LoadHooks /\ ~Hooks!ReadFails
  <2>1. /\ disp.pc = "load" /\ disp' = [disp EXCEPT !.pc = IF on = {} THEN "mark" ELSE "render", !.hooks = on]
        /\ done' = done /\ up = "serving"
    BY <1>5 DEF Hooks!LoadHooks
  <2>2. i \in DOMAIN outbox /\ i' = i
    BY <2>1, HeadIsEntry DEF AtEntry, Hooks!Head1
  <2>3. outbox[i].due \subseteq on
    BY <2>2 DEF DueIsOn
  <2> HIDE DEF i
  <2> QED BY <1>1, <1>2, <1>3, <2>1, <2>2, <2>3 DEF AtEntry, DoneCalled, AllCalled, i
<1>6. CASE Hooks!RenderRow /\ ~Hooks!ReadFails
  <2> DEFINE msg == rows[outbox[i].row]
  <2>1. /\ disp.pc = "render" /\ disp' = [disp EXCEPT !.pc = IF msg = 0 THEN "mark" ELSE "notify", !.msg = msg]
        /\ done' = done /\ up = "serving"
    BY <1>6 DEF Hooks!RenderRow
  <2>2. i \in DOMAIN outbox /\ i' = i
    BY <2>1, HeadIsEntry DEF AtEntry, Hooks!Head1
  <2>3. outbox[i].due \subseteq disp.hooks /\ msg \in Nat /\ outbox[i].msg > 0
    BY <1>0, <2>1, <2>2 DEF AtEntry, DueIsOn, Entry
  <2> HIDE DEF i, msg
  <2>4. disp'.pc = (IF msg = 0 THEN "mark" ELSE "notify") /\ disp'.batch = disp.batch /\ disp'.hooks = disp.hooks
        /\ disp'.msg = msg
    BY <2>1
  <2>5. HookTypes'
    BY <1>1, <2>1, <2>3
  <2>6. Kept(i)' => msg = outbox[i].msg
    BY <1>1, <2>2 DEF Kept, msg, i
  <2>7. AtEntry'
    BY <1>1, <2>1, <2>2, <2>3, <2>4, <2>6 DEF AtEntry, i
  <2> QED BY <1>1, <1>2, <1>3, <2>1, <2>5, <2>7 DEF DoneCalled
<1>7. CASE Hooks!NotifyHook
  <2>1. PICK h \in disp.hooks :
          /\ told' = told \cup {<<disp.msg, h>>} \/ skipped' = skipped \cup {<<i, h>>}
          /\ disp' = [disp EXCEPT !.hooks = @ \ {h}, !.pc = IF disp.hooks = {h} THEN "mark" ELSE "notify"]
    BY <1>7 DEF Hooks!NotifyHook
  <2>2. disp.pc = "notify" /\ done' = done /\ up = "serving"
    BY <1>7 DEF Hooks!NotifyHook
  <2>3. i \in DOMAIN outbox /\ i' = i
    BY <2>1, <2>2, HeadIsEntry DEF AtEntry, Hooks!Head1
  <2>4. Kept(i) => /\ disp.msg = outbox[i].msg
                   /\ \A g \in outbox[i].due : g \in disp.hooks \/ Called(i, g)
    BY <2>2 DEF AtEntry
  <2>5. Kept(i)' => /\ disp.msg = outbox[i].msg
                    /\ \A g \in outbox[i].due : g \in disp.hooks \ {h} \/ Called(i, g)'
    BY <1>1, <2>1, <2>3, <2>4 DEF Kept, Called
  <2>6. disp'.batch = disp.batch /\ disp'.msg = disp.msg /\ disp'.hooks = disp.hooks \ {h}
        /\ disp'.pc = (IF disp.hooks = {h} THEN "mark" ELSE "notify")
    BY <2>1
  <2>7. HookTypes'
    BY <1>1, <2>1, <2>2, <2>6
  <2> HIDE DEF i
  <2>8. AtEntry'
    BY <1>1, <2>2, <2>3, <2>5, <2>6 DEF AtEntry, AllCalled, i
  <2> QED BY <1>1, <1>2, <1>3, <2>2, <2>7, <2>8 DEF DoneCalled
<1>8. CASE Hooks!DeliverCancelled
  <2>1. /\ up = "stopping" /\ disp.pc # "idle" /\ disp' = [disp EXCEPT !.pc = "mark"] /\ done' = done
    BY <1>8 DEF Hooks!DeliverCancelled, Hooks!To
  <2> QED BY <1>1, <1>2, <1>3, <2>1 DEF AtEntry, DoneCalled, Hooks!NoBatch
<1>9. CASE Hooks!MarkDone
  <2>1. /\ disp.pc = "mark" /\ UNCHANGED <<told, skipped>>
        /\ done' = done \/ (done' = done \cup {i} /\ up = "serving")
        /\ disp' = IF disp.batch = {i} THEN Hooks!NoBatch
                   ELSE [Hooks!NoBatch EXCEPT !.pc = "load", !.batch = disp.batch \ {i}]
    BY <1>9 DEF Hooks!MarkDone, Hooks!Advanced, Hooks!toldVars
  <2>2. i \in DOMAIN outbox /\ i \in disp.batch /\ up # "down"
    BY <2>1, HeadIsEntry DEF AtEntry, Hooks!NoBatch
  <2>3. up = "serving" => (Kept(i) => AllCalled(i))
    BY <2>1 DEF AtEntry
  <2> HIDE DEF i
  <2>4. DoneCalled'
    BY <1>1, <1>3, <2>1, <2>3 DEF DoneCalled, Kept, AllCalled, Called
  <2>5. HookTypes'
    BY <1>0, <1>1, <2>1, <2>2 DEF Hooks!NoBatch
  <2>6. AtEntry'
    BY <1>1, <2>1, <2>2 DEF AtEntry, Hooks!NoBatch
  <2> QED BY <1>2, <2>4, <2>5, <2>6
<1>11. ASSUME Hooks!LoadHooks \/ Hooks!RenderRow PROVE disp.pc # "idle" /\ up = "serving" /\ done' = done
  BY <1>11 DEF Hooks!LoadHooks, Hooks!RenderRow
<1> QED BY <1>4, <1>5, <1>6, <1>7, <1>8, <1>9, <1>10, <1>11 DEF Hooks!Dispatch

\* Every step keeps the invariant.
LEMMA HooksStep ==
  ASSUME MaxMessages \in Nat, HooksInv, [Hooks!Next]_hooksVars
  PROVE  HooksInv'
<1> USE DEF HooksInv, HookTypes
<1>1. ASSUME NEW a \in Admins, NEW h \in Targets,
             Hooks!HookAdd(a, h) \/ Hooks!HookToggle(a, h) \/ Hooks!HookDelete(a, h)
      PROVE  HooksInv'
  <2>1. PICK hooks \in SUBSET Targets, enabled \in SUBSET Targets : enabled \subseteq hooks /\ Hooks!WriteHook(a, hooks, enabled)
    <3>1. CASE Hooks!HookAdd(a, h)
      <4>1. on \cup {h} \in SUBSET (stored \cup {h}) /\ stored \cup {h} \in SUBSET Targets
        OBVIOUS
      <4> QED BY <3>1, <4>1 DEF Hooks!HookAdd
    <3>2. CASE Hooks!HookToggle(a, h)
      <4>1. h \in stored /\ Hooks!WriteHook(a, stored, IF h \in on THEN on \ {h} ELSE on \cup {h})
        BY <3>2 DEF Hooks!HookToggle
      <4>2. (IF h \in on THEN on \ {h} ELSE on \cup {h}) \in SUBSET stored
        BY <4>1
      <4> QED BY <4>1, <4>2
    <3>3. CASE Hooks!HookDelete(a, h)
      <4>1. on \ {h} \in SUBSET (stored \ {h}) /\ stored \ {h} \in SUBSET Targets
        OBVIOUS
      <4> QED BY <3>3, <4>1 DEF Hooks!HookDelete
    <3> QED BY <1>1, <3>1, <3>2, <3>3
  <2> QED BY <2>1, WriteHookKeeps
<1>2. CASE UNCHANGED <<stored, on, rows, sent, outbox, done, disp, told, skipped, up, senders>>
  <2>1. Quieter
    BY <1>2 DEF Quieter, Kept
  <2> QED BY <1>2, <2>1, Resting DEF Numbered, DueIsOn
<1>3. ASSUME NEW r \in Hooks!Rowids, Hooks!DeleteRow(r) PROVE HooksInv'
  <2>1. rows' = [rows EXCEPT ![r] = 0] /\ UNCHANGED <<stored, on, sent, outbox, done, disp, told, skipped, up, senders>>
    BY <1>3 DEF Hooks!DeleteRow, Hooks!hookVars, Hooks!procVars, Hooks!toldVars
  <2>2. \A i \in DOMAIN outbox : outbox[i].row \in Hooks!Rowids /\ outbox[i].msg \in 1 .. sent
    BY EntryAt DEF DueIsOn
  <2>3. Quieter
    BY <2>1, <2>2 DEF Quieter, Kept
  <2> QED BY <2>1, <2>3, Resting DEF Numbered, DueIsOn
<1>4. CASE Hooks!Shutdown \/ Hooks!Start
  <2>1. UNCHANGED <<stored, on, rows, sent, outbox, done, disp, told, skipped>>
        /\ ((up' = "stopping" /\ up # "down") \/ (up = "down" /\ up' = "serving"))
    BY <1>4 DEF Hooks!Shutdown, Hooks!Start, Hooks!hookVars, Hooks!dataVars, Hooks!toldVars
  <2>2. Quieter
    BY <2>1 DEF Quieter, Kept
  <2> QED BY <2>1, <2>2, Resting DEF Numbered, DueIsOn
<1>5. CASE Hooks!Exit
  <2>1. UNCHANGED <<stored, on, rows, sent, outbox, done, told, skipped, senders>> /\ disp' = Hooks!NoBatch /\ up' = "down"
    BY <1>5 DEF Hooks!Exit, Hooks!hookVars, Hooks!dataVars, Hooks!toldVars
  <2> QED BY <2>1, Emptied DEF Numbered, DueIsOn, Hooks!NoBatch
<1>6. ASSUME NEW a \in Admins, Hooks!CountHooks(a) \/ Hooks!SyncTrigger(a) \/ Hooks!SyncFails(a) PROVE HooksInv'
  BY <1>2, <1>6 DEF Hooks!CountHooks, Hooks!SyncTrigger, Hooks!SyncFails, Hooks!hookVars, Hooks!dataVars, Hooks!procVars,
                 Hooks!toldVars
<1>7. CASE UNCHANGED hooksVars
  BY <1>2, <1>7 DEF hooksVars
<1> QED
  BY <1>1, <1>3, <1>4, <1>5, <1>6, <1>7, InsertRowKeeps, DispatchKeeps DEF Hooks!Next, Hooks!OwnerRequest

\* An entry of the outbox is put aside only after each of its hooks was called, or was passed
\* over for a failed read or for want of a notifier, for any number of hooks, requests,
\* messages, stops and failing statements (hooks.Drain, hooks.deliver).
THEOREM HooksToldFirst == DeliveredSpec => []ToldBeforeDone
<1>1. DeliveredInit => HooksInv
  BY HooksStart, DeliveredAssumption DEF DeliveredInit
<1>2. HooksInv /\ [DeliveredNext]_deliveredVars => HooksInv'
  BY PartSteps, HooksStep, DeliveredAssumption
<1>3. HooksInv => ToldBeforeDone
  BY DEF HooksInv, DoneCalled, Kept, AllCalled, Called, ToldBeforeDone, Hooks!ToldBeforeDone
<1> QED BY <1>1, <1>2, <1>3, PTL DEF DeliveredSpec

-----------------------------------------------------------------------------
(* Types.  Those of the subscription are BillingProofs'; the others follow    *)
(* component by component.                                                    *)

LEMMA MembersTyped == ASSUME Members!TypeOK, [Members!Next]_membersVars PROVE Members!TypeOK'
<1> USE DEF Members!TypeOK, Members!Phases, Members!Move
<1>1. CASE UNCHANGED membersVars
  BY <1>1 DEF membersVars
<1>2. ASSUME NEW r \in Requests, Members!Request(r) PROVE Members!TypeOK'
  <2>1. CASE Members!Signup(r)
    <3>1. PICK e \in Emails :
            req' = [req EXCEPT ![r].pc = IF Members!Refused(e) THEN "done" ELSE "count", ![r].email = e]
      BY <2>1 DEF Members!Signup
    <3>2. (IF Members!Refused(e) THEN "done" ELSE "count") \in Members!Phases
      OBVIOUS
    <3>3. ReqShape'
      BY <3>1, <3>2, Taken DEF ReqShape
    <3> QED BY <2>1, <3>3 DEF Members!Signup, ReqShape
  <2>2. CASE Members!CountUsers(r)
    <3> DEFINE none == users = {}
               to == [[req[r] EXCEPT !.pc = "insert"] EXCEPT !.first = none]
    <3>1. req' = [req EXCEPT ![r].pc = "insert", ![r].first = none] /\ none \in BOOLEAN
      BY <2>2 DEF Members!CountUsers
    <3> HIDE DEF none
    <3>2. to \in [pc : Members!Phases, email : Emails, first : BOOLEAN]
      BY <3>1
    <3>3. req' = [req EXCEPT ![r] = to]
      BY <3>1
    <3> HIDE DEF to
    <3>4. req' \in [Requests -> [pc : Members!Phases, email : Emails, first : BOOLEAN]]
      BY <3>2, <3>3
    <3>5. UNCHANGED <<users, sessions, cookie, served>>
      BY <2>2 DEF Members!CountUsers
    <3> QED BY <3>4, <3>5
  <2>3. CASE Members!InsertUser(r)
    <3>1. [email |-> req[r].email, admin |-> req[r].first] \in Members!Accounts
      BY DEF Members!Accounts
    <3> QED BY <2>3, <3>1 DEF Members!InsertUser
  <2>4. CASE Members!Login(r)
    <3>1. PICK e \in Members!Registered : req' = [req EXCEPT ![r].pc = "session", ![r].email = e]
      BY <2>4 DEF Members!Login
    <3>2. e \in Emails
      BY <3>1 DEF Members!Registered, Members!Accounts
    <3>3. ReqShape'
      BY <3>1, <3>2, Taken DEF ReqShape
    <3> QED BY <2>4, <3>3 DEF Members!Login, ReqShape
  <2>5. CASE Members!RequestFails(r)
    BY <2>5 DEF Members!RequestFails
  <2>6. CASE Members!StartSession(r)
    BY <2>6 DEF Members!StartSession
  <2>7. CASE Members!NextPage(r)
    BY <2>7 DEF Members!NextPage
  <2>8. CASE Members!RequireOwner(r)
    BY <2>8 DEF Members!RequireOwner, Members!Accounts
  <2>9. CASE Members!Logout(r)
    BY <2>9 DEF Members!Logout
  <2>10. CASE Members!Expire(r)
    BY <2>10 DEF Members!Expire
  <2> QED BY <1>2, <2>1, <2>2, <2>3, <2>4, <2>5, <2>6, <2>7, <2>8, <2>9, <2>10 DEF Members!Request
<1> QED BY <1>1, <1>2 DEF Members!Next

\* The owner's requests, the process and the faults.
RestTypes ==
  /\ trigger \in BOOLEAN /\ admin \in [Admins -> [pc : {"idle", "count", "sync"}, any : BOOLEAN]]
  /\ stops \in 0..MaxStops /\ faults \in 0..MaxFaults
  /\ senders \in {Targets, Targets \ Keyed}

LEMMA RestTypesKept == ASSUME RestTypes, [Hooks!Next]_hooksVars PROVE RestTypes'
<1> USE DeliveredAssumption DEF RestTypes, Hooks!Rest, Hooks!Fault, Hooks!procVars, Hooks!toldVars
<1>1. ASSUME NEW a \in Admins, Hooks!OwnerRequest(a) PROVE RestTypes'
  <2>1. ASSUME NEW h \in Targets, Hooks!HookAdd(a, h) \/ Hooks!HookToggle(a, h) \/ Hooks!HookDelete(a, h)
        PROVE  RestTypes'
    BY <2>1 DEF Hooks!HookAdd, Hooks!HookToggle, Hooks!HookDelete, Hooks!WriteHook
  <2>2. CASE Hooks!CountHooks(a)
    <3>1. [pc |-> "sync", any |-> on # {}] \in [pc : {"idle", "count", "sync"}, any : BOOLEAN]
      OBVIOUS
    <3> QED BY <2>2, <3>1 DEF Hooks!CountHooks
  <2>3. CASE Hooks!SyncTrigger(a)
    BY <2>3 DEF Hooks!SyncTrigger
  <2>4. CASE Hooks!SyncFails(a)
    BY <2>4 DEF Hooks!SyncFails
  <2> QED BY <1>1, <2>1, <2>2, <2>3, <2>4 DEF Hooks!OwnerRequest
<1>2. CASE Hooks!InsertRow \/ \E r \in Hooks!Rowids : Hooks!DeleteRow(r)
  BY <1>2 DEF Hooks!InsertRow, Hooks!DeleteRow
<1>3. CASE Hooks!Dispatch
  <2>1. UNCHANGED <<trigger, admin, stops, senders>> /\ (faults' = faults \/ Hooks!Fault)
    BY <1>3 DEF Hooks!Dispatch, Hooks!Poll, Hooks!LoadHooks, Hooks!RenderRow, Hooks!ReadFails, Hooks!NotifyHook,
           Hooks!DeliverCancelled, Hooks!MarkDone
  <2> QED BY <2>1
<1>4. CASE Hooks!Shutdown \/ Hooks!Exit \/ Hooks!Start
  <2>1. UNCHANGED <<trigger, faults>> /\ (admin' = admin \/ admin' = [a \in Admins |-> [pc |-> "idle", any |-> FALSE]])
    BY <1>4 DEF Hooks!Shutdown, Hooks!Exit, Hooks!Start
  <2>2. stops' = stops \/ (stops < MaxStops /\ stops' = stops + 1)
    BY <1>4 DEF Hooks!Shutdown, Hooks!Exit, Hooks!Start
  <2>3. stops' \in 0..MaxStops
    BY <2>2
  <2>4. [pc |-> "idle", any |-> FALSE] \in [pc : {"idle", "count", "sync"}, any : BOOLEAN]
    OBVIOUS
  <2>5. admin' \in [Admins -> [pc : {"idle", "count", "sync"}, any : BOOLEAN]]
    BY <2>1, <2>4
  <2>6. senders' \in {Targets, Targets \ Keyed}
    BY <1>4 DEF Hooks!Shutdown, Hooks!Exit, Hooks!Start
  <2> QED BY <2>1, <2>3, <2>5, <2>6
<1>5. CASE UNCHANGED hooksVars
  BY <1>5 DEF hooksVars
<1> QED BY <1>1, <1>2, <1>3, <1>4, <1>5 DEF Hooks!Next

\* What is told is a message that was sent: the dispatcher holds one when it calls a hook.
SentTypes ==
  /\ told \subseteq (1..sent) \X Targets
  /\ disp.pc = "notify" => disp.msg \in 1..sent

LEMMA SentTypesKept == ASSUME HooksInv, SentTypes, [Hooks!Next]_hooksVars PROVE SentTypes'
<1> USE DEF SentTypes, HooksInv, HookTypes, Hooks!dataVars, Hooks!toldVars
<1>1. CASE UNCHANGED <<told, disp>> /\ sent' \in Nat /\ sent <= sent'
  BY <1>1
<1>2. ASSUME NEW a \in Admins, Hooks!OwnerRequest(a) PROVE SentTypes'
  BY <1>1, <1>2 DEF Hooks!OwnerRequest, Hooks!HookAdd, Hooks!HookToggle, Hooks!HookDelete, Hooks!WriteHook,
     Hooks!CountHooks, Hooks!SyncTrigger, Hooks!SyncFails
<1>3. CASE Hooks!InsertRow \/ \E r \in Hooks!Rowids : Hooks!DeleteRow(r)
  BY <1>1, <1>3 DEF Hooks!InsertRow, Hooks!DeleteRow
<1>10. CASE Hooks!ReadFails /\ (Hooks!LoadHooks \/ Hooks!RenderRow)
  <2>1. UNCHANGED <<told, sent>> /\ disp'.pc = "mark"
    BY <1>10 DEF Hooks!ReadFails, Hooks!To, Hooks!LoadHooks, Hooks!RenderRow
  <2> QED BY <2>1
<1>4. CASE Hooks!Poll \/ (Hooks!LoadHooks /\ ~Hooks!ReadFails) \/ Hooks!MarkDone
  <2>1. UNCHANGED <<told, sent>>
    BY <1>4 DEF Hooks!Poll, Hooks!LoadHooks, Hooks!MarkDone
  <2>2. CASE Hooks!Poll
    BY <2>1, <2>2 DEF Hooks!Poll, Hooks!NoBatch
  <2>3. CASE Hooks!LoadHooks /\ ~Hooks!ReadFails
    <3>1. disp' = [disp EXCEPT !.pc = IF on = {} THEN "mark" ELSE "render", !.hooks = on]
      BY <2>3 DEF Hooks!LoadHooks
    <3>2. disp'.pc = (IF on = {} THEN "mark" ELSE "render")
      BY <3>1
    <3> QED BY <2>1, <3>2
  <2>4. CASE Hooks!MarkDone
    <3>1. disp'.pc \in {"idle", "load"}
      BY <2>4 DEF Hooks!MarkDone, Hooks!Advanced, Hooks!NoBatch
    <3> QED BY <2>1, <3>1
  <2> QED BY <1>4, <2>2, <2>3, <2>4
<1>5. CASE Hooks!RenderRow /\ ~Hooks!ReadFails
  <2> DEFINE msg == rows[outbox[Hooks!Head1].row]
  <2>1. /\ disp.pc = "render" /\ UNCHANGED <<told, sent>>
        /\ disp' = [disp EXCEPT !.pc = IF msg = 0 THEN "mark" ELSE "notify", !.msg = msg]
    BY <1>5 DEF Hooks!RenderRow
  <2>2. msg \in 0..sent
    BY <2>1, HeadIsEntry, EntryAt DEF AtEntry
  <2> HIDE DEF msg
  <2> QED BY <2>1, <2>2
<1>6. CASE Hooks!NotifyHook
  <2>1. PICK h \in disp.hooks :
          /\ told' = told \cup {<<disp.msg, h>>} \/ told' = told
          /\ disp' = [disp EXCEPT !.hooks = @ \ {h}, !.pc = IF disp.hooks = {h} THEN "mark" ELSE "notify"]
    BY <1>6 DEF Hooks!NotifyHook
  <2>2. disp.pc = "notify" /\ sent' = sent /\ h \in Targets
    BY <1>6 DEF Hooks!NotifyHook
  <2> QED BY <2>1, <2>2
<1>7. CASE Hooks!DeliverCancelled
  <2>1. /\ disp'.pc = "mark" /\ sent' = sent
        /\ told' \in {told} \cup {told \cup {<<disp.msg, h>>} : h \in IF disp.pc = "notify" THEN disp.hooks \cap senders ELSE {}}
    BY <1>7 DEF Hooks!DeliverCancelled, Hooks!To
  <2>2. told' = told \/ (disp.pc = "notify" /\ \E h \in disp.hooks : told' = told \cup {<<disp.msg, h>>})
    BY <2>1
  <2> QED BY <2>1, <2>2
<1>8. CASE Hooks!Shutdown \/ Hooks!Start \/ UNCHANGED hooksVars
  BY <1>1, <1>8 DEF Hooks!Shutdown, Hooks!Start, hooksVars
<1>9. CASE Hooks!Exit
  BY <1>9 DEF Hooks!Exit, Hooks!NoBatch
<1> QED BY <1>2, <1>3, <1>4, <1>5, <1>6, <1>7, <1>8, <1>9, <1>10 DEF Hooks!Next, Hooks!Dispatch

\* What is passed over is a hook of an entry; entries stay.
SkipTypes == skipped \subseteq (DOMAIN outbox) \X Targets

LEMMA SkipTypesKept == ASSUME HooksInv, SkipTypes, [Hooks!Next]_hooksVars PROVE SkipTypes'
<1> USE DEF SkipTypes, Hooks!dataVars, Hooks!toldVars
<1>1. CASE DOMAIN outbox \subseteq DOMAIN outbox' /\ skipped' = skipped
  BY <1>1
<1>2. ASSUME NEW a \in Admins, Hooks!OwnerRequest(a) PROVE SkipTypes'
  <2>1. skipped' = skipped /\ DOMAIN outbox' = DOMAIN outbox
    BY <1>2 DEF Hooks!OwnerRequest, Hooks!HookAdd, Hooks!HookToggle, Hooks!HookDelete, Hooks!WriteHook,
       Hooks!CountHooks, Hooks!SyncTrigger, Hooks!SyncFails
  <2> QED BY <1>1, <2>1
<1>3. CASE Hooks!InsertRow
  <2>1. PICK e : outbox' = (IF trigger THEN Append(outbox, e) ELSE outbox) /\ skipped' = skipped
    BY <1>3 DEF Hooks!InsertRow
  <2>2. outbox \in Seq(Entry) /\ DOMAIN outbox = 1 .. Len(outbox) /\ Len(outbox) \in Nat
    BY EntryAt DEF HooksInv, HookTypes
  <2>3. DOMAIN Append(outbox, e) = 1 .. Len(outbox) + 1
    BY <2>2
  <2> QED BY <1>1, <2>1, <2>2, <2>3
<1>4. CASE UNCHANGED <<outbox, skipped>>
  BY <1>4
<1>5. CASE Hooks!LoadHooks \/ Hooks!RenderRow
  <2>1. outbox' = outbox /\ disp.batch # {} /\ (skipped' = skipped \/ Hooks!ReadFails)
    BY <1>5 DEF Hooks!LoadHooks, Hooks!RenderRow, HooksInv, AtEntry
  <2>2. Hooks!Head1 \in DOMAIN outbox /\ outbox[Hooks!Head1].due \subseteq Targets
    BY <2>1, HeadIsEntry, EntryAt DEF HooksInv, Entry
  <2> QED BY <2>1, <2>2 DEF Hooks!ReadFails
<1>6. CASE Hooks!NotifyHook
  <2>1. outbox' = outbox /\ disp.batch # {}
    BY <1>6 DEF Hooks!NotifyHook, HooksInv, AtEntry
  <2>2. Hooks!Head1 \in DOMAIN outbox /\ disp.hooks \subseteq Targets
    BY <2>1, HeadIsEntry DEF HooksInv, HookTypes
  <2>3. PICK h \in disp.hooks : skipped' = skipped \/ skipped' = skipped \cup {<<Hooks!Head1, h>>}
    BY <1>6 DEF Hooks!NotifyHook
  <2> QED BY <2>1, <2>2, <2>3
<1> QED
  BY <1>2, <1>3, <1>4, <1>5, <1>6 DEF Hooks!Next, Hooks!Dispatch, Hooks!Poll, Hooks!DeliverCancelled, Hooks!MarkDone,
     Hooks!DeleteRow, Hooks!Shutdown, Hooks!Exit, Hooks!Start, hooksVars

LEMMA HooksTyped == ASSUME HooksInv, RestTypes, SentTypes, SkipTypes PROVE Hooks!TypeOK
<1>1. \A i \in DOMAIN outbox : outbox[i].row \in Hooks!Rowids /\ outbox[i].due \subseteq Targets
  BY EntryAt DEF HooksInv, Entry
<1> QED BY <1>1 DEF HooksInv, HookTypes, RestTypes, SentTypes, SkipTypes, Hooks!TypeOK

-----------------------------------------------------------------------------
\* The payment's handler and the copies that are current.
CopyTypes == current \subseteq Runs \cup {"pay"} /\ pay \in {"idle", "save", "start"}

LEMMA CopyTypesKept == ASSUME CopyTypes, [Reviewer!Next]_reviewerVars PROVE CopyTypes'
  BY DEF CopyTypes, Reviewer!Next, Reviewer!Trigger, Reviewer!Build, Reviewer!Review, Reviewer!MarkPaid,
         Reviewer!SavePaid, Reviewer!ReviewPaid, Reviewer!MarkUnpaid, Reviewer!RunReview, Reviewer!StartBuild,
         Reviewer!Upload, Reviewer!Publish, Reviewer!Published, Reviewer!OfferReview, Reviewer!BuildFails,
         Reviewer!LoadProject, Reviewer!FetchSnapshot, Reviewer!Fails, Reviewer!Reload, Reviewer!SaveReview,
         Reviewer!Touch, Reviewer!Crash, Reviewer!Write, Reviewer!Outside, reviewerVars

-----------------------------------------------------------------------------
\* Renewals.  The registry's date goes by whole years, so it ends with the last.
Yearly == \E n \in 1 .. MaxRenewals + 1 : expiry = Renewal!Year * n

RenewalInv == Renewal!TypeOK /\ Yearly

LEMMA LastYear == Renewal!Last \in Nat /\ Renewal!Last = 12 * MaxRenewals + 12 /\ Renewal!Year = 12
  BY DeliveredAssumption DEF Renewal!Last, Renewal!Year

DomainType == [status : {"registering", "active", "none"}, paid : Nat]
PollerType == [pc : {"idle", "read", "anchor", "bill", "save"}, paid : Nat, exp : 0 .. Renewal!Last]

LEMMA YearlyBounds == ASSUME Yearly PROVE expiry \in Renewal!Year .. Renewal!Last
<1>1. PICK n \in 1 .. MaxRenewals + 1 : expiry = 12 * n
  BY LastYear DEF Yearly
<1> QED BY <1>1, LastYear, DeliveredAssumption

LEMMA RenewalStart == ASSUME Renewal!Init PROVE RenewalInv
<1>1. Yearly
  <2>1. 1 \in 1 .. MaxRenewals + 1 /\ expiry = 12 * 1
    BY DeliveredAssumption DEF Renewal!Init, Renewal!Year
  <2> QED BY <2>1, LastYear DEF Yearly
<1>2. domain \in DomainType /\ poller \in PollerType
  BY LastYear DEF Renewal!Init, Renewal!Idle, DomainType, PollerType
<1>3. expiry \in Renewal!Year .. Renewal!Last
  BY <1>1, YearlyBounds
<1>4. seen \in BOOLEAN /\ covered = 0 /\ invoiced = 0 /\ detours = 0
  BY DEF Renewal!Init
<1> QED
  BY <1>1, <1>2, <1>3, <1>4, DeliveredAssumption DEF RenewalInv, Renewal!TypeOK, DomainType, PollerType

LEMMA YearlyKept == ASSUME Yearly, [Renewal!Next]_renewalVars PROVE Yearly'
<1>1. CASE Renewal!AutoRenew
  <2>1. PICK n \in 1 .. MaxRenewals + 1 : expiry = 12 * n
    BY LastYear DEF Yearly
  <2>2. n + 1 \in 1 .. MaxRenewals + 1 /\ expiry' = 12 * (n + 1)
    BY <1>1, <2>1, LastYear, DeliveredAssumption DEF Renewal!AutoRenew
  <2> QED BY <2>2, LastYear DEF Yearly
<1>2. CASE ~Renewal!AutoRenew
  <2>1. expiry' = expiry
    BY <1>2 DEF Renewal!Next, Renewal!Poll, Renewal!Activate, Renewal!DetachDomain, Renewal!Touch,
       Renewal!ListProjects, Renewal!DomainExpiry, Renewal!Bill, Renewal!SavePaidThrough, Renewal!ExpiryUnknown,
       Renewal!Refused, Renewal!Crash, renewalVars
  <2> QED BY <2>1 DEF Yearly
<1> QED BY <1>1, <1>2

\* The poller takes its copy, reads the date, moves on or rests.
LEMMA PollerKept ==
  ASSUME RenewalInv, [Renewal!Next]_renewalVars
  PROVE  poller' \in PollerType
<1>0. poller \in PollerType /\ domain.paid \in Nat /\ expiry \in 0 .. Renewal!Last
  BY LastYear, YearlyBounds DEF RenewalInv, Renewal!TypeOK, PollerType
<1>1. CASE poller' = Renewal!Idle
  BY <1>1, LastYear DEF Renewal!Idle, PollerType
<1>2. ASSUME NEW pc \in {"anchor", "bill", "save"}, poller' = [poller EXCEPT !.pc = pc] PROVE poller' \in PollerType
  BY <1>0, <1>2 DEF PollerType
<1>3. CASE Renewal!ListProjects
  BY <1>0, <1>3, LastYear DEF Renewal!ListProjects, PollerType
<1>4. CASE Renewal!DomainExpiry /\ poller' # Renewal!Idle
  <2>1. poller' = [poller EXCEPT !.pc = IF poller.paid = 0 THEN "anchor" ELSE "bill", !.exp = expiry]
    BY <1>4 DEF Renewal!DomainExpiry, Renewal!End
  <2> QED BY <1>0, <2>1 DEF PollerType
<1>5. CASE Renewal!Bill
  BY <1>2, <1>5 DEF Renewal!Bill, Renewal!To
<1>6. CASE ~(Renewal!ListProjects \/ Renewal!DomainExpiry \/ Renewal!Bill)
  <2>1. poller' = poller \/ poller' = Renewal!Idle
    BY <1>6 DEF Renewal!Next, Renewal!Poll, Renewal!Activate, Renewal!AutoRenew, Renewal!DetachDomain, Renewal!Touch,
       Renewal!SavePaidThrough, Renewal!ExpiryUnknown, Renewal!Refused, Renewal!Crash, Renewal!End, renewalVars
  <2> QED BY <1>0, <1>1, <2>1
<1> QED BY <1>1, <1>3, <1>4, <1>5, <1>6

LEMMA DomainKept ==
  ASSUME RenewalInv, [Renewal!Next]_renewalVars
  PROVE  domain' \in DomainType /\ covered' \in Nat
<1>0. domain \in DomainType /\ covered \in Nat /\ poller.exp \in Nat
  BY LastYear DEF RenewalInv, Renewal!TypeOK, DomainType
<1>1. CASE Renewal!Activate
  <2>1. PICK paid \in {Renewal!Year + lag : lag \in Lags} \cup {0} :
          domain' = [status |-> "active", paid |-> paid] /\ covered' = paid
    BY <1>1 DEF Renewal!Activate
  <2>2. paid \in Nat
    BY LastYear, DeliveredAssumption
  <2> QED BY <2>1, <2>2 DEF DomainType
<1>2. CASE Renewal!DetachDomain
  BY <1>0, <1>2 DEF Renewal!DetachDomain, DomainType
<1>3. CASE Renewal!SavePaidThrough
  BY <1>0, <1>3 DEF Renewal!SavePaidThrough, DomainType
<1>4. CASE Renewal!Bill
  BY <1>0, <1>4 DEF Renewal!Bill
<1>5. CASE ~(Renewal!Activate \/ Renewal!DetachDomain \/ Renewal!SavePaidThrough \/ Renewal!Bill)
  <2>1. domain' = domain /\ covered' = covered
    BY <1>5 DEF Renewal!Next, Renewal!Poll, Renewal!AutoRenew, Renewal!Touch, Renewal!ListProjects,
       Renewal!DomainExpiry, Renewal!ExpiryUnknown, Renewal!Refused, Renewal!Crash, renewalVars
  <2> QED BY <1>0, <2>1
<1> QED BY <1>1, <1>2, <1>3, <1>4, <1>5

LEMMA RenewalStep == ASSUME RenewalInv, [Renewal!Next]_renewalVars PROVE RenewalInv'
<1>1. Yearly'
  BY YearlyKept DEF RenewalInv
<1>2. expiry' \in Renewal!Year .. Renewal!Last
  <2>1. PICK n \in 1 .. MaxRenewals + 1 : expiry' = 12 * n
    BY <1>1, LastYear DEF Yearly
  <2> QED BY <2>1, LastYear, DeliveredAssumption
<1>3. seen' \in BOOLEAN
  BY DEF RenewalInv, Renewal!TypeOK, Renewal!Next, Renewal!Poll, Renewal!Activate, Renewal!AutoRenew,
     Renewal!DetachDomain, Renewal!Touch, Renewal!ListProjects, Renewal!DomainExpiry, Renewal!Bill,
     Renewal!SavePaidThrough, Renewal!ExpiryUnknown, Renewal!Refused, Renewal!Crash, Renewal!End, Renewal!To, renewalVars
<1>4. invoiced' \in Nat
  BY DEF RenewalInv, Renewal!TypeOK, Renewal!Next, Renewal!Poll, Renewal!Activate, Renewal!AutoRenew,
     Renewal!DetachDomain, Renewal!Touch, Renewal!ListProjects, Renewal!DomainExpiry, Renewal!Bill,
     Renewal!SavePaidThrough, Renewal!ExpiryUnknown, Renewal!Refused, Renewal!Crash, renewalVars
<1>5. detours' \in 0 .. MaxDetours
  <2>1. detours' = detours \/ Renewal!Detour
    BY DEF Renewal!Next, Renewal!Poll, Renewal!Activate, Renewal!AutoRenew,
       Renewal!DetachDomain, Renewal!Touch, Renewal!ListProjects, Renewal!DomainExpiry, Renewal!Bill,
       Renewal!SavePaidThrough, Renewal!ExpiryUnknown, Renewal!Refused, Renewal!Crash, renewalVars
  <2> QED BY <2>1, DeliveredAssumption DEF RenewalInv, Renewal!TypeOK, Renewal!Detour
<1> QED
  BY <1>1, <1>2, <1>3, <1>4, <1>5, PollerKept, DomainKept DEF RenewalInv, Renewal!TypeOK, PollerType, DomainType

-----------------------------------------------------------------------------
\* Rows, requests, outbox, runs and the poller keep their types, for every value of the
\* constants.
THEOREM DeliveredTypes == DeliveredSpec => []DeliveredTypeOK
<1> DEFINE Typed == /\ Members!TypeOK /\ HooksInv /\ RestTypes /\ SentTypes /\ SkipTypes
                    /\ ReviewInv /\ CopyTypes /\ RenewalInv
<1>1. DeliveredInit => Typed
  <2> SUFFICES ASSUME DeliveredInit PROVE Typed
    OBVIOUS
  <2>1. Members!TypeOK
    BY DeliveredAssumption DEF DeliveredInit, Members!Init, Members!TypeOK, Members!Phases
  <2>2. RestTypes /\ SentTypes /\ SkipTypes
    <3>1. [pc |-> "idle", any |-> FALSE] \in [pc : {"idle", "count", "sync"}, any : BOOLEAN]
      OBVIOUS
    <3>2. admin \in [Admins -> [pc : {"idle", "count", "sync"}, any : BOOLEAN]]
      BY <3>1 DEF DeliveredInit, Hooks!Init, Hooks!Rest
    <3>3. trigger \in BOOLEAN /\ stops = 0 /\ faults = 0 /\ told = {} /\ skipped = {} /\ disp.pc = "idle"
          /\ senders \in {Targets, Targets \ Keyed}
      BY DEF DeliveredInit, Hooks!Init, Hooks!NoBatch
    <3> QED BY <3>2, <3>3, DeliveredAssumption DEF RestTypes, SentTypes, SkipTypes
  <2>3. CopyTypes
    BY DEF DeliveredInit, Reviewer!Init, CopyTypes
  <2> QED BY <2>1, <2>2, <2>3, HooksStart, ReviewStart, RenewalStart, DeliveredAssumption DEF DeliveredInit
<1>2. Typed /\ [DeliveredNext]_deliveredVars => Typed'
  BY PartSteps, DeliveredAssumption, MembersTyped, HooksStep, RestTypesKept, SentTypesKept,
     SkipTypesKept, ReviewStep,
     CopyTypesKept, RenewalStep
<1>3. Typed => Members!TypeOK /\ Hooks!TypeOK /\ Reviewer!TypeOK /\ Renewal!TypeOK
  BY HooksTyped DEF ReviewInv, ReviewTypes, CopyTypes, Reviewer!TypeOK, RenewalInv
<1>4. DeliveredSpec => Spec
  <2>1. DeliveredInit => Init
    BY DEF DeliveredInit
  <2>2. [DeliveredNext]_deliveredVars => [Next]_vars
    BY PartSteps
  <2> QED BY <2>1, <2>2, PTL DEF DeliveredSpec, Spec
<1>5. TypeOK /\ Members!TypeOK /\ Hooks!TypeOK /\ Reviewer!TypeOK /\ Renewal!TypeOK => DeliveredTypeOK
  BY DEF DeliveredTypeOK
<1> QED BY <1>1, <1>2, <1>3, <1>4, <1>5, TypeCorrect, PTL DEF DeliveredSpec
=============================================================================
