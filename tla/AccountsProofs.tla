--------------------------- MODULE AccountsProofs ---------------------------
(***************************************************************************)
(* Theorems of Accounts for every number of requests and projects.          *)
(*                                                                         *)
(* PurgedFirst: the cascade of a deleted account finds no row whose objects *)
(* are still there.  What the handler listed under accountMu is all there   *)
(* is until it lets go of it, since a project is created under it only.     *)
(*                                                                         *)
(* CapsKept: what a creation counted under accountMu, and a build under the *)
(* advisory lock, can only have become less when it inserts.                *)
(*                                                                         *)
(* TypeOK: a request past its sign-in names an account, a purge a project.  *)
(***************************************************************************)
EXTENDS Accounts, FiniteSetTheorems, TLAPS

Phases == {"idle", "find", "create", "session", "quota", "insert", "list",
           "sweep", "remove", "logout", "delete", "done"}
Owners == Requests \cup {None}

RequestType == [pc : Phases, user : Owners, known : BOOLEAN, on : Projects \cup {None}, left : SUBSET Projects]
ReqShape == req \in [Requests -> RequestType]
ProjShape == proj \in [Projects -> [status : Statuses, owner : Owners, paid : BOOLEAN]]
IterShape == iter \in [Builds -> [status : BuildStatuses, of : Projects \cup {None}]]
SignShape == account \in Owners /\ session \subseteq Owners

Shapes == ReqShape /\ ProjShape /\ IterShape /\ SignShape

\* accountMu is held from the check to the insert, and while an account is deleted.
MutexHeld ==
  \A r \in Requests :
    /\ req[r].pc \in {"insert", "logout"} => mutex = r
    /\ mutex = r => req[r].pc \in {"insert", "logout", "sweep", "remove"}

SweptBefore == \A r \in Requests : req[r].pc = "remove" => req[r].on \in swept

\* Who deletes an account still has before it every row of it with objects.
Listed ==
  \A r \in Requests : mutex = r /\ req[r].pc # "insert" =>
    Owned(req[r].user) \subseteq req[r].left \cup swept \cup (IF req[r].pc = "sweep" THEN {req[r].on} ELSE {})

PurgeInv == Shapes /\ MutexHeld /\ SweptBefore /\ Listed

-----------------------------------------------------------------------------
(* What steps do to the requests and the rows. *)

LEMMA PurgeInit == ASSUME None \notin Requests, Init PROVE PurgeInv
  <1>1. ReqShape /\ \A r \in Requests : req[r].pc = "idle"
    BY DEF Init, ReqShape, RequestType, Rest, Phases, Owners
  <1>2. ProjShape
    BY DEF Init, ProjShape, NoRow, Statuses, Owners
  <1>3. IterShape /\ SignShape
    BY DEF Init, IterShape, SignShape, Owners, NoBuild, BuildStatuses
  <1>4. MutexHeld /\ SweptBefore /\ Listed
    BY <1>1 DEF Init, MutexHeld, SweptBefore, Listed
  <1> QED
    BY <1>1, <1>2, <1>3, <1>4 DEF PurgeInv, Shapes

\* Rows may go, change their status or be paid, but none is added or handed on.
NoneAdded == \A p \in Projects : proj'[p].status # "absent" =>
               proj[p].status # "absent" /\ proj'[p].owner = proj[p].owner

LEMMA NoneAddedOwned ==
  ASSUME NoneAdded
  PROVE  \A u \in Owners : Owned(u)' \subseteq Owned(u)
  BY DEF NoneAdded, Owned, Rows

LEMMA MoveShape ==
  ASSUME ReqShape, NEW r \in Requests, NEW pc \in Phases, Move(r, pc)
  PROVE  /\ ReqShape' /\ \A q \in Requests \ {r} : req'[q] = req[q]
         /\ req'[r].pc = pc /\ req'[r].user = req[r].user /\ req'[r].on = req[r].on /\ req'[r].left = req[r].left
  BY DEF ReqShape, RequestType, Move

LEMMA SetShape ==
  ASSUME ReqShape, NEW r \in Requests, NEW to \in RequestType, req' = [req EXCEPT ![r] = to]
  PROVE  ReqShape' /\ req'[r] = to /\ \A q \in Requests \ {r} : req'[q] = req[q]
  BY DEF ReqShape

LEMMA UserShape ==
  ASSUME ReqShape, NEW r \in Requests, NEW pc \in Phases, NEW u \in Owners, NEW k \in BOOLEAN,
         \/ req' = [req EXCEPT ![r].pc = pc, ![r].user = u]
         \/ req' = [req EXCEPT ![r].pc = pc, ![r].user = u, ![r].known = k]
  PROVE  ReqShape' /\ req'[r].pc = pc /\ req'[r].user = u /\ \A q \in Requests \ {r} : req'[q] = req[q]
  <1> DEFINE one == [[req[r] EXCEPT !.pc = pc] EXCEPT !.user = u]
             two == [one EXCEPT !.known = k]
  <1>1. req[r] \in RequestType
    BY DEF ReqShape
  <1>2. one \in RequestType /\ one.pc = pc /\ one.user = u
    BY <1>1 DEF RequestType
  <1>3. two \in RequestType /\ two.pc = pc /\ two.user = u
    BY <1>1 DEF RequestType
  <1>4. req' = [req EXCEPT ![r] = one] \/ req' = [req EXCEPT ![r] = two]
    BY DEF ReqShape
  <1> HIDE DEF one, two
  <1> QED
    BY <1>2, <1>3, <1>4, SetShape

LEMMA ProjectShape ==
  ASSUME ReqShape, NEW r \in Requests, NEW p \in Projects, NEW u \in Owners,
         \/ req' = [req EXCEPT ![r].pc = "sweep", ![r].on = p]
         \/ req' = [req EXCEPT ![r].pc = "sweep", ![r].on = p, ![r].user = u]
  PROVE  ReqShape' /\ req'[r].pc = "sweep" /\ req'[r].on = p /\ \A q \in Requests \ {r} : req'[q] = req[q]
  <1> DEFINE one == [[req[r] EXCEPT !.pc = "sweep"] EXCEPT !.on = p]
             two == [one EXCEPT !.user = u]
  <1>1. req[r] \in RequestType
    BY DEF ReqShape
  <1>2. one \in RequestType /\ one.pc = "sweep" /\ one.on = p
    BY <1>1 DEF RequestType, Phases
  <1>3. two \in RequestType /\ two.pc = "sweep" /\ two.on = p
    BY <1>1 DEF RequestType, Phases
  <1>4. req' = [req EXCEPT ![r] = one] \/ req' = [req EXCEPT ![r] = two]
    BY DEF ReqShape
  <1> HIDE DEF one, two
  <1> QED
    BY <1>2, <1>3, <1>4, SetShape

LEMMA GoneShape ==
  ASSUME Shapes, NEW ps, Gone(ps)
  PROVE  /\ ProjShape' /\ IterShape' /\ NoneAdded
         /\ \A p \in Projects : p \in Rows /\ proj'[p] = NoRow => p \in ps \/ proj[p] = NoRow
  <1>1. \A p \in Projects : proj'[p] = (IF p \in ps THEN NoRow ELSE proj[p])
    BY DEF Gone
  <1>2. NoRow \in [status : Statuses, owner : Owners, paid : BOOLEAN] /\ NoRow.status = "absent"
    BY DEF NoRow, Statuses, Owners
  <1>3. ProjShape' /\ NoneAdded
    BY <1>1, <1>2 DEF Gone, Shapes, ProjShape, NoneAdded
  <1>4. IterShape'
    BY DEF Gone, Shapes, IterShape, NoBuild, BuildStatuses
  <1> QED
    BY <1>1, <1>3, <1>4

Counted == {b \in Builds : iter[b].status = "counted"}

\* A step of a build is one of its iteration: reserved, inserted or refused, swept,
\* written back, or over.
LEMMA BuildShape ==
  ASSUME IterShape, NEW b \in Builds, NEW p \in Projects, BuildStep(b, p)
  PROVE  /\ IterShape' /\ \A c \in Builds \ {b} : iter'[c] = iter[c]
         /\ \/ Counted = {} /\ ~Full /\ iter[b].status = "none" /\ iter'[b].status = "counted"
            \/ iter[b].status = "counted" /\ iter'[b].status \in {"building", "none"}
            \/ /\ iter[b].status \in {"building", "swept", "revived"}
               /\ iter'[b].status \in {"swept", "revived", "over"}
         /\ \/ proj' = proj
            \/ proj[p].status = "building" /\ proj' = [proj EXCEPT ![p].status = "resting"]
         /\ UNCHANGED <<req, mutex, account, approved, link, session, objects, swept, jobs>>
  <1>1. iter[b] \in [status : BuildStatuses, of : Projects \cup {None}]
    BY DEF IterShape
  <1>2. ASSUME NEW to \in [status : BuildStatuses, of : Projects \cup {None}], iter' = [iter EXCEPT ![b] = to]
        PROVE  IterShape' /\ iter'[b] = to /\ \A c \in Builds \ {b} : iter'[c] = iter[c]
    BY <1>2 DEF IterShape
  <1>3. ASSUME NEW s \in BuildStatuses, iter' = [iter EXCEPT ![b].status = s]
        PROVE  IterShape' /\ iter'[b].status = s /\ \A c \in Builds \ {b} : iter'[c] = iter[c]
    <2> DEFINE to == [iter[b] EXCEPT !.status = s]
    <2>1. to \in [status : BuildStatuses, of : Projects \cup {None}] /\ to.status = s
      BY <1>1
    <2>2. iter' = [iter EXCEPT ![b] = to]
      BY <1>3 DEF IterShape
    <2> HIDE DEF to
    <2> QED
      BY <1>2, <2>1, <2>2
  <1>4. CASE Reserve(b, p)
    <2>1. [status |-> "counted", of |-> p] \in [status : BuildStatuses, of : Projects \cup {None}]
      BY DEF BuildStatuses
    <2>2. Counted = {} /\ ~Full /\ iter[b].status = "none"
      BY <1>4 DEF Reserve, LockFree, Counted
    <2>3. IterShape' /\ iter'[b] = [status |-> "counted", of |-> p] /\ \A c \in Builds \ {b} : iter'[c] = iter[c]
      BY <1>2, <1>4, <2>1 DEF Reserve
    <2> QED
      BY <1>4, <2>2, <2>3 DEF Reserve, signVars, dataVars
  <1>5. CASE InsertIteration(b, p)
    <2> DEFINE to == IF p \in Rows THEN [iter[b] EXCEPT !.status = "building"] ELSE NoBuild
    <2>1. /\ to \in [status : BuildStatuses, of : Projects \cup {None}]
          /\ to.status \in {"building", "none"}
      BY <1>1 DEF BuildStatuses, NoBuild
    <2>2. iter' = [iter EXCEPT ![b] = to] /\ iter[b].status = "counted"
      BY <1>5 DEF InsertIteration, IterShape
    <2> HIDE DEF to
    <2>3. IterShape' /\ iter'[b] = to /\ \A c \in Builds \ {b} : iter'[c] = iter[c]
      BY <1>2, <2>1, <2>2
    <2> QED
      BY <1>5, <2>1, <2>2, <2>3 DEF InsertIteration, signVars, dataVars
  <1>6. CASE SweepLeftover(b, p)
    <2>1. IterShape' /\ iter'[b].status = "swept" /\ \A c \in Builds \ {b} : iter'[c] = iter[c]
      BY <1>3, <1>6 DEF SweepLeftover, BuildStatuses
    <2> QED
      BY <1>6, <2>1 DEF SweepLeftover, signVars, dataVars
  <1>7. CASE Persist(b, p)
    <2>1. IterShape' /\ iter'[b].status = "revived" /\ \A c \in Builds \ {b} : iter'[c] = iter[c]
      BY <1>3, <1>7 DEF Persist, BuildStatuses
    <2> QED
      BY <1>7, <2>1 DEF Persist, signVars, dataVars
  <1>8. CASE BuildEnds(b, p)
    <2>1. IterShape' /\ iter'[b].status = "over" /\ \A c \in Builds \ {b} : iter'[c] = iter[c]
      BY <1>3, <1>8 DEF BuildEnds, BuildStatuses
    <2> QED
      BY <1>8, <2>1 DEF BuildEnds, Active, signVars, dataVars
  <1> QED
    BY <1>4, <1>5, <1>6, <1>7, <1>8 DEF BuildStep

LEMMA SystemShape ==
  ASSUME Shapes, NEW p \in Projects, System(p)
  PROVE  /\ Shapes' /\ NoneAdded /\ UNCHANGED <<req, mutex, swept>>
         /\ \A q \in Projects : q \in Rows => proj'[q].status # "absent"
  <1> USE DEF Shapes
  <1>1. UNCHANGED <<req, mutex, swept>> /\ ReqShape' /\ SignShape' /\ IterShape'
    <2>1. CASE \E b \in Builds : BuildStep(b, p)
      <3>1. PICK b \in Builds : BuildStep(b, p)
        BY <2>1
      <3>2. IterShape' /\ UNCHANGED <<req, mutex, account, session, swept>>
        BY <3>1, BuildShape
      <3> QED
        BY <3>2 DEF ReqShape, SignShape
    <2>2. CASE ApproveAccess(p) \/ Proceed(p) \/ Pay(p) \/ StartJob(p) \/ StoreObject(p)
      BY <2>2 DEF ApproveAccess, Proceed, Pay, StartJob, StoreObject, signVars, dataVars, ReqShape, SignShape, IterShape
    <2> QED
      BY <2>1, <2>2 DEF System
  <1>2. \/ proj' = proj
        \/ \E s \in Statuses \ {"absent"}, b \in BOOLEAN :
             p \in Rows /\ proj' = [proj EXCEPT ![p].status = s, ![p].paid = b]
    <2>0. \A m \in Moves : m[1] # "absent" /\ m[2] \in Statuses \ {"absent"}
      BY DEF Moves, Statuses
    <2>1. CASE ApproveAccess(p) \/ Proceed(p) \/ \E b \in Builds : BuildStep(b, p)
      <3>1. proj' = proj \/ \E s \in Statuses \ {"absent"} : p \in Rows /\ proj' = [proj EXCEPT ![p].status = s]
        <4>1. CASE ApproveAccess(p)
          BY <4>1 DEF ApproveAccess, Rows, Statuses
        <4>2. CASE Proceed(p)
          BY <2>0, <4>2 DEF Proceed, Rows
        <4>3. CASE \E b \in Builds : BuildStep(b, p)
          <5>1. PICK b \in Builds : BuildStep(b, p)
            BY <4>3
          <5>2. proj' = proj \/ (proj[p].status = "building" /\ proj' = [proj EXCEPT ![p].status = "resting"])
            BY <5>1, BuildShape
          <5> QED
            BY <5>2 DEF Rows, Statuses
        <4> QED
          BY <2>1, <4>1, <4>2, <4>3
      <3>2. \A s \in Statuses : [proj EXCEPT ![p].status = s]
                               = [proj EXCEPT ![p].status = s, ![p].paid = proj[p].paid]
        BY DEF ProjShape
      <3>3. proj[p].paid \in BOOLEAN
        BY DEF ProjShape
      <3> QED
        BY <3>1, <3>2, <3>3
    <2>2. CASE Pay(p)
      <3>1. proj[p].status = "resting" /\ proj' = [proj EXCEPT ![p].paid = TRUE] /\ p \in Rows
        BY <2>2 DEF Pay, Rows
      <3>2. [proj EXCEPT ![p].paid = TRUE] = [proj EXCEPT ![p].status = "resting", ![p].paid = TRUE]
        BY <3>1 DEF ProjShape
      <3> QED
        BY <3>1, <3>2 DEF Statuses
    <2>3. CASE StartJob(p) \/ StoreObject(p)
      BY <2>3 DEF StartJob, StoreObject
    <2> QED
      BY <2>1, <2>2, <2>3 DEF System
  <1>3. ProjShape' /\ NoneAdded /\ \A q \in Projects : q \in Rows => proj'[q].status # "absent"
    <2>1. CASE proj' = proj
      BY <2>1 DEF ProjShape, NoneAdded, Rows
    <2>2. ASSUME NEW s \in Statuses \ {"absent"}, NEW b \in BOOLEAN, p \in Rows,
                 proj' = [proj EXCEPT ![p].status = s, ![p].paid = b]
          PROVE  ProjShape' /\ NoneAdded /\ \A q \in Projects : q \in Rows => proj'[q].status # "absent"
      <3>1. proj[p] \in [status : Statuses, owner : Owners, paid : BOOLEAN] /\ proj[p].status # "absent"
        BY <2>2 DEF ProjShape, Rows
      <3> DEFINE moved == [[proj[p] EXCEPT !.status = s] EXCEPT !.paid = b]
      <3>2. proj' = [proj EXCEPT ![p] = moved]
        BY <2>2 DEF ProjShape
      <3>3. moved \in [status : Statuses, owner : Owners, paid : BOOLEAN]
            /\ moved.status = s /\ moved.owner = proj[p].owner
        BY <3>1
      <3> HIDE DEF moved
      <3>4. ProjShape'
        BY <3>2, <3>3 DEF ProjShape
      <3>5. NoneAdded /\ \A q \in Projects : q \in Rows => proj'[q].status # "absent"
        BY <3>1, <3>2, <3>3 DEF ProjShape, NoneAdded, Rows
      <3> QED
        BY <3>4, <3>5
    <2> QED
      BY <1>2, <2>1, <2>2
  <1> QED
    BY <1>1, <1>3

-----------------------------------------------------------------------------
(* PurgedFirst. *)

\* A step of one request, which is not about to insert after it.
OnlyMoves(r) == req'[r].pc # "insert" /\ \A q \in Requests \ {r} : req'[q] = req[q]

\* A request that neither takes accountMu nor goes on under it.
LEMMA Outside ==
  ASSUME None \notin Requests, PurgeInv, NEW r \in Requests, Shapes',
         \A q \in Requests \ {r} : req'[q] = req[q],
         NoneAdded \/ mutex' = None, swept \subseteq swept',
         req'[r].pc \notin {"insert", "logout"},
         \/ mutex' = mutex /\ mutex # r
         \/ mutex' = None /\ mutex = r,
         req'[r].pc = "remove" => req'[r].on \in swept'
  PROVE  PurgeInv'
  <1>1. MutexHeld'
    BY DEF PurgeInv, MutexHeld
  <1>2. SweptBefore'
    BY DEF PurgeInv, SweptBefore
  <1>3. CASE mutex' = None
    <2>1. Listed'
      BY <1>3 DEF Listed
    <2> QED
      BY <1>1, <1>2, <2>1 DEF PurgeInv
  <1>4. CASE NoneAdded /\ mutex' = mutex /\ mutex # r
    <2>1. Listed'
      BY <1>4, NoneAddedOwned DEF PurgeInv, Shapes, ReqShape, RequestType, Listed
    <2> QED
      BY <1>1, <1>2, <2>1 DEF PurgeInv
  <1> QED
    BY <1>3, <1>4

LEMMA PurgeSystem ==
  ASSUME PurgeInv, NEW p \in Projects, System(p)
  PROVE  PurgeInv'
  <1>1. Shapes' /\ NoneAdded /\ UNCHANGED <<req, mutex, swept>>
    BY SystemShape DEF PurgeInv
  <1>2. MutexHeld' /\ SweptBefore'
    BY <1>1 DEF PurgeInv, MutexHeld, SweptBefore
  <1>3. Listed'
    BY <1>1, NoneAddedOwned DEF PurgeInv, Shapes, ReqShape, RequestType, Listed
  <1> QED
    BY <1>1, <1>2, <1>3 DEF PurgeInv

\* Signing in, and whatever is refused before accountMu is taken.
LEMMA SignInPurge ==
  ASSUME None \notin Requests, PurgeInv, NEW r \in Requests,
         \/ ConsumeLoginToken(r) \/ OAuthCallback(r) \/ FindUser(r) \/ CreateUser(r) \/ StartSession(r)
         \/ RequireUser(r, "quota") \/ RequireUser(r, "list")
  PROVE  PurgeInv' /\ proj' = proj /\ OnlyMoves(r)
  <1> USE DEF PurgeInv, Shapes, OnlyMoves
  <1>1. UNCHANGED <<mutex, proj, iter, swept>>
    BY DEF ConsumeLoginToken, OAuthCallback, FindUser, CreateUser, StartSession, RequireUser, dataVars
  <1>2. SignShape'
    BY DEF ConsumeLoginToken, OAuthCallback, FindUser, CreateUser, StartSession, RequireUser, signVars, SignShape, Owners
  <1>3. ReqShape' /\ req'[r].pc \notin {"insert", "logout", "remove"} /\ \A q \in Requests \ {r} : req'[q] = req[q]
    <2>1. CASE ConsumeLoginToken(r) \/ OAuthCallback(r) \/ StartSession(r)
      BY <2>1, MoveShape DEF ConsumeLoginToken, OAuthCallback, StartSession, Ends, Phases
    <2>2. CASE FindUser(r)
      <3>1. PICK pc \in {"create", "session"} : req' = [req EXCEPT ![r].pc = pc, ![r].user = account]
        BY <2>2 DEF FindUser
      <3> QED
        BY <3>1, UserShape DEF SignShape, Phases
    <2>3. CASE CreateUser(r)
      <3>1. CASE Ends(r)
        BY <3>1, MoveShape DEF Ends, Phases
      <3>2. CASE req' = [req EXCEPT ![r].pc = "session", ![r].user = r]
        BY <3>2, UserShape DEF Phases, Owners
      <3> QED
        BY <2>3, <3>1, <3>2 DEF CreateUser
    <2>4. CASE RequireUser(r, "quota") \/ RequireUser(r, "list")
      <3>1. PICK pc \in {"quota", "list"}, u \in session :
              req' = [req EXCEPT ![r].pc = pc, ![r].user = u, ![r].known = u \in approved]
        BY <2>4 DEF RequireUser
      <3>2. u \in Owners /\ (u \in approved) \in BOOLEAN
        BY DEF SignShape, Owners
      <3> QED
        BY <3>1, <3>2, UserShape DEF Phases
    <2> QED
      BY <2>1, <2>2, <2>3, <2>4
  <1>4. ProjShape' /\ IterShape' /\ NoneAdded
    BY <1>1 DEF ProjShape, IterShape, Rows, NoneAdded
  <1>5. mutex # r
    BY DEF ConsumeLoginToken, OAuthCallback, FindUser, CreateUser, StartSession, RequireUser, MutexHeld
  <1> QED
    BY <1>1, <1>2, <1>3, <1>4, <1>5, Outside

\* A creation: accountMu is taken with the check, and let go of with the insert.
LEMMA CreatePurge ==
  ASSUME None \notin Requests, PurgeInv, NEW r \in Requests, QuotaBlock(r) \/ CreateProject(r)
  PROVE  PurgeInv' /\ \A p \in Projects : p \in Rows => proj'[p] = proj[p]
  <1> USE DEF PurgeInv, Shapes
  <1>1. UNCHANGED <<iter, swept, account, session>>
    BY DEF QuotaBlock, CreateProject, signVars, dataVars
  <1>2. IterShape' /\ SignShape'
    BY <1>1 DEF IterShape, SignShape
  <1>3. CASE QuotaBlock(r)
    <2>1. ReqShape' /\ req'[r].pc \in {"done", "insert"} /\ \A q \in Requests \ {r} : req'[q] = req[q]
      BY <1>3, MoveShape DEF QuotaBlock, Ends, Phases
    <2>2. proj' = proj /\ ProjShape' /\ NoneAdded
      BY <1>1, <1>3 DEF QuotaBlock, ProjShape, Rows, NoneAdded
    <2>3. CASE Lock(r) /\ Move(r, "insert")
      <3>1. mutex = None /\ mutex' = r /\ req'[r].pc = "insert"
        BY <2>3, MoveShape DEF Lock, Uncontended, Phases
      <3>2. MutexHeld' /\ SweptBefore' /\ Listed'
        BY <1>1, <2>1, <3>1 DEF MutexHeld, SweptBefore, Listed
      <3> QED
        BY <1>2, <2>1, <2>2, <3>2
    <2>4. CASE Ends(r) /\ UNCHANGED mutex
      <3>1. mutex # r /\ req'[r].pc = "done"
        BY <1>3, <2>4, MoveShape DEF QuotaBlock, MutexHeld, Ends, Phases
      <3> QED
        BY <1>1, <1>2, <2>1, <2>2, <2>4, <3>1, Outside
    <2> QED
      BY <1>3, <2>3, <2>4 DEF QuotaBlock
  <1>4. CASE CreateProject(r)
    <2>1. ReqShape' /\ req'[r].pc = "done" /\ \A q \in Requests \ {r} : req'[q] = req[q]
      BY <1>4, MoveShape DEF CreateProject, Ends, Phases
    <2>2. mutex = r /\ mutex' = None
      BY <1>4 DEF CreateProject, MutexHeld, Unlock
    <2>3. \/ proj' = proj
          \/ \E p \in Projects, s \in {"created", "pending"} :
               /\ proj[p].status = "absent"
               /\ proj' = [proj EXCEPT ![p] = [status |-> s, owner |-> req[r].user, paid |-> FALSE]]
      BY <1>4 DEF CreateProject
    <2>4. ProjShape' /\ \A p \in Projects : p \in Rows => proj'[p] = proj[p] /\ proj'[p].status # "absent"
      <3>1. req[r].user \in Owners
        BY DEF ReqShape, RequestType
      <3>2. CASE proj' = proj
        BY <3>2 DEF ProjShape, Rows
      <3>3. ASSUME NEW p \in Projects, NEW s \in {"created", "pending"}, proj[p].status = "absent",
                   proj' = [proj EXCEPT ![p] = [status |-> s, owner |-> req[r].user, paid |-> FALSE]]
            PROVE  ProjShape' /\ \A q \in Projects : q \in Rows => proj'[q] = proj[q] /\ proj'[q].status # "absent"
        <4> DEFINE new == [status |-> s, owner |-> req[r].user, paid |-> FALSE]
        <4>1. new \in [status : Statuses, owner : Owners, paid : BOOLEAN]
          BY <3>1 DEF Statuses
        <4>2. proj' = [proj EXCEPT ![p] = new]
          BY <3>3
        <4> HIDE DEF new
        <4>3. ProjShape'
          BY <4>1, <4>2 DEF ProjShape
        <4> QED
          BY <3>3, <4>2, <4>3 DEF ProjShape, Rows
      <3> QED
        BY <2>3, <3>2, <3>3
    <2> QED
      BY <1>1, <1>2, <2>1, <2>2, <2>4, Outside
  <1> QED
    BY <1>3, <1>4 DEF QuotaBlock

\* A deletion until the rows go.
LEMMA DeletionPurge ==
  ASSUME None \notin Requests, PurgeInv, NEW r \in Requests, DeleteProject(r) \/ AdminPurge(r) \/ ListProjects(r)
  PROVE  PurgeInv' /\ proj' = proj /\ OnlyMoves(r)
  <1> USE DEF PurgeInv, Shapes, OnlyMoves
  <1>1. UNCHANGED <<proj, iter, swept, account, session>>
    BY DEF DeleteProject, AdminPurge, ListProjects, signVars, dataVars
  <1>2. ProjShape' /\ IterShape' /\ SignShape' /\ NoneAdded
    BY <1>1 DEF ProjShape, IterShape, SignShape, Rows, NoneAdded
  <1>3. mutex # r
    BY DEF DeleteProject, AdminPurge, ListProjects, MutexHeld
  <1>4. CASE DeleteProject(r) \/ AdminPurge(r)
    <2>1. PICK p \in Rows : \/ req' = [req EXCEPT ![r].pc = "sweep", ![r].on = p]
                            \/ req' = [req EXCEPT ![r].pc = "sweep", ![r].on = p, ![r].user = proj[p].owner]
      BY <1>4 DEF DeleteProject, AdminPurge
    <2>2. p \in Projects /\ proj[p].owner \in Owners
      BY DEF Rows, ProjShape
    <2>4. ReqShape' /\ req'[r].pc = "sweep" /\ \A q \in Requests \ {r} : req'[q] = req[q]
      <3> DEFINE u == proj[p].owner
      <3>1. u \in Owners
        BY <2>2
      <3>2. \/ req' = [req EXCEPT ![r].pc = "sweep", ![r].on = p]
            \/ req' = [req EXCEPT ![r].pc = "sweep", ![r].on = p, ![r].user = u]
        BY <2>1
      <3> HIDE DEF u
      <3> QED
        BY <2>2, <3>1, <3>2, ProjectShape
    <2>3. mutex' = mutex
      BY <1>4 DEF DeleteProject, AdminPurge
    <2> QED
      BY <1>1, <1>2, <1>3, <2>3, <2>4, Outside
  <1>5. CASE ListProjects(r)
    <2>1. CASE Ends(r) /\ UNCHANGED mutex
      <3>1. ReqShape' /\ req'[r].pc = "done" /\ \A q \in Requests \ {r} : req'[q] = req[q]
        BY <2>1, MoveShape DEF Ends, Phases
      <3> QED
        BY <1>1, <1>2, <1>3, <2>1, <3>1, Outside
    <2>2. CASE Lock(r) /\ req' = [req EXCEPT ![r].pc = "logout", ![r].left = Owned(req[r].user)]
      <3>1. Owned(req[r].user) \subseteq Projects
        BY DEF Owned, Rows
      <3>2. /\ ReqShape' /\ req'[r].pc = "logout" /\ \A q \in Requests \ {r} : req'[q] = req[q]
            /\ req'[r].user = req[r].user /\ req'[r].left = Owned(req[r].user)
        BY <2>2, <3>1 DEF ReqShape, RequestType, Phases
      <3>3. mutex = None /\ mutex' = r
        BY <2>2 DEF Lock, Uncontended
      <3>4. \A u \in Owners : Owned(u)' = Owned(u)
        BY <1>1 DEF Owned, Rows
      <3>5. MutexHeld' /\ SweptBefore'
        BY <1>1, <3>2, <3>3 DEF MutexHeld, SweptBefore
      <3>6. Listed'
        BY <3>2, <3>3, <3>4 DEF Listed, ReqShape, RequestType
      <3> QED
        BY <1>1, <1>2, <3>2, <3>5, <3>6
    <2> QED
      BY <1>5, <2>1, <2>2 DEF ListProjects
  <1> QED
    BY <1>4, <1>5

\* The next project of an account, or the end of the deletion.
LEMMA NextPurge ==
  ASSUME None \notin Requests, PurgeInv, NEW r \in Requests, PurgeNext(r)
  PROVE  PurgeInv' /\ proj' = proj /\ OnlyMoves(r)
  <1> USE DEF PurgeInv, Shapes, OnlyMoves
  <1>1. UNCHANGED <<proj, iter, swept, account, session>> /\ mutex = r
    BY DEF PurgeNext, MutexHeld, signVars, dataVars
  <1>2. ProjShape' /\ IterShape' /\ SignShape' /\ NoneAdded
    BY <1>1 DEF ProjShape, IterShape, SignShape, Rows, NoneAdded
  <1>3. CASE Ends(r) /\ Unlock
    <2>1. ReqShape' /\ req'[r].pc = "done" /\ \A q \in Requests \ {r} : req'[q] = req[q]
      BY <1>3, MoveShape DEF Ends, Phases
    <2> QED
      BY <1>1, <1>2, <1>3, <2>1, Outside DEF Unlock
  <1>4. ASSUME NEW p \in req[r].left, mutex' = mutex,
               req' = [req EXCEPT ![r].pc = "sweep", ![r].on = p, ![r].left = @ \ {p}]
        PROVE  PurgeInv' /\ OnlyMoves(r)
    <2> DEFINE to == [[[req[r] EXCEPT !.pc = "sweep"] EXCEPT !.on = p] EXCEPT !.left = req[r].left \ {p}]
    <2>1. req[r] \in RequestType
      BY DEF ReqShape
    <2>2. to \in RequestType /\ to.pc = "sweep" /\ to.on = p /\ to.left = req[r].left \ {p} /\ to.user = req[r].user
      BY <2>1 DEF RequestType, Phases
    <2>3. req' = [req EXCEPT ![r] = to]
      BY <1>4 DEF ReqShape
    <2> HIDE DEF to
    <2>4. ReqShape' /\ req'[r] = to /\ \A q \in Requests \ {r} : req'[q] = req[q]
      BY <2>2, <2>3, SetShape
    <2>5. req'[r].pc = "sweep"
      BY <2>2, <2>4
    <2>6. MutexHeld'
      BY <1>1, <1>4, <2>4, <2>5 DEF MutexHeld
    <2>7. SweptBefore'
      BY <1>1, <2>4, <2>5 DEF SweptBefore
    <2>8. \A u \in Owners : Owned(u)' = Owned(u)
      BY <1>1 DEF Owned, Rows
    <2>9. req[r].pc = "logout" /\ req[r].user \in Owners
      BY <2>1 DEF PurgeNext, RequestType
    <2>10. Listed'
      BY <1>1, <1>4, <2>2, <2>4, <2>8, <2>9 DEF Listed
    <2> QED
      BY <1>2, <2>4, <2>5, <2>6, <2>7, <2>10
  <1> QED
    BY <1>1, <1>3, <1>4 DEF PurgeNext

\* DeletePrefix of the project's objects.
LEMMA SweepPurge ==
  ASSUME None \notin Requests, PurgeInv, NEW r \in Requests, Sweep(r)
  PROVE  PurgeInv' /\ proj' = proj /\ OnlyMoves(r)
  <1> USE DEF PurgeInv, Shapes, OnlyMoves
  <1>1. UNCHANGED <<proj, iter, account, session>> /\ swept \subseteq swept' /\ req[r].pc = "sweep"
    BY DEF Sweep, signVars
  <1>2. ProjShape' /\ IterShape' /\ SignShape' /\ NoneAdded
    BY <1>1 DEF ProjShape, IterShape, SignShape, Rows, NoneAdded
  <1>3. CASE Aborts(r)
    <2>1. ReqShape' /\ req'[r].pc = "done" /\ \A q \in Requests \ {r} : req'[q] = req[q]
      BY <1>3, MoveShape DEF Aborts, Ends, Phases
    <2>2. (mutex = r /\ mutex' = None) \/ (mutex # r /\ mutex' = mutex)
      BY <1>3 DEF Aborts, Unlock
    <2> QED
      BY <1>1, <1>2, <2>1, <2>2, Outside
  <1>4. CASE swept' = swept \cup {req[r].on} /\ Move(r, "remove") /\ UNCHANGED mutex
    <2>1. /\ ReqShape' /\ req'[r].pc = "remove" /\ \A q \in Requests \ {r} : req'[q] = req[q]
          /\ req'[r].user = req[r].user /\ req'[r].on = req[r].on /\ req'[r].left = req[r].left
      BY <1>4, MoveShape DEF Phases
    <2>2. CASE mutex # r
      BY <1>1, <1>2, <1>4, <2>1, <2>2, Outside
    <2>3. CASE mutex = r
      <3>1. MutexHeld' /\ SweptBefore'
        BY <1>1, <1>4, <2>1, <2>3 DEF MutexHeld, SweptBefore
      <3>2. \A u \in Owners : Owned(u)' = Owned(u)
        BY <1>1 DEF Owned, Rows
      <3>3. req[r].user \in Owners
        BY DEF ReqShape, RequestType
      <3>4. Listed'
        BY <1>1, <1>4, <2>1, <2>3, <3>2, <3>3 DEF Listed
      <3> QED
        BY <1>1, <1>2, <2>1, <3>1, <3>4
    <2> QED
      BY <2>2, <2>3
  <1> QED
    BY <1>1, <1>3, <1>4 DEF Sweep

\* The rows that go had their objects deleted.
OnlySwept == \A p \in Projects : p \in Rows /\ proj'[p] = NoRow => p \in swept

LEMMA RemovePurge ==
  ASSUME None \notin Requests, PurgeInv, NEW r \in Requests, RemoveRow(r)
  PROVE  PurgeInv' /\ OnlySwept /\ NoneAdded /\ OnlyMoves(r)
  <1> USE DEF PurgeInv, Shapes, OnlyMoves
  <1>1. UNCHANGED <<swept, account, session>> /\ SignShape' /\ req[r].on \in swept /\ req[r].pc = "remove"
    BY DEF RemoveRow, SweptBefore, SignShape, signVars, dataVars
  <1>2. CASE Aborts(r) /\ UNCHANGED <<proj, iter>>
    <2>1. ReqShape' /\ req'[r].pc = "done" /\ \A q \in Requests \ {r} : req'[q] = req[q]
      BY <1>2, MoveShape DEF Aborts, Ends, Phases
    <2>2. (mutex = r /\ mutex' = None) \/ (mutex # r /\ mutex' = mutex)
      BY <1>2 DEF Aborts, Unlock
    <2>3. ProjShape' /\ IterShape' /\ NoneAdded
      BY <1>2 DEF ProjShape, IterShape, Rows, NoneAdded
    <2>4. OnlySwept
      BY <1>2 DEF OnlySwept, Rows, NoRow
    <2> QED
      BY <1>1, <2>1, <2>2, <2>3, <2>4, Outside
  <1>3. CASE Gone({req[r].on}) /\ UNCHANGED mutex /\ IF mutex = r THEN Move(r, "logout") ELSE Ends(r)
    <2>1. /\ ProjShape' /\ IterShape' /\ NoneAdded
          /\ \A p \in Projects : p \in Rows /\ proj'[p] = NoRow => p = req[r].on \/ proj[p] = NoRow
      BY <1>3, GoneShape
    <2>2. OnlySwept
      BY <1>1, <2>1 DEF OnlySwept, Rows, NoRow
    <2>3. CASE mutex # r
      <3>1. ReqShape' /\ req'[r].pc = "done" /\ \A q \in Requests \ {r} : req'[q] = req[q]
        BY <1>3, <2>3, MoveShape DEF Ends, Phases
      <3> QED
        BY <1>1, <1>3, <2>1, <2>2, <2>3, <3>1, Outside
    <2>4. CASE mutex = r
      <3>1. /\ ReqShape' /\ req'[r].pc = "logout" /\ \A q \in Requests \ {r} : req'[q] = req[q]
            /\ req'[r].user = req[r].user /\ req'[r].left = req[r].left
        BY <1>3, <2>4, MoveShape DEF Phases
      <3>2. MutexHeld' /\ SweptBefore'
        BY <1>1, <1>3, <2>4, <3>1 DEF MutexHeld, SweptBefore
      <3>3. Owned(req[r].user)' \subseteq Owned(req[r].user)
        BY <2>1, <3>1, NoneAddedOwned DEF ReqShape, RequestType
      <3>4. Listed'
        BY <1>1, <1>3, <2>4, <3>1, <3>3 DEF Listed
      <3> QED
        BY <1>1, <2>1, <2>2, <3>1, <3>2, <3>4
    <2> QED
      BY <2>3, <2>4
  <1> QED
    BY <1>2, <1>3 DEF RemoveRow

LEMMA DeleteUserPurge ==
  ASSUME None \notin Requests, PurgeInv, NEW r \in Requests, DeleteUser(r)
  PROVE  PurgeInv' /\ OnlySwept /\ NoneAdded /\ OnlyMoves(r)
  <1> USE DEF PurgeInv, Shapes, OnlyMoves
  <1>1. UNCHANGED swept /\ SignShape' /\ mutex = r /\ mutex' = None
    BY DEF DeleteUser, MutexHeld, SignShape, Owners, Unlock, signVars, dataVars
  <1>2. ReqShape' /\ req'[r].pc = "done" /\ \A q \in Requests \ {r} : req'[q] = req[q]
    BY MoveShape DEF DeleteUser, Ends, Phases
  <1>3. CASE UNCHANGED <<proj, iter>>
    <2>1. ProjShape' /\ IterShape' /\ OnlySwept /\ NoneAdded
      BY <1>3 DEF ProjShape, IterShape, Rows, OnlySwept, NoRow, NoneAdded
    <2> QED
      BY <1>1, <1>2, <2>1, Outside
  <1>4. CASE req[r].user = account /\ Gone(Owned(account))
    <2>1. /\ ProjShape' /\ IterShape' /\ NoneAdded
          /\ \A p \in Projects : p \in Rows /\ proj'[p] = NoRow => p \in Owned(account) \/ proj[p] = NoRow
      BY <1>4, GoneShape
    <2>2. Owned(account) \subseteq swept
      BY <1>1, <1>4 DEF DeleteUser, Listed
    <2>3. OnlySwept
      BY <2>1, <2>2 DEF OnlySwept, Rows, NoRow
    <2> QED
      BY <1>1, <1>2, <2>1, <2>3, Outside
  <1> QED
    BY <1>3, <1>4 DEF DeleteUser

LEMMA PurgeStep ==
  ASSUME None \notin Requests, PurgeInv, [Next]_vars
  PROVE  PurgeInv' /\ [OnlySwept]_vars
  <1>1. CASE UNCHANGED vars
    BY <1>1 DEF vars, PurgeInv, Shapes, ReqShape, ProjShape, IterShape, SignShape, MutexHeld,
       SweptBefore, Listed, Rows, Owned
  <1>2. ASSUME NEW p \in Projects, System(p) PROVE PurgeInv' /\ OnlySwept
    <2>1. \A q \in Projects : q \in Rows => proj'[q].status # "absent"
      BY <1>2, SystemShape DEF PurgeInv
    <2> QED
      BY <1>2, <2>1, PurgeSystem DEF OnlySwept, NoRow
  <1>3. ASSUME NEW r \in Requests, Request(r) PROVE PurgeInv' /\ OnlySwept
    <2>1. CASE PurgeInv' /\ \A p \in Projects : p \in Rows => proj'[p] = proj[p]
      BY <2>1 DEF OnlySwept, Rows, NoRow
    <2> QED
      BY <1>3, <2>1, SignInPurge, CreatePurge, DeletionPurge, NextPurge, SweepPurge, RemovePurge, DeleteUserPurge
      DEF Request
  <1> QED
    BY <1>1, <1>2, <1>3 DEF Next

\* Deleting an account leaves the cascade no row whose objects are still in storage,
\* whatever else creates, fills and purges projects meanwhile (handleDeleteAccount and
\* PurgeProject, "object deletion is mandatory").
THEOREM RowGoesLast == ASSUME None \notin Requests PROVE Spec => PurgedFirst
  <1>1. Init => PurgeInv
    BY PurgeInit
  <1>2. PurgeInv /\ [Next]_vars => PurgeInv' /\ [OnlySwept]_vars
    BY PurgeStep
  <1>3. [][OnlySwept]_vars => PurgedFirst
    BY PTL DEF PurgedFirst, OnlySwept
  <1> QED
    BY <1>1, <1>2, <1>3, PTL DEF Spec

-----------------------------------------------------------------------------
(* CapsKept. *)

CapsAssumption ==
  /\ None \notin Requests \cup Projects /\ IsFiniteSet(Projects) /\ IsFiniteSet(Builds)
  /\ MaxPerDay \in Nat /\ MaxConcurrent \in Nat /\ MaxBuilds \in Nat

\* A creation that passed the check still has room.
DayCap ==
  MaxPerDay > 0 =>
    /\ \A u \in Requests : Cardinality(Owned(u)) <= MaxPerDay
    /\ \A r \in Requests : req[r].pc = "insert" /\ req[r].user \in Requests =>
         Cardinality(Owned(req[r].user)) < MaxPerDay

\* One transaction has the advisory lock, and the room it found is still there: only it
\* could have taken it.
BuildCap ==
  /\ \A b, c \in Counted : b = c
  /\ MaxConcurrent > 0 => /\ Cardinality(Builders) <= MaxConcurrent
                          /\ Counted # {} => Cardinality(Builders) < MaxConcurrent
  /\ MaxBuilds > 0 => /\ Cardinality(Iterations) <= MaxBuilds
                      /\ Counted # {} => Cardinality(Iterations) < MaxBuilds

CapInv == PurgeInv /\ DayCap /\ BuildCap

LEMMA CountingIn ==
  ASSUME NEW X, IsFiniteSet(X)
  PROVE  /\ \A S \in SUBSET X : Cardinality(S) \in Nat
         /\ \A S, T \in SUBSET X : S \subseteq T => Cardinality(S) <= Cardinality(T)
         /\ \A S, T \in SUBSET X : \A p \in X : S \subseteq T \cup {p} => Cardinality(S) <= Cardinality(T) + 1
  <1>1. \A S \in SUBSET X : IsFiniteSet(S) /\ Cardinality(S) \in Nat
    BY FS_Subset, FS_CardinalityType
  <1>2. \A S, T \in SUBSET X : S \subseteq T => Cardinality(S) <= Cardinality(T)
    BY <1>1, FS_Subset
  <1>3. ASSUME NEW S \in SUBSET X, NEW T \in SUBSET X, NEW p \in X, S \subseteq T \cup {p}
        PROVE  Cardinality(S) <= Cardinality(T) + 1
    <2>1. Cardinality(S) <= Cardinality(T \cup {p})
      BY <1>2, <1>3
    <2>2. Cardinality(T \cup {p}) \in {Cardinality(T), Cardinality(T) + 1}
      BY <1>1, FS_AddElement
    <2>3. Cardinality(S) \in Nat /\ Cardinality(T) \in Nat
      BY <1>1
    <2> QED
      BY <2>1, <2>2, <2>3
  <1> QED
    BY <1>1, <1>2, <1>3

LEMMA Counting ==
  ASSUME CapsAssumption
  PROVE  /\ \A S \in SUBSET Projects : Cardinality(S) \in Nat
         /\ \A S, T \in SUBSET Projects : S \subseteq T => Cardinality(S) <= Cardinality(T)
         /\ \A S, T \in SUBSET Projects : \A p \in Projects :
              S \subseteq T \cup {p} => Cardinality(S) <= Cardinality(T) + 1
  BY CountingIn DEF CapsAssumption

LEMMA CountingBuilds ==
  ASSUME CapsAssumption
  PROVE  /\ \A S \in SUBSET Builds : Cardinality(S) \in Nat
         /\ \A S, T \in SUBSET Builds : S \subseteq T => Cardinality(S) <= Cardinality(T)
         /\ \A S, T \in SUBSET Builds : \A b \in Builds :
              S \subseteq T \cup {b} => Cardinality(S) <= Cardinality(T) + 1
  BY CountingIn DEF CapsAssumption

LEMMA Sets ==
  /\ Builders \subseteq Active /\ Active \subseteq Builds /\ Iterations \subseteq Builds
  /\ \A u : Owned(u) \subseteq Projects
  BY DEF Builders, Active, Iterations, Owned, Rows

LEMMA SetsNext ==
  /\ Builders' \subseteq Builds /\ Iterations' \subseteq Builds
  /\ \A u \in Owners : Owned(u)' \subseteq Projects
  BY DEF Builders, Iterations, Owned, Rows

LEMMA CapInit == ASSUME CapsAssumption, Init PROVE CapInv
  <1>1. PurgeInv
    BY PurgeInit DEF CapsAssumption
  <1>2. Builders = {} /\ Iterations = {} /\ Counted = {} /\ \A u \in Requests : Owned(u) = {}
    BY DEF Init, Builders, Iterations, Counted, NoBuild, Owned, Rows, NoRow, CapsAssumption
  <1>3. Cardinality({}) = 0
    BY FS_EmptySet
  <1>4. DayCap
    <2>1. \A r \in Requests : req[r].pc = "idle"
      BY DEF Init, Rest
    <2>2. \A u \in Requests : Cardinality(Owned(u)) = 0
      BY <1>2, <1>3
    <2> QED
      BY <2>1, <2>2 DEF DayCap, CapsAssumption
  <1>5. BuildCap
    BY <1>2, <1>3 DEF BuildCap, CapsAssumption
  <1> QED
    BY <1>1, <1>4, <1>5 DEF CapInv

\* Without a new row or a new insert under way the day's cap is kept.
LEMMA DayKept ==
  ASSUME CapsAssumption, CapInv, NoneAdded,
         \A q \in Requests : req'[q].pc = "insert" => req'[q] = req[q]
  PROVE  DayCap'
  <1>1. \A u \in Owners : Owned(u)' \subseteq Owned(u)
    BY NoneAddedOwned
  <1>2. \A u \in Owners : Cardinality(Owned(u)') <= Cardinality(Owned(u))
    BY <1>1, Counting, Sets, SetsNext
  <1>3. \A u \in Owners : Cardinality(Owned(u)') \in Nat /\ Cardinality(Owned(u)) \in Nat
    BY Counting, Sets, SetsNext
  <1> QED
    BY <1>2, <1>3 DEF CapInv, DayCap, CapsAssumption, Owners

\* Without a new iteration, or a new one that is reserved, the caps on builds are kept.
LEMMA BuildsKept ==
  ASSUME CapsAssumption, CapInv,
         Builders' \subseteq Builders, Iterations' \subseteq Iterations, Counted' \subseteq Counted
  PROVE  BuildCap'
  <1>1. Builders \subseteq Builds /\ Builders' \subseteq Builds /\ Iterations \subseteq Builds /\ Iterations' \subseteq Builds
    BY Sets, SetsNext
  <1>2. Cardinality(Builders') <= Cardinality(Builders) /\ Cardinality(Iterations') <= Cardinality(Iterations)
    BY <1>1, CountingBuilds
  <1>3. /\ Cardinality(Builders) \in Nat /\ Cardinality(Builders') \in Nat
        /\ Cardinality(Iterations) \in Nat /\ Cardinality(Iterations') \in Nat
    BY <1>1, CountingBuilds
  <1>4. \A b, c \in Counted' : b = c
    BY DEF CapInv, BuildCap
  <1>5. Counted' # {} => Counted # {}
    OBVIOUS
  <1> QED
    BY <1>2, <1>3, <1>4, <1>5 DEF CapInv, BuildCap, CapsAssumption

\* The build that is inserted under the lock was counted for.
LEMMA BuildKeepsCaps ==
  ASSUME CapsAssumption, CapInv, NEW b \in Builds, NEW p \in Projects, BuildStep(b, p)
  PROVE  BuildCap'
  <1> USE DEF CapInv, CapsAssumption
  <1>0. IterShape /\ IterShape' /\ \A c \in Builds \ {b} : iter'[c] = iter[c]
    BY BuildShape DEF PurgeInv, Shapes
  <1>1. CASE Counted = {} /\ ~Full /\ iter[b].status = "none" /\ iter'[b].status = "counted"
    <2>1. Builders' = Builders /\ Iterations' = Iterations /\ Counted' = {b}
      BY <1>0, <1>1 DEF Builders, Iterations, Counted
    <2>2. Cardinality(Builders) <= Cardinality(Active) /\ Cardinality(Builders) \in Nat
          /\ Cardinality(Active) \in Nat /\ Cardinality(Iterations) \in Nat
      BY Sets, CountingBuilds
    <2>3. /\ MaxConcurrent > 0 => Cardinality(Builders) < MaxConcurrent
          /\ MaxBuilds > 0 => Cardinality(Iterations) < MaxBuilds
      BY <1>1, <2>2 DEF Full
    <2> QED
      BY <2>1, <2>2, <2>3 DEF BuildCap
  <1>2. CASE iter[b].status = "counted" /\ iter'[b].status \in {"building", "none"}
    <2>1. Builders' \subseteq Builders \cup {b} /\ Iterations' \subseteq Iterations \cup {b}
      BY <1>0, <1>2 DEF Builders, Iterations
    <2>2. b \in Counted /\ Counted' = {}
      BY <1>0, <1>2 DEF BuildCap, Counted
    <2>3. Cardinality(Builders') <= Cardinality(Builders) + 1 /\ Cardinality(Iterations') <= Cardinality(Iterations) + 1
      BY <2>1, CountingBuilds, Sets, SetsNext
    <2>4. /\ Cardinality(Builders) \in Nat /\ Cardinality(Builders') \in Nat
          /\ Cardinality(Iterations) \in Nat /\ Cardinality(Iterations') \in Nat
      BY CountingBuilds, Sets, SetsNext
    <2> QED
      BY <2>2, <2>3, <2>4 DEF BuildCap
  <1>3. CASE /\ iter[b].status \in {"building", "swept", "revived"}
             /\ iter'[b].status \in {"swept", "revived", "over"}
    <2>1. Builders' \subseteq Builders /\ Iterations' \subseteq Iterations /\ Counted' \subseteq Counted
      BY <1>0, <1>3 DEF Builders, Iterations, Counted
    <2> QED
      BY <2>1, BuildsKept
  <1> QED
    BY <1>0, <1>1, <1>2, <1>3, BuildShape

LEMMA SystemKeepsCaps ==
  ASSUME CapsAssumption, CapInv, NEW p \in Projects, System(p)
  PROVE  CapInv'
  <1> USE DEF CapInv
  <1>1. PurgeInv'
    BY PurgeSystem
  <1>2. DayCap'
    BY SystemShape, DayKept DEF PurgeInv
  <1>3. CASE \E b \in Builds : BuildStep(b, p)
    BY <1>1, <1>2, <1>3, BuildKeepsCaps
  <1>4. CASE iter' = iter
    <2>1. Builders' = Builders /\ Iterations' = Iterations /\ Counted' = Counted
      BY <1>4 DEF Builders, Iterations, Counted
    <2> QED
      BY <1>1, <1>2, <2>1, BuildsKept
  <1> QED
    BY <1>3, <1>4 DEF System, ApproveAccess, Proceed, Pay, StartJob, StoreObject

\* A creation adds one project to an account that has room, under accountMu.
LEMMA CreateKeepsDay ==
  ASSUME CapsAssumption, CapInv, NEW r \in Requests, QuotaBlock(r) \/ CreateProject(r)
  PROVE  DayCap'
  <1> USE DEF CapInv, CapsAssumption, PurgeInv, Shapes
  <1>1. CASE QuotaBlock(r)
    <2>1. proj' = proj /\ \A u \in Owners : Owned(u)' = Owned(u)
      BY <1>1 DEF QuotaBlock, Owned, Rows
    <2>2. CASE Ends(r)
      <3>1. req'[r].pc = "done" /\ \A q \in Requests \ {r} : req'[q] = req[q]
        BY <2>2, MoveShape DEF Ends, Phases
      <3>2. NoneAdded
        BY <2>1 DEF NoneAdded
      <3>3. \A q \in Requests : req'[q].pc = "insert" => req'[q] = req[q]
        BY <3>1
      <3> QED
        BY <3>2, <3>3, DayKept DEF CapInv
    <2>3. CASE ~QuotaBlocks(req[r].user) /\ Move(r, "insert")
      <3>1. /\ req'[r].user = req[r].user /\ \A q \in Requests \ {r} : req'[q] = req[q]
        BY <2>3, MoveShape DEF Phases
      <3>2. MaxPerDay > 0 => Cardinality(Owned(req[r].user)) < MaxPerDay
        <4>1. Cardinality(Owned(req[r].user)) \in Nat
          BY Counting, Sets
        <4> QED
          BY <2>3, <4>1 DEF QuotaBlocks
      <3> QED
        BY <2>1, <3>1, <3>2 DEF DayCap, Owners
    <2> QED
      BY <1>1, <2>2, <2>3 DEF QuotaBlock
  <1>2. CASE CreateProject(r)
    <2>1. req[r].pc = "insert" /\ req'[r].pc = "done" /\ \A q \in Requests \ {r} : req'[q] = req[q]
      BY <1>2, MoveShape DEF CreateProject, Ends, Phases
    <2>2. \A q \in Requests : req'[q].pc # "insert"
      BY <2>1 DEF MutexHeld
    <2>3. \/ proj' = proj
          \/ \E p \in Projects, s \in {"created", "pending"} :
               proj' = [proj EXCEPT ![p] = [status |-> s, owner |-> req[r].user, paid |-> FALSE]]
      BY <1>2 DEF CreateProject
    <2>4. ASSUME NEW u \in Requests, MaxPerDay > 0
          PROVE  Cardinality(Owned(u)') <= MaxPerDay
      <3>1. Cardinality(Owned(u)) \in Nat /\ Cardinality(Owned(u)') \in Nat /\ u \in Owners
        BY Counting, Sets, SetsNext DEF Owners
      <3>2. CASE proj' = proj
        <4>1. Owned(u)' = Owned(u)
          BY <3>2 DEF Owned, Rows
        <4> QED
          BY <2>4, <4>1 DEF DayCap
      <3>3. ASSUME NEW n \in Projects, NEW s \in {"created", "pending"},
                   proj' = [proj EXCEPT ![n] = [status |-> s, owner |-> req[r].user, paid |-> FALSE]]
            PROVE  Cardinality(Owned(u)') <= MaxPerDay
        <4>1. proj'[n].owner = req[r].user /\ \A q \in Projects \ {n} : proj'[q] = proj[q]
          BY <3>3 DEF ProjShape
        <4>2. CASE u = req[r].user
          <5>1. Owned(u)' \subseteq Owned(u) \cup {n}
            BY <4>1 DEF Owned, Rows
          <5>2. Cardinality(Owned(u)') <= Cardinality(Owned(u)) + 1
            BY <3>1, <5>1, Counting, Sets, SetsNext
          <5>3. Cardinality(Owned(u)) < MaxPerDay
            BY <2>1, <2>4, <4>2 DEF DayCap
          <5> QED
            BY <3>1, <5>2, <5>3
        <4>3. CASE u # req[r].user
          <5>1. Owned(u)' \subseteq Owned(u)
            BY <4>1, <4>3 DEF Owned, Rows
          <5>2. Cardinality(Owned(u)') <= Cardinality(Owned(u))
            BY <3>1, <5>1, Counting, Sets, SetsNext
          <5>3. Cardinality(Owned(u)) <= MaxPerDay
            BY <2>4 DEF DayCap
          <5> QED
            BY <3>1, <5>2, <5>3
        <4> QED
          BY <4>2, <4>3
      <3> QED
        BY <2>3, <3>2, <3>3
    <2> QED
      BY <2>2, <2>4 DEF DayCap
  <1> QED
    BY <1>1, <1>2

LEMMA RequestKeepsCaps ==
  ASSUME CapsAssumption, CapInv, NEW r \in Requests, Request(r)
  PROVE  CapInv'
  <1> USE DEF CapInv
  <1>1. PurgeInv'
    BY PurgeStep DEF Next, CapsAssumption
  <1>2. iter' = iter \/ \E ps : Gone(ps)
    <2>1. CASE RemoveRow(r)
      BY <2>1 DEF RemoveRow
    <2>2. CASE DeleteUser(r)
      BY <2>2 DEF DeleteUser
    <2>3. CASE ~RemoveRow(r) /\ ~DeleteUser(r)
      BY <2>3 DEF Request, ConsumeLoginToken, OAuthCallback, FindUser, CreateUser, StartSession, RequireUser,
         QuotaBlock, CreateProject, ListProjects, PurgeNext, Sweep, DeleteProject, AdminPurge
    <2> QED
      BY <2>1, <2>2, <2>3
  <1>3. Builders' \subseteq Builders /\ Iterations' \subseteq Iterations /\ Counted' \subseteq Counted
    BY <1>2 DEF Gone, Builders, Iterations, Counted, NoBuild
  <1>4. BuildCap'
    BY <1>3, BuildsKept
  <1>5. DayCap'
    <2>1. CASE QuotaBlock(r) \/ CreateProject(r)
      BY <2>1, CreateKeepsDay
    <2>2. CASE NoneAdded /\ OnlyMoves(r)
      BY <2>2, DayKept DEF OnlyMoves
    <2>3. CASE proj' = proj /\ OnlyMoves(r)
      BY <2>2, <2>3 DEF NoneAdded
    <2> QED
      BY <2>1, <2>2, <2>3, SignInPurge, DeletionPurge, NextPurge, SweepPurge, RemovePurge, DeleteUserPurge
      DEF Request, CapsAssumption
  <1> QED
    BY <1>1, <1>4, <1>5

\* The quota and the two build caps hold for every number of requests and projects, however
\* double submits, builds and deletions interleave (quotaBlock, ReserveIteration).
THEOREM CapsHold == ASSUME CapsAssumption PROVE Spec => []CapsKept
  <1>1. Init => CapInv
    BY CapInit
  <1>2. CapInv /\ [Next]_vars => CapInv'
    <2> SUFFICES ASSUME CapInv, [Next]_vars PROVE CapInv'
      OBVIOUS
    <2>1. CASE UNCHANGED vars
      <3>1. PurgeInv'
        BY <2>1, PurgeStep DEF CapInv, CapsAssumption
      <3>2. DayCap' /\ BuildCap'
        BY <2>1 DEF vars, CapInv, DayCap, BuildCap, Owned, Rows, Builders, Iterations, Counted
      <3> QED
        BY <3>1, <3>2 DEF CapInv
    <2> QED
      BY <2>1, SystemKeepsCaps, RequestKeepsCaps DEF Next
  <1>3. CapInv => CapsKept
    BY DEF CapInv, DayCap, BuildCap, CapsKept
  <1> QED
    BY <1>1, <1>2, <1>3, PTL DEF Spec

-----------------------------------------------------------------------------
(* TypeOK. *)

SignTyped ==
  link \in [Links -> {"mailed", "spent"}] /\ session \subseteq Requests /\ approved \subseteq Requests

StoredTyped ==
  /\ mutex \in Owners /\ objects \subseteq Projects /\ swept \subseteq Projects /\ jobs \subseteq Projects

\* Who is signed in has an account, and what is purged is a project.
Named ==
  \A r \in Requests :
    /\ req[r].pc \in {"session", "quota", "insert"} => req[r].user \in Requests
    /\ req[r].pc \in {"sweep", "remove"} => req[r].on \in Projects

\* What waits for the operator is a customer's.
Waiting == \A p \in Projects : proj[p].status = "pending" => proj[p].owner \in Requests

AccountInv == PurgeInv /\ SignTyped /\ StoredTyped /\ Named /\ Waiting

LEMMA AccountStart == ASSUME CapsAssumption, Others \subseteq Projects, Init PROVE AccountInv
  <1>1. PurgeInv
    BY PurgeInit DEF CapsAssumption
  <1>2. SignTyped
    BY DEF Init, SignTyped
  <1>3. StoredTyped
    BY DEF Init, StoredTyped, Owners
  <1>4. Named
    BY DEF Init, Named, Rest
  <1>5. Waiting
    BY DEF Init, Waiting, NoRow
  <1> QED
    BY <1>1, <1>2, <1>3, <1>4, <1>5 DEF AccountInv

\* What a request moves to it has the name for.
LEMMA NamedKept ==
  ASSUME Named, NEW r \in Requests, \A q \in Requests \ {r} : req'[q] = req[q],
         req'[r].pc \in {"session", "quota", "insert"} => req'[r].user \in Requests,
         req'[r].pc \in {"sweep", "remove"} => req'[r].on \in Projects
  PROVE  Named'
  BY DEF Named

LEMMA RequestNames ==
  ASSUME None \notin Requests, AccountInv, NEW r \in Requests, Request(r)
  PROVE  Named'
  <1> USE DEF AccountInv, PurgeInv, Shapes
  <1>1. CASE \E pc \in {"find", "done", "logout"} : Move(r, pc)
    <2>1. PICK pc \in {"find", "done", "logout"} : Move(r, pc)
      BY <1>1
    <2>2. req'[r].pc = pc /\ \A q \in Requests \ {r} : req'[q] = req[q]
      BY <2>1, MoveShape DEF Phases
    <2> QED
      BY <2>2, NamedKept
  <1>2. CASE FindUser(r)
    <2>1. PICK pc \in {"create", "session"} :
            req' = [req EXCEPT ![r].pc = pc, ![r].user = account] /\ (pc = "session" => account # None)
      BY <1>2 DEF FindUser
    <2>2. req'[r].pc = pc /\ req'[r].user = account /\ \A q \in Requests \ {r} : req'[q] = req[q]
      BY <2>1, UserShape DEF SignShape, Phases
    <2> QED
      BY <2>1, <2>2, NamedKept DEF SignShape, Owners
  <1>3. CASE req' = [req EXCEPT ![r].pc = "session", ![r].user = r]
    <2>1. req'[r].pc = "session" /\ req'[r].user = r /\ \A q \in Requests \ {r} : req'[q] = req[q]
      BY <1>3, UserShape DEF Phases, Owners
    <2> QED
      BY <2>1, NamedKept
  <1>4. CASE RequireUser(r, "quota") \/ RequireUser(r, "list")
    <2>1. PICK pc \in {"quota", "list"}, u \in session :
            req' = [req EXCEPT ![r].pc = pc, ![r].user = u, ![r].known = u \in approved]
      BY <1>4 DEF RequireUser
    <2>2. u \in Owners /\ (u \in approved) \in BOOLEAN /\ u \in Requests
      BY DEF SignTyped, Owners
    <2>3. req'[r].user = u /\ req'[r].pc = pc /\ \A q \in Requests \ {r} : req'[q] = req[q]
      BY <2>1, <2>2, UserShape DEF Phases
    <2> QED
      BY <2>2, <2>3, NamedKept
  <1>5. CASE (req[r].pc = "quota" /\ Move(r, "insert")) \/ (req[r].pc = "sweep" /\ Move(r, "remove"))
    <2>1. PICK pc \in {"insert", "remove"} : Move(r, pc) /\ req[r].pc = (IF pc = "insert" THEN "quota" ELSE "sweep")
      BY <1>5
    <2>2. /\ req'[r].pc = pc /\ req'[r].user = req[r].user /\ req'[r].on = req[r].on
          /\ \A q \in Requests \ {r} : req'[q] = req[q]
      BY <2>1, MoveShape DEF Phases
    <2> QED
      BY <2>1, <2>2, NamedKept DEF Named
  <1>6. CASE DeleteProject(r) \/ AdminPurge(r)
    <2>1. PICK p \in Rows : \/ req' = [req EXCEPT ![r].pc = "sweep", ![r].on = p]
                            \/ req' = [req EXCEPT ![r].pc = "sweep", ![r].on = p, ![r].user = proj[p].owner]
      BY <1>6 DEF DeleteProject, AdminPurge
    <2>2. p \in Projects /\ proj[p].owner \in Owners
      BY DEF Rows, ProjShape
    <2>3. req'[r].pc = "sweep" /\ req'[r].on = p /\ \A q \in Requests \ {r} : req'[q] = req[q]
      <3> DEFINE u == proj[p].owner
      <3>1. u \in Owners
        BY <2>2
      <3>2. \/ req' = [req EXCEPT ![r].pc = "sweep", ![r].on = p]
            \/ req' = [req EXCEPT ![r].pc = "sweep", ![r].on = p, ![r].user = u]
        BY <2>1
      <3> HIDE DEF u
      <3> QED
        BY <2>2, <3>1, <3>2, ProjectShape
    <2> QED
      BY <2>2, <2>3, NamedKept
  <1>7. CASE req' = [req EXCEPT ![r].pc = "logout", ![r].left = Owned(req[r].user)]
    <2>1. req'[r].pc = "logout" /\ \A q \in Requests \ {r} : req'[q] = req[q]
      BY <1>7 DEF ReqShape, RequestType
    <2> QED
      BY <2>1, NamedKept
  <1>8. ASSUME NEW p \in req[r].left, req' = [req EXCEPT ![r].pc = "sweep", ![r].on = p, ![r].left = @ \ {p}]
        PROVE  Named'
    <2> DEFINE to == [[[req[r] EXCEPT !.pc = "sweep"] EXCEPT !.on = p] EXCEPT !.left = req[r].left \ {p}]
    <2>1. req[r] \in RequestType
      BY DEF ReqShape
    <2>2. to \in RequestType /\ to.pc = "sweep" /\ to.on = p /\ p \in Projects
      BY <2>1 DEF RequestType, Phases
    <2>3. req' = [req EXCEPT ![r] = to]
      BY <1>8 DEF ReqShape
    <2> HIDE DEF to
    <2>4. req'[r] = to /\ \A q \in Requests \ {r} : req'[q] = req[q]
      BY <2>2, <2>3, SetShape
    <2> QED
      BY <2>2, <2>4, NamedKept
  <1>9. CASE ConsumeLoginToken(r) \/ OAuthCallback(r) \/ StartSession(r) \/ CreateProject(r) \/ DeleteUser(r)
    BY <1>1, <1>9 DEF ConsumeLoginToken, OAuthCallback, StartSession, CreateProject, DeleteUser, Ends
  <1>10. CASE CreateUser(r)
    BY <1>1, <1>3, <1>10 DEF CreateUser, Ends
  <1>11. CASE QuotaBlock(r)
    BY <1>1, <1>5, <1>11 DEF QuotaBlock, Ends
  <1>12. CASE ListProjects(r)
    BY <1>1, <1>7, <1>12 DEF ListProjects, Ends
  <1>13. CASE PurgeNext(r)
    BY <1>1, <1>8, <1>13 DEF PurgeNext, Ends
  <1>14. CASE Sweep(r)
    BY <1>1, <1>5, <1>14 DEF Sweep, Aborts, Ends
  <1>15. CASE RemoveRow(r)
    BY <1>1, <1>15 DEF RemoveRow, Aborts, Ends
  <1> QED
    BY <1>2, <1>4, <1>6, <1>9, <1>10, <1>11, <1>12, <1>13, <1>14, <1>15 DEF Request

\* The accounts, links and sessions of a request's step, and what it locks and deletes.
LEMMA RequestTypes ==
  ASSUME CapsAssumption, AccountInv, NEW r \in Requests, Request(r)
  PROVE  SignTyped' /\ StoredTyped'
  <1> USE DEF AccountInv, PurgeInv, Shapes
  <1>1. SignTyped'
    <2>1. CASE ConsumeLoginToken(r)
      BY <2>1 DEF ConsumeLoginToken, SignTyped
    <2>2. CASE StartSession(r)
      BY <2>2 DEF StartSession, SignTyped, Named
    <2>3. CASE DeleteUser(r)
      BY <2>3 DEF DeleteUser, SignTyped, signVars
    <2>4. CASE UNCHANGED <<link, session, approved>>
      BY <2>4 DEF SignTyped
    <2> QED
      BY <2>1, <2>2, <2>3, <2>4 DEF Request, OAuthCallback, FindUser, CreateUser, RequireUser, QuotaBlock,
         CreateProject, ListProjects, PurgeNext, Sweep, RemoveRow, DeleteProject, AdminPurge, signVars
  <1>2. mutex' \in {mutex, r, None}
    BY DEF Request, ConsumeLoginToken, OAuthCallback, FindUser, CreateUser, StartSession, RequireUser, QuotaBlock,
       CreateProject, ListProjects, PurgeNext, Sweep, RemoveRow, DeleteUser, DeleteProject, AdminPurge, Lock,
       Unlock, Aborts
  <1>3. jobs' = jobs
    BY DEF Request, ConsumeLoginToken, OAuthCallback, FindUser, CreateUser, StartSession, RequireUser, QuotaBlock,
       CreateProject, ListProjects, PurgeNext, Sweep, RemoveRow, DeleteUser, DeleteProject, AdminPurge,
       dataVars
  <1>4. objects' \subseteq Projects /\ swept' \subseteq Projects
    <2>1. CASE Sweep(r)
      BY <2>1 DEF Sweep, StoredTyped, Named
    <2>2. CASE UNCHANGED <<objects, swept>>
      BY <2>2 DEF StoredTyped
    <2> QED
      BY <2>1, <2>2 DEF Request, ConsumeLoginToken, OAuthCallback, FindUser, CreateUser, StartSession,
         RequireUser, QuotaBlock, CreateProject, ListProjects, PurgeNext, RemoveRow, DeleteUser, DeleteProject,
         AdminPurge, dataVars
  <1> QED
    BY <1>1, <1>2, <1>3, <1>4 DEF StoredTyped, Owners

\* A new row that waits is of an account; the other steps add none.
LEMMA RequestWaits ==
  ASSUME CapsAssumption, AccountInv, NEW r \in Requests, Request(r)
  PROVE  Waiting'
  <1> USE DEF AccountInv, PurgeInv, Shapes
  <1>1. CASE CreateProject(r)
    <2>1. \/ proj' = proj
          \/ \E p \in Projects, s \in {"created", "pending"} :
               proj' = [proj EXCEPT ![p] = [status |-> s, owner |-> req[r].user, paid |-> FALSE]]
      BY <1>1 DEF CreateProject
    <2>2. req[r].user \in Requests
      BY <1>1 DEF CreateProject, Named
    <2> QED
      BY <2>1, <2>2 DEF Waiting, ProjShape
  <1>2. CASE \E ps : Gone(ps)
    BY <1>2 DEF Gone, Waiting, NoRow
  <1>3. CASE proj' = proj
    BY <1>3 DEF Waiting
  <1> QED
    BY <1>1, <1>2, <1>3 DEF Request, ConsumeLoginToken, OAuthCallback, FindUser, CreateUser, StartSession,
       RequireUser, QuotaBlock, ListProjects, PurgeNext, Sweep, RemoveRow, DeleteUser, DeleteProject, AdminPurge

\* The operator's approval, the pipeline, the webhook, picture jobs and builds.
LEMMA SystemTypes ==
  ASSUME CapsAssumption, AccountInv, NEW p \in Projects, System(p)
  PROVE  SignTyped' /\ StoredTyped' /\ Named' /\ Waiting'
  <1> USE DEF AccountInv, PurgeInv, Shapes
  <1>2. Named'
    BY SystemShape DEF Named
  <1>3. CASE \E b \in Builds : BuildStep(b, p)
    <2>1. /\ UNCHANGED <<mutex, approved, link, session, objects, swept, jobs>>
          /\ proj' = proj \/ proj' = [proj EXCEPT ![p].status = "resting"]
      BY <1>3, BuildShape
    <2>2. Waiting'
      BY <2>1 DEF Waiting, ProjShape
    <2> QED
      BY <1>2, <2>1, <2>2 DEF SignTyped, StoredTyped
  <1>4. CASE ApproveAccess(p) \/ Proceed(p) \/ Pay(p) \/ StartJob(p) \/ StoreObject(p)
    <2>1. SignTyped'
      <3>1. CASE ApproveAccess(p)
        BY <3>1 DEF ApproveAccess, SignTyped, Waiting
      <3>2. CASE UNCHANGED <<link, session, approved>>
        BY <3>2 DEF SignTyped
      <3> QED
        BY <1>4, <3>1, <3>2 DEF Proceed, Pay, StartJob, StoreObject, signVars
    <2>2. StoredTyped'
      BY <1>4 DEF ApproveAccess, Proceed, Pay, StartJob, StoreObject, StoredTyped, dataVars
    <2>3. Waiting'
      <3>0. \A m \in Moves : m[2] # "pending"
        BY DEF Moves
      <3>1. \/ proj' = proj
            \/ \E s : s # "pending" /\ proj' = [proj EXCEPT ![p].status = s]
            \/ proj' = [proj EXCEPT ![p].paid = TRUE]
        BY <1>4, <3>0 DEF ApproveAccess, Proceed, Pay, StartJob, StoreObject
      <3> QED
        BY <3>1 DEF Waiting, ProjShape
    <2> QED
      BY <1>2, <2>1, <2>2, <2>3
  <1> QED
    BY <1>3, <1>4 DEF System

\* Accounts, links, requests, rows, objects and iterations keep their types, for every number of
\* requests and projects: no project waits for approval without an account, and no purge
\* runs without a project (requireUser, handleDeleteProject, ApproveAccess).
THEOREM TypeCorrect == ASSUME CapsAssumption, Others \subseteq Projects PROVE Spec => []TypeOK
  <1>1. Init => AccountInv
    BY AccountStart
  <1>2. AccountInv /\ [Next]_vars => AccountInv'
    <2> SUFFICES ASSUME AccountInv, [Next]_vars PROVE AccountInv'
      OBVIOUS
    <2>1. PurgeInv'
      BY PurgeStep DEF AccountInv, CapsAssumption
    <2>2. CASE UNCHANGED vars
      BY <2>1, <2>2 DEF vars, AccountInv, SignTyped, StoredTyped, Named, Waiting
    <2>3. ASSUME NEW p \in Projects, System(p) PROVE AccountInv'
      BY <2>1, <2>3, SystemTypes DEF AccountInv
    <2>4. ASSUME NEW r \in Requests, Request(r) PROVE AccountInv'
      BY <2>1, <2>4, RequestNames, RequestTypes, RequestWaits DEF AccountInv, CapsAssumption
    <2> QED
      BY <2>2, <2>3, <2>4 DEF Next
  <1>3. AccountInv => TypeOK
    <2> SUFFICES ASSUME AccountInv PROVE TypeOK
      OBVIOUS
    <2> USE DEF AccountInv, PurgeInv, Shapes
    <2>1. ASSUME NEW r \in Requests
          PROVE  /\ req[r].pc \in Phases /\ req[r].known \in BOOLEAN /\ req[r].user \in Owners
                 /\ req[r].on \in Projects \cup {None} /\ req[r].left \subseteq Projects
      BY DEF ReqShape, RequestType
    <2>2. account \in Owners /\ ProjShape /\ IterShape
      BY DEF SignShape
    <2> QED
      BY <2>1, <2>2 DEF TypeOK, SignTyped, StoredTyped, ProjShape, IterShape, Phases, Owners
  <1> QED
    BY <1>1, <1>2, <1>3, PTL DEF Spec
=============================================================================
