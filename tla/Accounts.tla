------------------------------ MODULE Accounts ------------------------------
(***************************************************************************)
(* Customers' accounts and what they own (product): sign-in by e-mailed     *)
(* link or social login, the quota on new projects, the caps on builds, and *)
(* the deletion of projects and accounts (internal/web/handlers_oauth.go,    *)
(* handlers_projects.go, internal/auth/auth.go, PurgeProject of              *)
(* orchestrator/reaper.go and both stores of internal/store).                *)
(*                                                                           *)
(* Requests interleave between store calls, except where accountMu or the    *)
(* database's advisory lock holds them.  All that happens is within one day. *)
(* Whether a project has more than one build at a time is Pipeline's         *)
(* question; here it may.                                                    *)
(***************************************************************************)
EXTENDS Naturals, FiniteSets

CONSTANTS Requests,       \* HTTP requests; an account's id is the sign-in that created it
          Projects,       \* ids of projects
          Others,         \* those that belong to other customers, at rest at the start
          Links,          \* sign-in links mailed, all to the one address
          Builds,         \* ids of iterations
          MaxPerDay,      \* MaxProjectsPerDay
          MaxConcurrent,  \* MaxConcurrentBuilds
          MaxBuilds       \* MaxBuildsPerDay

VARIABLES
  account,   \* the address's account, or none
  approved,  \* accounts the operator has approved
  link,      \* links: mailed or spent
  session,   \* accounts with a live session
  req,       \* requests: [pc, user, known: approved when loaded, on, left: to purge]
  mutex,     \* accountMu
  proj,      \* rows: [status, owner, paid]
  objects,   \* projects with objects in storage
  swept,     \* projects whose objects a purge has deleted
  jobs,      \* projects with a picture job in flight
  iter       \* iterations: [status, of: the project]

vars == <<account, approved, link, session, req, mutex, proj, objects, swept, jobs, iter>>
signVars == <<account, approved, link, session>>
dataVars == <<objects, swept, jobs>>

None == "none"
Rest == [pc |-> "idle", user |-> None, known |-> FALSE, on |-> None, left |-> {}]
NoRow == [status |-> "absent", owner |-> None, paid |-> FALSE]
Statuses == {"absent", "pending", "created", "running", "resting", "building"}
InFlight == {"pending", "running", "building"}   \* the statuses quotaBlock refuses on
Rows == {p \in Projects : proj[p].status # "absent"}
Owned(u) == {p \in Rows : proj[p].owner = u}
NoBuild == [status |-> "none", of |-> None]
\* counted: its transaction has the advisory lock and found room; swept: failed by a
\* retry while its goroutine may go on; revived: that goroutine wrote it back.
BuildStatuses == {"none", "counted", "building", "swept", "revived", "over"}
Builders == {b \in Builds : iter[b].status = "building"}
Active == {b \in Builds : iter[b].status \in {"building", "revived"}}   \* status = 'building'
Iterations == {b \in Builds : iter[b].status \notin {"none", "counted"}}

TypeOK ==
  /\ account \in Requests \cup {None} /\ approved \subseteq Requests
  /\ link \in [Links -> {"mailed", "spent"}] /\ session \subseteq Requests
  /\ \A r \in Requests :
       /\ req[r].pc \in {"idle", "find", "create", "session", "quota", "insert", "list",
                         "sweep", "remove", "logout", "delete", "done"}
       /\ req[r].known \in BOOLEAN
       /\ req[r].user \in Requests \cup {None} /\ req[r].on \in Projects \cup {None}
       /\ req[r].left \subseteq Projects
  /\ mutex \in Requests \cup {None}
  /\ proj \in [Projects -> [status : Statuses, owner : Requests \cup {None}, paid : BOOLEAN]]
  /\ objects \cup swept \cup jobs \subseteq Projects
  /\ iter \in [Builds -> [status : BuildStatuses, of : Projects \cup {None}]]

Init ==
  /\ account = None /\ approved = {} /\ link = [l \in Links |-> "mailed"] /\ session = {}
  /\ req = [r \in Requests |-> Rest] /\ mutex = None
  /\ proj = [p \in Projects |-> IF p \in Others THEN [NoRow EXCEPT !.status = "resting"] ELSE NoRow]
  /\ objects = Others /\ swept = {} /\ jobs = {}
  /\ iter = [b \in Builds |-> NoBuild]

Move(r, pc) == req' = [req EXCEPT ![r].pc = pc]
Ends(r) == Move(r, "done")

----------------------------------------------------------------------------
(* Signing in.                                                             *)

\* handleMagicConsume: one DELETE .. RETURNING spends the link, in date or not.
ConsumeLoginToken(r) ==
  /\ req[r].pc = "idle"
  /\ \E l \in Links : link[l] = "mailed" /\ link' = [link EXCEPT ![l] = "spent"]
  /\ Move(r, "find") \/ Ends(r)
  /\ UNCHANGED <<account, approved, session, mutex, proj, dataVars, iter>>

\* handleOAuthCallback: the provider vouches for the address.
OAuthCallback(r) ==
  /\ req[r].pc = "idle" /\ Move(r, "find")
  /\ UNCHANGED <<signVars, mutex, proj, dataVars, iter>>

\* findOrCreateUser: look the address up ...
FindUser(r) ==
  /\ req[r].pc = "find"
  /\ req' = [req EXCEPT ![r].pc = IF account = None THEN "create" ELSE "session", ![r].user = account]
  /\ UNCHANGED <<signVars, mutex, proj, dataVars, iter>>

\* ... or create the account; a second one for the address is refused.
CreateUser(r) ==
  /\ req[r].pc = "create"
  /\ IF account # None THEN Ends(r) /\ UNCHANGED account
     ELSE account' = r /\ req' = [req EXCEPT ![r].pc = "session", ![r].user = r]
  /\ UNCHANGED <<approved, link, session, mutex, proj, dataVars, iter>>

\* startSession; the session of an account deleted meanwhile is refused.
StartSession(r) ==
  /\ req[r].pc = "session" /\ Ends(r)
  /\ session' = IF req[r].user = account THEN session \cup {account} ELSE session
  /\ UNCHANGED <<account, approved, link, mutex, proj, dataVars, iter>>

----------------------------------------------------------------------------
(* New projects (handleCreateProject).                                     *)

\* requireUser loads the account, its approval included, before accountMu is taken.
RequireUser(r, pc) ==
  /\ req[r].pc = "idle" /\ session # {}
  /\ \E u \in session : req' = [req EXCEPT ![r].pc = pc, ![r].user = u, ![r].known = u \in approved]
  /\ UNCHANGED <<signVars, mutex, proj, dataVars, iter>>

\* Weakened: accountMu is not waited for.
Ignored == TRUE

Uncontended == mutex = None
Lock(r) == Uncontended /\ mutex' = r
Unlock == mutex' = None

Full ==
  \/ MaxConcurrent > 0 /\ Cardinality(Active) >= MaxConcurrent
  \/ MaxBuilds > 0 /\ Cardinality(Iterations) >= MaxBuilds

QuotaBlocks(u) ==
  \/ \E p \in Owned(u) : proj[p].status \in InFlight
  \/ MaxPerDay > 0 /\ Cardinality(Owned(u)) >= MaxPerDay
  \/ Full

QuotaBlock(r) ==
  /\ req[r].pc = "quota"
  /\ IF QuotaBlocks(req[r].user) THEN Uncontended /\ Ends(r) /\ UNCHANGED mutex
     ELSE Lock(r) /\ Move(r, "insert")
  /\ UNCHANGED <<signVars, proj, dataVars, iter>>

\* A project of an account not yet approved waits for the operator; the row of an
\* account deleted meanwhile, or a second one that waits, is refused.
CreateProject(r) ==
  /\ req[r].pc = "insert" /\ Unlock /\ Ends(r)
  /\ LET u == req[r].user
         status == IF req[r].known THEN "created" ELSE "pending" IN
       IF u # account \/ (status = "pending" /\ \E p \in Owned(u) : proj[p].status = "pending")
       THEN UNCHANGED proj
       ELSE \E p \in Projects :
              /\ proj[p].status = "absent" /\ p \notin swept /\ \A b \in Builds : iter[b].of # p
              /\ proj' = [proj EXCEPT ![p] = [status |-> status, owner |-> u, paid |-> FALSE]]
  /\ UNCHANGED <<signVars, dataVars, iter>>

----------------------------------------------------------------------------
(* Deletion: a project by its owner or the operator, an account with all.   *)

\* handleDeleteProject checks the copy it loaded; the operator's purge checks nothing.
Deletable(p) == proj[p].status \in {"pending", "resting"} /\ ~proj[p].paid

DeleteProject(r) ==
  /\ req[r].pc = "idle"
  /\ \E p \in Rows :
       /\ proj[p].owner \in session /\ Deletable(p)
       /\ req' = [req EXCEPT ![r].pc = "sweep", ![r].on = p, ![r].user = proj[p].owner]
  /\ UNCHANGED <<signVars, mutex, proj, dataVars, iter>>

AdminPurge(r) ==
  /\ req[r].pc = "idle"
  /\ \E p \in Rows : req' = [req EXCEPT ![r].pc = "sweep", ![r].on = p]
  /\ UNCHANGED <<signVars, mutex, proj, dataVars, iter>>

\* handleDeleteAccount: under accountMu, list and check the projects.
ListProjects(r) ==
  /\ req[r].pc = "list" /\ Uncontended
  /\ IF \A p \in Owned(req[r].user) : Deletable(p)
     THEN Lock(r) /\ req' = [req EXCEPT ![r].pc = "logout", ![r].left = Owned(req[r].user)]
     ELSE Ends(r) /\ UNCHANGED mutex
  /\ UNCHANGED <<signVars, proj, dataVars, iter>>

\* PurgeProject of the next listed project; it ends the request when the row is gone.
PurgeNext(r) ==
  /\ req[r].pc = "logout" /\ req[r].left # {}
  /\ \E p \in req[r].left :
       IF p \in Rows
       THEN /\ req' = [req EXCEPT ![r].pc = "sweep", ![r].on = p, ![r].left = @ \ {p}]
            /\ UNCHANGED mutex
       ELSE Ends(r) /\ Unlock
  /\ UNCHANGED <<signVars, proj, dataVars, iter>>

Aborts(r) == Ends(r) /\ (IF mutex = r THEN Unlock ELSE UNCHANGED mutex)

\* Weakened: a failed deletion of the objects is logged, the row removed all the same.
SweepBestEffort(r) ==
  /\ req[r].pc = "sweep"
  /\ \/ objects' = objects \ {req[r].on} /\ swept' = swept \cup {req[r].on}
     \/ UNCHANGED <<objects, swept>>
  /\ Move(r, "remove")
  /\ UNCHANGED <<signVars, mutex, proj, jobs, iter>>

\* DeletePrefix; a failure ends the purge and keeps the row.
Sweep(r) ==
  /\ req[r].pc = "sweep"
  /\ \/ /\ objects' = objects \ {req[r].on} /\ swept' = swept \cup {req[r].on}
        /\ Move(r, "remove") /\ UNCHANGED mutex
     \/ Aborts(r) /\ UNCHANGED <<objects, swept>>
  /\ UNCHANGED <<signVars, proj, jobs, iter>>

\* DeleteProject of the store: assets, iterations and row in one transaction.
Gone(ps) ==
  /\ proj' = [p \in Projects |-> IF p \in ps THEN NoRow ELSE proj[p]]
  /\ iter' = [b \in Builds |-> IF iter[b].of \in ps /\ iter[b].status # "counted" THEN NoBuild ELSE iter[b]]

RemoveRow(r) ==
  /\ req[r].pc = "remove"
  /\ IF req[r].on \in Rows
     THEN /\ Gone({req[r].on})
          /\ IF mutex = r THEN Move(r, "logout") ELSE Ends(r)
          /\ UNCHANGED mutex
     ELSE Aborts(r) /\ UNCHANGED <<proj, iter>>
  /\ UNCHANGED <<signVars, dataVars>>

\* The cookie's session ends, then the account goes in one transaction: its sessions,
\* its links and, by cascade, every project row it still owns.
DeleteUser(r) ==
  /\ req[r].pc = "logout" /\ req[r].left = {} /\ Ends(r) /\ Unlock
  /\ IF req[r].user # account THEN UNCHANGED <<signVars, proj, iter>>
     ELSE /\ account' = None /\ session' = session \ {account}
          /\ link' = [l \in Links |-> "spent"]
          /\ Gone(Owned(account)) /\ UNCHANGED approved
  /\ UNCHANGED dataVars

----------------------------------------------------------------------------
(* The rest of the system, as far as it moves what is above.                *)

\* ApproveAccess: the account first, then the project.
ApproveAccess(p) ==
  /\ proj[p].status = "pending"
  /\ approved' = approved \cup {proj[p].owner}
  /\ proj' = [proj EXCEPT ![p].status = "created"]
  /\ UNCHANGED <<account, link, session, req, mutex, dataVars, iter>>

\* The pipeline: intake starts in a goroutine of its own; the project runs and rests, is
\* flipped to building (RetryBuild, a change), and may fail while a build of it goes on.
Moves == {<<"created", "running">>, <<"running", "resting">>, <<"resting", "building">>, <<"building", "resting">>}

Proceed(p) ==
  /\ \E m \in Moves : proj[p].status = m[1] /\ proj' = [proj EXCEPT ![p].status = m[2]]
  /\ UNCHANGED <<signVars, req, mutex, dataVars, iter>>

\* The webhook records a subscription.
Pay(p) ==
  /\ proj[p].status = "resting" /\ ~proj[p].paid
  /\ proj' = [proj EXCEPT ![p].paid = TRUE]
  /\ UNCHANGED <<signVars, req, mutex, dataVars, iter>>

\* An upload, or a picture job, of a project at rest; the job outlives its request.
StartJob(p) ==
  /\ proj[p].status = "resting" /\ p \notin jobs
  /\ jobs' = jobs \cup {p}
  /\ UNCHANGED <<signVars, req, mutex, proj, objects, swept, iter>>

StoreObject(p) ==
  /\ p \in jobs /\ jobs' = jobs \ {p} /\ objects' = objects \cup {p}
  /\ UNCHANGED <<signVars, req, mutex, proj, swept, iter>>

\* Weakened: the caps are counted without the lock.
LockIgnored == TRUE

LockFree == \A b \in Builds : iter[b].status # "counted"

NewId == CHOOSE b \in Builds : iter[b].status = "none"

\* ReserveIteration: the transaction takes the advisory lock, and goes on if it counts
\* room in the rows on record, so that deleted ones have made some ...
Reserve(b, p) ==
  /\ proj[p].status = "building" /\ LockFree /\ ~Full
  /\ b = NewId /\ iter[b].status = "none"
  /\ iter' = [iter EXCEPT ![b] = [status |-> "counted", of |-> p]]
  /\ UNCHANGED <<signVars, req, mutex, proj, dataVars>>

\* ... to insert and commit; the iteration of a project deleted meanwhile is refused.
InsertIteration(b, p) ==
  /\ iter[b] = [status |-> "counted", of |-> p]
  /\ iter' = [iter EXCEPT ![b] = IF p \in Rows THEN [@ EXCEPT !.status = "building"] ELSE NoBuild]
  /\ UNCHANGED <<signVars, req, mutex, proj, dataVars>>

\* A retry finds the row building and fails it, whoever still builds it ...
SweepLeftover(b, p) ==
  /\ iter[b] = [status |-> "building", of |-> p] /\ proj[p].status = "building"
  /\ iter' = [iter EXCEPT ![b].status = "swept"]
  /\ UNCHANGED <<signVars, req, mutex, proj, dataVars>>

\* ... and a goroutine that does writes its own copy, status and all, with its log:
\* UpdateIteration is not versioned.
Persist(b, p) ==
  /\ iter[b] = [status |-> "swept", of |-> p]
  /\ iter' = [iter EXCEPT ![b].status = "revived"]
  /\ UNCHANGED <<signVars, req, mutex, proj, dataVars>>

\* finishBuild, or reapInterrupted: the iteration is closed, the project rests.
BuildEnds(b, p) ==
  /\ b \in Active /\ iter[b].of = p
  /\ iter' = [iter EXCEPT ![b].status = "over"]
  /\ IF proj[p].status = "building" THEN proj' = [proj EXCEPT ![p].status = "resting"] ELSE UNCHANGED proj
  /\ UNCHANGED <<signVars, req, mutex, dataVars>>

----------------------------------------------------------------------------
Request(r) ==
  \/ ConsumeLoginToken(r) \/ OAuthCallback(r) \/ FindUser(r) \/ CreateUser(r) \/ StartSession(r)
  \/ RequireUser(r, "quota") \/ QuotaBlock(r) \/ CreateProject(r)
  \/ RequireUser(r, "list") \/ ListProjects(r) \/ PurgeNext(r) \/ Sweep(r) \/ RemoveRow(r)
  \/ DeleteUser(r) \/ DeleteProject(r) \/ AdminPurge(r)

BuildStep(b, p) ==
  \/ Reserve(b, p) \/ InsertIteration(b, p) \/ SweepLeftover(b, p) \/ Persist(b, p) \/ BuildEnds(b, p)

System(p) ==
  \/ ApproveAccess(p) \/ Proceed(p) \/ Pay(p) \/ StartJob(p) \/ StoreObject(p)
  \/ \E b \in Builds : BuildStep(b, p)

Next == (\E r \in Requests : Request(r)) \/ (\E p \in Projects : System(p))

Spec == Init /\ [][Next]_vars

----------------------------------------------------------------------------
(* Properties.                                                             *)

\* The caps hold over all interleavings of double submits, builds, retries and deletions:
\* no account has more projects of the day on record than allowed, and the two global
\* caps bound the iterations on record, those building and those of the day ("the
\* wallet's seatbelt", quotaBlock and ReserveIteration).  Rows that were deleted no
\* longer count, and one that a swept build wrote back is over the first of the two.
CapsKept ==
  /\ MaxPerDay > 0 => \A u \in Requests : Cardinality(Owned(u)) <= MaxPerDay
  /\ MaxConcurrent > 0 => Cardinality(Builders) <= MaxConcurrent
  /\ MaxBuilds > 0 => Cardinality(Iterations) <= MaxBuilds

\* A project's row disappears only after its objects in storage were deleted: deleting an
\* account leaves the cascade nothing, although projects are created and purged by other
\* requests meanwhile ("object deletion is mandatory", PurgeProject).
PurgedFirst == [][\A p \in Projects : p \in Rows /\ proj'[p] = NoRow => p \in swept]_vars

\* "an apparently deleted project never leaves customer data behind" (reaper.go:157).
PurgedLeavesNothing == \A p \in swept : p \notin Rows => p \notin objects

\* A paid project "cannot be erased with a blind button press" (handlers_projects.go:48):
\* the owner's own deletions never remove a project that is paid for.
PaidIsNotErased ==
  [][\A p \in Projects : p \in Rows /\ proj'[p] = NoRow /\ proj[p].paid =>
       \E r \in Requests : req[r].on = p /\ req[r].pc = "remove" /\ req[r].user = None]_vars

\* "one in-flight pipeline per user" (handlers_projects.go:314): no project is created
\* while another of its owner waits for or runs its pipeline.
OneInFlight ==
  [][\A p, q \in Projects :
       p \notin Rows /\ proj'[p] # NoRow /\ q \in Owned(proj'[p].owner)
         => proj[q].status \notin InFlight \cup {"created"}]_vars
=============================================================================
