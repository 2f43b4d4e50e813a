------------------------------ MODULE Content ------------------------------
(***************************************************************************)
(* The material a customer gives a site: uploads and typed answers, and     *)
(* pictures made by paid background jobs, from the request to the build     *)
(* that folds them in (product/internal/web/handlers_imagegen.go, the       *)
(* content handlers of handlers_projects.go, the start of runBuild).        *)
(*                                                                          *)
(* One project row with optimistic versions.  A mutateProject loop is one   *)
(* step where its closure can be repeated without a trace; the reservation  *)
(* of a picture job keeps variables of its own across the attempts, so its  *)
(* attempts are steps.  Object keys are the request that drew the picture.  *)
(***************************************************************************)
EXTENDS Naturals, FiniteSets

CONSTANTS Requests,   \* generate / improve requests, each with its goroutine
          Slots,      \* image slots of the plan
          Uploads,    \* files and answers the customer may give; none is a request
          MaxImages,  \* ImageGenMaxPerProject (0: no limit)
          MaxBuilds,  \* bound: builds that run
          MaxFaults   \* bound: lost acknowledgements, saves given up, crashes

VARIABLES
  sets,     \* PendingImages: slot -> candidate set
  count,    \* ImageGenCount
  flag,     \* ContentPending
  used,     \* IterationsUsed
  assets,   \* content on file: uploads, answers and picked pictures
  req,      \* the requests and their goroutines
  fresh,    \* reservations whose loaded copy is still the row
  picking,  \* <<slot, key>> chosen, asset row written, project not yet saved
  marking,  \* content stored whose handler has not yet flagged it
  build,    \* the build under way
  applied,  \* content the site on show was built from
  lost,     \* history: content whose offer was lost, by a save given up, a crash, a failed build,
            \* or before the first build has ended
  faults

vars == <<sets, count, flag, used, assets, req, fresh, picking, marking, build, applied, lost, faults>>
rowVars == <<sets, count, flag, used>>
buildVars == <<build, applied, lost>>

NoSet == [status |-> "none"]
NoJob == CHOOSE j : j \notin Requests
CandidateSet == [status : {"running", "ready", "failed"}, job : Requests, by : Requests, keys : SUBSET Requests]
Phases == {"idle", "reserving", "saving", "drawing", "failing", "done"}
Items == Uploads \cup Requests
Idle == [on |-> FALSE, listed |-> FALSE, read |-> {}]

TypeOK ==
  /\ sets \in [Slots -> CandidateSet \cup {NoSet}]
  /\ count \in Nat /\ flag \in BOOLEAN /\ used \in 0..MaxBuilds
  /\ assets \subseteq Items /\ applied \subseteq assets
  /\ req \in [Requests -> [pc : Phases, slot : Slots, job : Requests,
                           outcome : {"", "running", "limit", "started"}]]
  /\ fresh \subseteq Requests
  /\ picking \subseteq Slots \X Requests /\ marking \subseteq Items
  /\ build.on \in BOOLEAN /\ build.listed \in BOOLEAN /\ build.read \subseteq assets
  /\ lost \subseteq assets
  /\ faults \in 0..MaxFaults

Init ==
  /\ sets = [s \in Slots |-> NoSet] /\ count = 0 /\ flag = FALSE /\ used = 0
  /\ assets = {} /\ fresh = {} /\ picking = {} /\ marking = {} /\ applied = {} /\ lost = {} /\ faults = 0
  /\ req = [r \in Requests |-> [pc |-> "idle", slot |-> CHOOSE s \in Slots : TRUE, job |-> r, outcome |-> ""]]
  /\ build = Idle

Move(r, pc) == req' = [req EXCEPT ![r].pc = pc]
\* Weakened: the save does not compare versions.
CommittedBlind == UNCHANGED fresh

\* A committed save of the row: every copy loaded before it is stale.
Committed == fresh' = {}
Fault == faults < MaxFaults /\ faults' = faults + 1
NoFault == UNCHANGED faults

----------------------------------------------------------------------------
(* A request for pictures (handleGenerateImage, handleImproveImage).       *)

\* The handler takes a new job id; an improvement needs a picture in the slot.
Generate(r) ==
  /\ req[r].pc = "idle"
  /\ \E s \in Slots : req' = [req EXCEPT ![r].pc = "reserving", ![r].slot = s]
  /\ UNCHANGED <<rowVars, buildVars, assets, fresh, picking, marking, faults>>

Improve(r) ==
  /\ req[r].pc = "idle"
  /\ \E q \in Requests \cap assets : req' = [req EXCEPT ![r].pc = "reserving", ![r].slot = req[q].slot]
  /\ UNCHANGED <<rowVars, buildVars, assets, fresh, picking, marking, faults>>

Exhausted == MaxImages > 0 /\ count >= MaxImages

\* One attempt of reserveImageJob: load the row and run the closure on it.  The
\* closure puts the id of a running job in the variable that held the new id.
Attempt(r) ==
  LET set == sets[req[r].slot] IN
  /\ req[r].pc = "reserving"
  /\ req' = [req EXCEPT
       ![r].pc = "saving",
       ![r].job = IF set.status = "running" THEN set.job ELSE @,
       ![r].outcome = IF set.status = "running" THEN "running"
                      ELSE IF Exhausted THEN "limit" ELSE "started"]
  /\ fresh' = fresh \cup {r}
  /\ UNCHANGED <<rowVars, buildVars, assets, picking, marking, faults>>

\* What the saved copy makes of the row.
Reserved(r) ==
  IF req[r].outcome = "started"
  THEN /\ sets' = [sets EXCEPT ![req[r].slot] =
                     [status |-> "running", job |-> req[r].job, by |-> r, keys |-> {}]]
       /\ count' = count + 1
       /\ UNCHANGED <<flag, used>>
  ELSE UNCHANGED rowVars

\* The save is accepted; a started job gets its goroutine.
SaveReservation(r) ==
  /\ req[r].pc = "saving" /\ r \in fresh
  /\ Reserved(r) /\ Committed
  /\ Move(r, IF req[r].outcome = "started" THEN "drawing" ELSE "done")
  /\ UNCHANGED <<buildVars, assets, picking, marking, faults>>

\* Committed, but the answer is lost: the request ends in an error, no goroutine.
SaveReservationUnseen(r) ==
  /\ req[r].pc = "saving" /\ r \in fresh
  /\ Fault /\ Reserved(r) /\ Committed /\ Move(r, "done")
  /\ UNCHANGED <<buildVars, assets, picking, marking>>

\* ErrConflict: the next attempt, with the closure's variables as they are.
RetryReservation(r) ==
  /\ req[r].pc = "saving" /\ r \notin fresh
  /\ Move(r, "reserving")
  /\ UNCHANGED <<rowVars, buildVars, assets, fresh, picking, marking, faults>>

----------------------------------------------------------------------------
(* The job's goroutine (runImageJob).                                      *)

\* The slot still holds the job the goroutine was given.
Mine(r) == sets[req[r].slot].status # "none" /\ sets[req[r].slot].job = req[r].job

\* genCandidates: the pictures are stored, then offered if the slot is still this job's.
Completed(r) ==
  /\ sets' = IF Mine(r) THEN [sets EXCEPT ![req[r].slot] = [@ EXCEPT !.status = "ready", !.keys = {r}]]
             ELSE sets
  /\ Committed /\ UNCHANGED <<count, flag, used>>

Complete(r) ==
  /\ req[r].pc = "drawing"
  /\ Completed(r) /\ Move(r, "done")
  /\ UNCHANGED <<buildVars, assets, picking, marking, faults>>

\* The save commits as the job's deadline passes: the goroutine sees an error.
CompleteUnseen(r) ==
  /\ req[r].pc = "drawing"
  /\ Fault /\ Completed(r) /\ Move(r, "failing")
  /\ UNCHANGED <<buildVars, assets, picking, marking>>

\* The API, the storage or the save fails, or four minutes pass.
JobFails(r) ==
  /\ req[r].pc = "drawing" /\ Move(r, "failing")
  /\ UNCHANGED <<rowVars, buildVars, assets, fresh, picking, marking, faults>>

\* Weakened: whatever job the slot holds.
FailedAny(s, j) ==
  /\ sets' = IF sets[s].status # "none" THEN [sets EXCEPT ![s].status = "failed"] ELSE sets
  /\ Committed /\ UNCHANGED <<count, flag, used>>

\* failImageJob; the candidates an earlier save stored stay in the set.
Failed(s, j) ==
  /\ sets' = IF sets[s].status # "none" /\ sets[s].job = j
             THEN [sets EXCEPT ![s].status = "failed"] ELSE sets
  /\ Committed /\ UNCHANGED <<count, flag, used>>

FailImageJob(r) ==
  /\ req[r].pc = "failing"
  /\ Failed(req[r].slot, req[r].job) /\ Move(r, "done")
  /\ UNCHANGED <<buildVars, assets, picking, marking, faults>>

FailImageJobLost(r) ==
  /\ req[r].pc = "failing" /\ Fault /\ Move(r, "done")
  /\ UNCHANGED <<rowVars, buildVars, assets, fresh, picking, marking>>

\* The status poll declares a job dead a minute after its deadline; by then the
\* deadline has ended its goroutine.
PollDeclaresDead(s) ==
  /\ sets[s].status = "running"
  /\ \A r \in Requests : req[r].pc \in {"drawing", "failing"} => req[r].slot # s
  /\ Failed(s, sets[s].job)
  /\ UNCHANGED <<buildVars, assets, req, picking, marking, faults>>

----------------------------------------------------------------------------
(* Choosing a picture and giving other content.                            *)

\* markContentPending: before the first build has ended there is nothing to offer.
Marked(i) ==
  /\ flag' = (flag \/ used > 0)
  /\ lost' = IF used = 0 /\ build.listed /\ i \notin build.read THEN lost \cup {i} ELSE lost

\* Content given anew is not yet in the site.
New(i) ==
  /\ assets' = assets \cup {i} /\ applied' = applied \ {i}
  /\ build' = [build EXCEPT !.read = @ \ {i}]

\* handlePickImage writes the asset row first ...
PickImage(s) ==
  /\ sets[s].status # "none"
  /\ \E k \in sets[s].keys :
       /\ assets' = assets \cup {k}
       /\ picking' = picking \cup {<<s, k>>}
  /\ UNCHANGED <<rowVars, buildVars, req, fresh, marking, faults>>

\* ... then consumes the set that holds the key, and flags the content.
PickSave(s, k) ==
  /\ <<s, k>> \in picking /\ picking' = picking \ {<<s, k>>}
  /\ sets' = IF sets[s].status # "none" /\ k \in sets[s].keys THEN [sets EXCEPT ![s] = NoSet] ELSE sets
  /\ Marked(k) /\ Committed
  /\ UNCHANGED <<count, used, build, applied, assets, req, marking, faults>>

\* handleUploadAsset, handleCaptionAsset: the asset row (or its new label), then the
\* flag.  A new label makes an item new again.
Give(i) ==
  /\ i \notin marking
  /\ New(i) /\ marking' = marking \cup {i} /\ lost' = lost \ {i}
  /\ UNCHANGED <<rowVars, req, fresh, picking, faults>>

MarkLost(i) ==
  /\ i \in marking /\ marking' = marking \ {i}
  /\ Fault /\ lost' = lost \cup {i}
  /\ UNCHANGED <<rowVars, build, applied, assets, req, fresh, picking>>

MarkContentPending(i) ==
  /\ i \in marking /\ marking' = marking \ {i}
  /\ Marked(i) /\ Committed
  /\ UNCHANGED <<sets, count, used, build, applied, assets, req, picking, faults>>

\* handleContentAnswer and handleRoster store and flag in the one save.
Answer(i) ==
  /\ i \notin marking
  /\ New(i) /\ Committed
  /\ flag' = (flag \/ used > 0)
  /\ lost' = IF used = 0 /\ build.listed THEN lost \cup {i} ELSE lost \ {i}
  /\ UNCHANGED <<sets, count, used, req, picking, marking, faults>>

----------------------------------------------------------------------------
(* The build.                                                              *)

\* The first build, a change, or handleApplyContent: runBuild clears the flag ...
StartBuild ==
  /\ ~build.on /\ used < MaxBuilds
  /\ build' = [Idle EXCEPT !.on = TRUE]
  /\ flag' = FALSE /\ Committed
  /\ UNCHANGED <<sets, count, used, assets, req, picking, marking, applied, lost, faults>>

\* ... and then lists the assets, answers and rosters for the agent.
ReadContent ==
  /\ build.on /\ ~build.listed
  /\ build' = [on |-> TRUE, listed |-> TRUE, read |-> assets]
  /\ UNCHANGED <<rowVars, assets, req, fresh, picking, marking, applied, lost, faults>>

\* Weakened: the flag is cleared when the build has succeeded.
FinishBuildClears ==
  /\ build.listed
  /\ build' = Idle /\ applied' = build.read
  /\ used' = used + 1 /\ flag' = FALSE /\ Committed
  /\ UNCHANGED <<sets, count, assets, req, picking, marking, lost, faults>>

FinishBuild ==
  /\ build.listed
  /\ build' = Idle /\ applied' = build.read
  /\ used' = used + 1 /\ Committed
  /\ UNCHANGED <<sets, count, flag, assets, req, picking, marking, lost, faults>>

\* markFailed: the site on show stays; the flag is not set again.
BuildFails ==
  /\ build.on
  /\ build' = Idle /\ Committed
  /\ lost' = IF used = 0 THEN lost ELSE lost \cup ((IF build.listed THEN build.read ELSE assets) \ applied)
  /\ UNCHANGED <<rowVars, assets, req, picking, marking, applied, faults>>

----------------------------------------------------------------------------
\* The process stops: requests and goroutines are gone, the build is re-attached.
Crash ==
  /\ Fault
  /\ req' = [r \in Requests |-> IF req[r].pc = "idle" THEN req[r] ELSE [req[r] EXCEPT !.pc = "done"]]
  /\ fresh' = {} /\ picking' = {} /\ marking' = {}
  /\ lost' = lost \cup marking \cup {p[2] : p \in picking}
  /\ UNCHANGED <<rowVars, build, applied, assets>>

JobStep(r) ==
  \/ Generate(r) \/ Improve(r) \/ Attempt(r)
  \/ SaveReservation(r) \/ SaveReservationUnseen(r) \/ RetryReservation(r)
  \/ Complete(r) \/ CompleteUnseen(r) \/ JobFails(r) \/ FailImageJob(r) \/ FailImageJobLost(r)

Next ==
  \/ \E r \in Requests : JobStep(r)
  \/ \E s \in Slots : PollDeclaresDead(s) \/ PickImage(s) \/ \E k \in Requests : PickSave(s, k)
  \/ \E i \in Uploads : Give(i) \/ MarkContentPending(i) \/ MarkLost(i) \/ Answer(i)
  \/ StartBuild \/ ReadContent \/ FinishBuild \/ BuildFails
  \/ Crash

Spec == Init /\ [][Next]_vars

----------------------------------------------------------------------------
(* Properties.                                                             *)

Drawing == {r \in Requests : req[r].pc \in {"drawing", "failing"}}

OwnId(r) == req[r].job = r
Rivals(q, r) == q # r /\ req[q].pc = "drawing" /\ req[r].pc = "drawing" /\ req[q].slot = req[r].slot

\* Requests whose pictures were or are being paid for.
Paid == Drawing \cup (assets \cap Requests)
        \cup {r \in Requests : \E s \in Slots : sets[s].status # "none" /\ r \in sets[s].keys}

\* Every call of the paid API was charged to the project's allowance, the allowance is
\* not exceeded, and a slot never pays for two jobs at a time that were started under
\* ids of their own, whatever double clicks, second tabs and conflicting saves do
\* (reserveImageJob).
AllowanceKept ==
  /\ MaxImages > 0 => count <= MaxImages
  /\ Cardinality(Paid) <= count
  /\ \A q, r \in Requests : OwnId(q) /\ OwnId(r) => ~Rivals(q, r)

\* The same of any two jobs: "a double-click for the same slot remains a no-op"
\* (handlers_imagegen.go:55).  A repeated reservation may run under the id of a job
\* that still fails, whose failure then frees the slot for a third.
OneJobPerSlot == \A q, r \in Requests : ~Rivals(q, r)

Owned(s) ==
  \/ req'[sets[s].by] # req[sets[s].by]
  \/ sets'[s].status = "none" /\ \E k \in sets[s].keys : <<s, k>> \in picking
  \/ sets'[s].status = "running" /\ sets[s].status # "running" /\ sets'[s].by # sets[s].by
  \/ sets[s].status = "running" /\ sets'[s].status = "failed" /\ sets[s].by \notin Drawing

\* The candidates of a job leave their slot only by that job's own goroutine, by a pick
\* of one of their own pictures, or for a new job once they no longer run; the poll
\* touches a job that nobody works on ("JobID keeps a late completion from replacing a
\* newer request", handlers_imagegen.go:33).
LateKeepsNewer ==
  [][\A s \in Slots : sets[s].status # "none" /\ sets'[s] # sets[s] => Owned(s)]_vars

\* The same of every job that was started under an id of its own.
SetsStayTheirOwners ==
  [][\A s \in Slots : sets[s].status # "none" /\ sets'[s] # sets[s] =>
       Owned(s) \/ sets[s].job # sets[s].by]_vars

\* Content that the site on show lacks is offered to the customer for a rebuild, unless
\* a build is about to read it, its handler is still to flag it, or its offer was lost in
\* one of the ways `lost' names: no order of uploads, labels, picks, answers and builds
\* leaves it behind (markContentPending, and runBuild, which clears the flag first).
UnappliedIsOffered ==
  used > 0 /\ (build.on => build.listed) /\ ~flag =>
    assets \subseteq (IF build.on THEN build.read ELSE applied)
                    \cup marking \cup {p[2] : p \in picking} \cup lost

\* "anything added after this point sets it again and re-offers a rebuild"
\* (orchestrator.go:1106), as long as no save is lost and no process stops.
AddedIsOffered ==
  faults = 0 /\ used > 0 /\ ~build.on /\ ~flag =>
    assets \subseteq applied \cup marking \cup {p[2] : p \in picking}
=============================================================================
