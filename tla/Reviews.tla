------------------------------- MODULE Reviews -------------------------------
(***************************************************************************)
(* The code review of a paid project (product/internal/orchestrator/         *)
(* review.go): a background run that the payment starts, that a finished     *)
(* build offers again when the payment came before anything was built, and   *)
(* that the operator can ask for.                                           *)
(*                                                                          *)
(* Each build uploads its snapshot to the one key the row may name.  Of a    *)
(* snapshot, sourceBundle sees the sizes of the source files, in order.      *)
(***************************************************************************)
EXTENDS Naturals, Sequences

CONSTANTS Runs,        \* background review runs
          Trees,       \* sequences of file sizes a snapshot may hold
          MaxFile,     \* maxReviewFileBytes
          MaxTotal,    \* maxReviewTotalBytes
          MaxBuilds,   \* bound: builds
          MaxCrashes   \* bound: process crashes or deploys

VARIABLES
  row,      \* the projects row: paid, snapshot key set, a review stored
  fresh,    \* who holds a current copy of the row
  pay,      \* the payment's handler
  build,    \* the build goroutine: [pc, saved, offer]
  run,      \* the runs: [pc, force]
  kept,     \* a build has succeeded and its source is on record
  lost,     \* an automatic review failed, lost its save or died
  builds, crashes

vars == <<row, fresh, pay, build, run, kept, lost, builds, crashes>>

Idle == [pc |-> "idle", force |-> FALSE]
NoBuild == [pc |-> "idle", saved |-> FALSE, offer |-> FALSE]

TypeOK ==
  /\ row \in [paid : BOOLEAN, key : BOOLEAN, review : BOOLEAN]
  /\ fresh \subseteq Runs \cup {"pay"}
  /\ pay \in {"idle", "save", "start"}
  /\ build \in [pc : {"idle", "upload", "succeed", "fail", "offer"}, saved : BOOLEAN, offer : BOOLEAN]
  /\ run \in [Runs -> [pc : {"idle", "load", "fetch", "model", "save"}, force : BOOLEAN]]
  /\ kept \in BOOLEAN /\ lost \in BOOLEAN

Init ==
  /\ row = [paid |-> FALSE, key |-> FALSE, review |-> FALSE]
  /\ fresh = {} /\ pay = "idle" /\ build = NoBuild /\ run = [r \in Runs |-> Idle]
  /\ kept = FALSE /\ lost = FALSE /\ builds = 0 /\ crashes = 0

Write(new) == row' = new /\ fresh' = {}
Due == row.paid /\ ~row.review
counters == <<builds, crashes>>

\* Runs are interchangeable: a new one is any that is free.
Free == {r \in Runs : run[r].pc = "idle"}
StartCodeReview(force) ==
  Free # {} /\ run' = [run EXCEPT ![CHOOSE r \in Free : TRUE] = [pc |-> "load", force |-> force]]

\* The automatic reviews under way, and those already promised.
Automatic == {r \in Runs : run[r].pc # "idle" /\ ~run[r].force}
Promised == pay = "start" \/ (build.pc = "offer" /\ build.offer)

----------------------------------------------------------------------------
(* The triggers.                                                            *)

\* MarkPaid loads and leaves a paid project alone ...
MarkPaid ==
  /\ pay = "idle" /\ ~row.paid
  /\ pay' = "save" /\ fresh' = fresh \cup {"pay"}
  /\ UNCHANGED <<row, build, run, kept, lost, counters>>

\* ... saves, unless another writer came between ...
SavePaid ==
  /\ pay = "save"
  /\ IF "pay" \in fresh THEN Write([row EXCEPT !.paid = TRUE]) /\ pay' = "start"
     ELSE UNCHANGED <<row, fresh>> /\ pay' = "idle"
  /\ UNCHANGED <<build, run, kept, lost, counters>>

\* ... and starts the one-shot review.
ReviewPaid ==
  /\ pay = "start" /\ pay' = "idle" /\ StartCodeReview(FALSE)
  /\ UNCHANGED <<row, fresh, build, kept, lost, counters>>

MarkUnpaid ==
  /\ row.paid /\ pay = "idle" /\ Write([row EXCEPT !.paid = FALSE])
  /\ UNCHANGED <<pay, build, run, kept, lost, counters>>

\* handleAdminRunReview.
RunReview ==
  /\ StartCodeReview(TRUE)
  /\ UNCHANGED <<row, fresh, pay, build, kept, lost, counters>>

StartBuild ==
  /\ build.pc = "idle" /\ builds < MaxBuilds
  /\ builds' = builds + 1
  /\ build' = [NoBuild EXCEPT !.pc = "upload"]
  /\ UNCHANGED <<row, fresh, pay, run, kept, lost, crashes>>

\* The sandbox uploads its workspace, or fails to; then the build succeeds or fails.
Upload ==
  /\ build.pc = "upload"
  /\ \E saved \in BOOLEAN, pc \in {"succeed", "fail"} : build' = [build EXCEPT !.pc = pc, !.saved = saved]
  /\ UNCHANGED <<row, fresh, pay, run, kept, lost, counters>>

Published(offer) ==
  /\ build.pc = "succeed"
  /\ Write([row EXCEPT !.key = @ \/ build.saved])
  /\ kept' = (kept \/ row'.key)
  /\ build' = [build EXCEPT !.pc = "offer", !.offer = offer]
  /\ UNCHANGED <<pay, run, lost, counters>>

\* Weakened: only the first build offers the review.
PublishFirst == Published(Due /\ builds = 1)

\* finishBuild: the outcome goes on the current row, and the row so saved says whether a
\* review is due.
Publish == Published(Due)

OfferReview ==
  /\ build.pc = "offer" /\ build' = NoBuild
  /\ IF build.offer THEN StartCodeReview(FALSE) ELSE UNCHANGED run
  /\ UNCHANGED <<row, fresh, pay, kept, lost, counters>>

\* A failed build records its snapshot too, and offers nothing; a conflicting save records
\* nothing.
BuildFails ==
  /\ build.pc \in {"succeed", "fail"} /\ build' = NoBuild
  /\ \/ build.pc = "fail" /\ build.saved /\ Write([row EXCEPT !.key = TRUE])
     \/ UNCHANGED <<row, fresh>>
  /\ UNCHANGED <<pay, run, kept, lost, counters>>

----------------------------------------------------------------------------
(* runCodeReview.                                                           *)

\* Weakened: what does not fit is left out without a word.
AddOrSkip(tree, b, i) ==
  LET room == MaxTotal - b.total
      most == IF MaxFile < room THEN MaxFile ELSE room
  IN CASE room = 0        -> b
       [] room > 0 /\ tree[i] > most -> [b EXCEPT !.cut = @ \cup {i}, !.total = @ + most]
       [] OTHER           -> [b EXCEPT !.shown = @ \cup {i}, !.total = @ + tree[i]]

EmptyBundle == [shown |-> {}, cut |-> {}, named |-> {}, total |-> 0]

\* sourceBundle: files in order, a long one cut, the one that fills the bundle cut, the
\* rest named at the end.
Add(tree, b, i) ==
  LET room == MaxTotal - b.total
      most == IF MaxFile < room THEN MaxFile ELSE room
  IN CASE room = 0        -> [b EXCEPT !.named = @ \cup {i}]
       [] room > 0 /\ tree[i] > most -> [b EXCEPT !.cut = @ \cup {i}, !.total = @ + most]
       [] OTHER           -> [b EXCEPT !.shown = @ \cup {i}, !.total = @ + tree[i]]

Bundle(tree) ==
  LET after[n \in 0..Len(tree)] == IF n = 0 THEN EmptyBundle ELSE Add(tree, after[n - 1], n)
  IN after[Len(tree)]

Step(r, pc) == run' = [run EXCEPT ![r].pc = pc]
End(r) == run' = [run EXCEPT ![r] = Idle]
Outside == UNCHANGED <<pay, build, kept, counters>>

\* The one-shot guard; nothing to review before the first snapshot.
LoadProject(r) ==
  /\ run[r].pc = "load"
  /\ IF (row.review /\ ~run[r].force) \/ ~row.key THEN End(r) ELSE Step(r, "fetch")
  /\ Outside /\ UNCHANGED <<row, fresh, lost>>

FetchSnapshot(r) ==
  /\ run[r].pc = "fetch" /\ Step(r, "model")
  /\ Outside /\ UNCHANGED <<row, fresh, lost>>

\* No reviewer, no storage, no source, no answer, an empty one, or the deadline.
Fails(r) ==
  /\ run[r].pc \in {"fetch", "model"} /\ End(r)
  /\ lost' = (lost \/ ~run[r].force)
  /\ Outside /\ UNCHANGED <<row, fresh>>

\* The model answers; the pipeline may have gone on while it read.
Reload(r) ==
  /\ run[r].pc = "model" /\ Step(r, "save") /\ fresh' = fresh \cup {r}
  /\ Outside /\ UNCHANGED <<row, lost>>

SaveReview(r) ==
  /\ run[r].pc = "save" /\ End(r)
  /\ IF r \in fresh THEN Write([row EXCEPT !.review = TRUE]) /\ UNCHANGED lost
     ELSE UNCHANGED <<row, fresh>> /\ lost' = (lost \/ ~run[r].force)
  /\ Outside

Touch ==
  /\ fresh # {} /\ Write(row)
  /\ UNCHANGED <<pay, build, run, kept, lost, counters>>

Crash ==
  /\ crashes < MaxCrashes /\ crashes' = crashes + 1
  /\ pay' = "idle" /\ build' = NoBuild /\ run' = [r \in Runs |-> Idle] /\ fresh' = {}
  /\ lost' = (lost \/ Automatic # {} \/ Promised)
  /\ UNCHANGED <<row, kept, builds>>

Trigger == MarkPaid \/ SavePaid \/ ReviewPaid \/ MarkUnpaid \/ RunReview
Build == StartBuild \/ Upload \/ Publish \/ OfferReview \/ BuildFails
Review(r) == LoadProject(r) \/ FetchSnapshot(r) \/ Fails(r) \/ Reload(r) \/ SaveReview(r)

Next == Trigger \/ Build \/ (\E r \in Runs : Review(r)) \/ Touch \/ Crash

Spec == Init /\ [][Next]_vars

----------------------------------------------------------------------------
(* Properties.                                                             *)

\* A paid project with a finished build on record is reviewed, or a review is on its way:
\* the payment that finds no snapshot and the build that finds no payment never miss each
\* other, whichever comes first (runCodeReview, finishBuild).
PaidIsReviewed ==
  row.paid /\ kept /\ ~lost =>
    row.review \/ Automatic # {} \/ Promised

\* Every file shown whole, marked as cut, or named, in the order of the files, and the
\* bundle full before a file is only named.
Told(tree, b) ==
  /\ b.shown \cup b.cut \cup b.named = DOMAIN tree /\ b.shown \cap b.cut = {}
  /\ \A i \in b.shown \cup b.cut, j \in b.named : i < j /\ b.total = MaxTotal
  /\ \A i \in b.shown : tree[i] <= MaxFile
  /\ b.total <= MaxTotal

AllTold == \A tree \in Trees : Told(tree, Bundle(tree))

\* Whatever snapshot a run has fetched, the reviewer "knows what it did not see"
\* (review.go:124): a file that is not shown whole is marked or named (sourceBundle).
ReviewerKnowsTheRest == (\E r \in Runs : run[r].pc = "model") => AllTold

\* "the post-payment trigger passes false so the review stays one-shot" (review.go:30).
OneShot == \A r, q \in Automatic : run[r].pc = "model" /\ run[q].pc = "model" => r = q
=============================================================================
