# Forge: a TLA+ model of the website builder

The repository's product (`src/product`) is *Forge*, a Go web service. A
customer describes a business; language models ask questions, draw concepts and
write a plan; a safety gate screens the plan; an agent in a sandbox machine
builds the site; the customer previews it, asks for changes, accepts and
subscribes; an operator reviews and delivers. Payment comes from Stripe, domains
from a registrar, machines from Fly. This directory models the parts whose
correctness depends on the order of events: the pipeline that moves a project
from intake to delivery, the sandbox that builds it and the material it folds in,
the billing webhooks, custom domains and their renewals, the monthly changes of a
paying customer, the code review, the live log, customers' accounts, and, of the
delivered site itself (`src/product/template/goapp`), its accounts and its
notifications. TLC checks the models on small instances; TLAPS proves the core
safety properties for every instance.

Paths below are relative to `src/product/internal` unless they start with `src/`.

## 1. Inventory

| component | code | state it keeps | operations |
|---|---|---|---|
| Project domain model | `project/project.go` | the `projects` row | the `Can...` predicates, change counter |
| Pipeline orchestrator | `orchestrator/orchestrator.go` | `active[projectID]`, the goroutines, copies of rows | intake, concepts, plan, gate, build, change, fix, retry, accept, deliver, return |
| Recovery and reaper | `orchestrator/orchestrator.go:289-394`, `reaper.go` | none of its own | `RecoverInterrupted` at start, `Reap` every ten minutes, `DestroyPreview`, `PurgeProject` |
| Store | `store/postgres.go` | `projects` (versioned), `iterations`, `assets` | `UpdateProject` with `WHERE version=`, `ReserveIteration` under an advisory lock, unversioned `UpdateIteration` |
| Builder | `builder/builder.go`, `builder/grok.go` | the build's goroutine, the workspace and its snapshot | `Build`, `Attach`, `finalize`: spawn, seed, run the agent, salvage, snapshot, review, polish, destroy; poll of a headless agent's log |
| Fly machines client | `fly` | sandbox machines | spawn, readiness, destroy, sweep |
| opencode client | `opencode` | agent sessions, their event stream | run, attach, watchdog |
| Subscription billing | `web/handlers_billing.go`, `orchestrator/billing.go`, `billing` | `paid`, `paid_via`, the Stripe ids | checkout, webhook, `SubscriptionStarted`, `SubscriptionEnded`, manual marks |
| Custom domains | `orchestrator/domains.go`, `namecom` | the `domain_*` columns, the registrar's account | intent at checkout, buy, attach, detach, retry, reconcile, activate, renewal billing |
| Change metering | `orchestrator/changes.go`, `project.go:470-528` | counter and month of paid changes | record, refund, bill overage |
| Code review | `orchestrator/review.go` | `code_review`, `code_review_at` | a background review after the payment, after a build, or on the operator's word |
| Image generation and content | `web/handlers_imagegen.go`, `web/handlers_projects.go` | `pending_images`, `image_gen_count`, `content_pending`, assets | reserve, generate, fail, poll, pick; upload, label, answer, apply |
| Live log | `stream`, `activity`, `builder/grok.go` | history and subscriber channels | publish, subscribe, reset, relay to a browser |
| Accounts and deletion | `web/handlers_oauth.go`, `web/handlers_projects.go`, `auth`, `orchestrator/reaper.go:143` | users, login links, sessions, the account mutex | sign in, quota, create, delete, purge |
| Web handlers | `web` | rate limits | requests of customers and operators |
| Site template | `src/product/template/goapp` | a SQLite database per delivered site | sign-up, login, the owner's admin, hooks on tables, the outbox and its dispatcher |
| Storage, notifications, configuration, language models, marketing, tools, portfolio | `storage`, `notify`, `config`, `llm`, ... | | I/O and rendering; no part in the orders modelled here |

**How they interact.** Handlers run in request goroutines, flip the project's
row synchronously and start a *pipeline goroutine* (`asyncWithPaidChangeRefund`)
that makes slow calls (language models, a build of up to 90 minutes). Handlers,
pipeline goroutines, the reaper, the domain poller and the Stripe webhook share
no lock; they meet in the `projects` row. `UpdateProject` writes every column and
succeeds only for a copy loaded at the current version, so the copy a writer
holds across a slow call is the hazard everywhere. Some writers retry on a
conflict (`mutateProject`, four times), most give up. Iteration rows have no version: the last
writer wins. A deploy kills every goroutine; the sandbox and its agent live on
and startup recovery re-attaches to them. Stripe delivers events at least once.
A purge deletes objects in storage first and rows after them; uploads and image jobs
store objects on their own account. A build publishes its log through a broker to
the browsers that watch. A delivered site is a program with a database of its own:
its requests interleave between SQL statements, and a dispatcher works off what
triggers put in an outbox.

**What is hard.** Copies held over slow calls and lost to conflicts; a crash
between any two writes (row and iteration, ids and paid flag, registrar and row,
invoice and row); late results of a build that was retried or reaped meanwhile; events
repeated or overlapping; an event that was sent while nobody listened; a count read in one
statement and used in another; a closure that is run again after a conflict with what its
first run left in its variables; best-effort writes that are never repeated. `PROJECT.json` lists
these hazards at their lines, each with the properties that cover it.

**What makes each part correct.**

* Pipeline: what is shown was built and counted; what the gate or the operator
  refused is never built; one goroutine builds at a time and nobody else
  moves the project meanwhile; nothing is delivered that the operator never
  approved; every wait for a goroutine ends, whatever died.
* Billing: payment and project agree, and auto-renew as far as a call made once can, once Stripe has nothing left to
  tell, whatever was repeated, lost or interrupted on the way.
* Change metering: what the customer is shown as used is what shipped; the shipped
  changes beyond the allowance, and only those, are charged, each once.
* Domains: a domain, once stored, is kept; the row claims only what the registrar
  holds; what the checkout charged is never invoiced again; a customer charged for a
  domain gets the one bought with that charge or the money back. A renewal the registrar charges for is passed on.
* Sandbox: a build is finalised as a success only when no agent works in its machine any
  more; a re-attached build whose agent ended unheard is ended by the watchdog; no machine
  outlives its build.
* Content: every picture is charged to the allowance once and a slot runs one job at a time;
  candidates leave their slot by their own job, a pick or a newer job only; content
  the site lacks is offered for a rebuild.
* Code review: a paid project with a finished build is reviewed, whichever came first, and
  the reviewer is told what it does not see.
* Live log: a browser misses only what its own full channel dropped.
* Accounts: the quota and the build caps hold of the rows on record; a row goes only after its objects.
* Delivered site: its owner signed up with the address of the customer who ordered it; an outbox entry is put
  aside only after its hooks were called, or for a reason the dispatcher has, and always in the end.

## 2. Modules

| module | extends | models |
|---|---|---|
| `Project` | | the row, its statuses and predicates (`project.go`), `markFailed`'s decision |
| `Pipeline` | `Project` | handlers, goroutines, builds, recovery, reaper, crashes |
| `Lifecycle` | | abstract: the phases customers and operators see |
| `PipelineLifecycle` | `Pipeline` | the refinement mapping, `ImplementsLifecycle` |
| `MCPipeline` | `PipelineLifecycle` | the symmetry TLC uses |
| `PipelineProofs` | `Pipeline`, `TLAPS` | theorems about `Pipeline` |
| `Billing` | | checkout, webhook, subscriptions, auto-renew |
| `BillingProofs` | `Billing`, `TLAPS` | theorems about `Billing` |
| `Domains` | | the checkout's domain, buy and attach, reconcile, money |
| `DomainsProofs` | `Domains`, `TLAPS` | theorems about `Domains` |
| `Metering` | | the monthly change counter, refunds, overage charges |
| `MeteringProofs` | `Metering`, `TLAPS` | theorems about `Metering` |
| `Sandbox` | | builds inside sandbox machines: spawn, agent sessions, snapshot, restart, watchdog, sweep |
| `Content` | | image jobs, uploads, answers, the flag "new content" and the builds that clear it |
| `LiveLog` | | the agent's log file, its poll, the broker, the browsers |
| `Accounts` | | sign-in, quota, build caps, deletion of projects and accounts |
| `AccountsProofs` | `Accounts`, `TLAPS` | theorems about `Accounts` |
| `Reviews` | | the code review's triggers and runs, and the bundle of source it sends |
| `Renewals` | | the daily poller that bills domain renewals |
| `SiteAccounts` | | accounts, sessions and the owner of a delivered site |
| `SiteHooks` | | a delivered site's notification hooks, outbox and dispatcher |
| `Delivered` | `Billing` | instantiates `SiteAccounts`, `SiteHooks`, `Reviews`, `Renewals` beside it |
| `Changes` | `Metering` | instantiates `Sandbox`, `Content`, `Accounts`, `LiveLog` beside it |
| `DeliveredProofs` | `Delivered`, `BillingProofs`, `TLAPS` | theorems about the parts of `Delivered` |
| `ChangesProofs` | `Changes`, `MeteringProofs`, `AccountsProofs` (instance), `TLAPS` | theorems about the parts of `Changes` |
| `SerialProofs` | `PipelineLifecycle`, `PipelineProofs` | the theorems about one build at a time, and the refinement |

`Domains`, and `Billing` for its violated run, are run directly and have no MC module.
`Delivered` and `Changes` put components side by side that meet in nothing but what
their own modules keep of each other: a variable `part`, chosen at the start, names the component a
behaviour is about, and the others keep their initial states. The states of a run are the
sum of the components' states, not their product. No fair action is enabled in
an initial state, so the fairness of components at rest asks nothing.

### The versioned row

`Pipeline` and `Domains` treat concurrency control in the same way. Every successful write
bumps the version, so a copy can be saved only as long as it equals the row. The
set `fresh` holds the actors whose copy still does: `Load` adds an actor, `Write`
empties the set, `Save` leaves the writer alone in it. A version number is never
kept and the state space stays finite. It also follows that a save's effect can
be written as a change of `row`: a saver in `fresh` holds exactly `row`.

A load that is followed at once by its save (no slow call between) is one action:
the save succeeds if nothing came in between, and otherwise either retries
(`mutateProject`) or changes nothing, which is the action not being taken. Where
the conflict matters to what the actor does next (an error answered to Stripe, a
refund after a failed purchase) the failing outcome is an action or a disjunct of
its own.

### Project and Pipeline

| state | code |
|---|---|
| `row` | the columns that decide: `status`, `verdict`, `plan`, `url` (a `PreviewURL` is set), `used` (`IterationsUsed`), `paid`, `delivered` (`DeliveredAt` is set) and the concept columns |
| `fresh` | who holds a current copy |
| `its` | `iterations` rows: status, number, whether a prompt, the handle written (`MachineID`, `SessionID`), and whether the machine lives |
| `worker` | pipeline goroutines: a program counter, the iteration, the kind of build |
| `active` | `Orchestrator.active[projectID]` |
| `webhook` | the tail of `SubscriptionStarted` that accepts the preview |
| `janitor`, `todo`, `up` | the pass of `RecoverInterrupted` or `Reap` over building iterations, and whether HTTP is served yet |

Each handler is an action (`Reiterate`, `RetryBuild`, `AcceptPreview`, ...), and
each stretch of a goroutine between two slow calls is one: a program counter names
what it is about to do (`planSave`: holds a copy, about to save it; `agent`: the agent runs). A
build goes `load → prepare → spawn → session → agent → verify → record →
publish`: `ReserveIteration`, the save of the reservation's side effects, the machine and
its handle, the agent's result, `brandedPreviewURL`'s early write, the iteration's final
write, the project's. Any of them may end in `fail`, which is `markFailed`.

Four kinds of build stand for (prompt, internal) at `runBuild`: `first`, `change` (customer),
`fix` (operator) and `review` (a fix of an accepted project, which returns it to the
operator's queue). `LogProgress` is the build's periodic unversioned write of its
iteration, which can undo what the reaper or a retry's sweep wrote.

`Crash` empties goroutines and memory and starts recovery: each building iteration is
re-attached (`Reattach`) or reaped. HTTP starts after recovery, as in `main`. `Fault` lets a write
fail for good (database, expired pipeline deadline).

`Allowed` selects optional operations, so that a run spends its states on one question. With
an operation left out, that run says nothing about it. Two options are for experiments and
used by no run: `doubleclick` (a second click on `ApproveEscalated` before the first one's
goroutine saves) and `quiet` (a driven build whose agent is silent for twenty minutes).

### Lifecycle

The abstract specification has a phase, the payment, the operator's guarantee and the number of
counted builds, and says who may move what at what price: changes while unpaid are
limited, only a first build can fail a project, live needs payment and guarantee.
It knows nothing of goroutines, copies or crashes. `ImplementsLifecycle` is the
refinement: statuses map to phases, and every step of `Pipeline` (conflicts, late failures,
recovery) is a step of `Lifecycle` or a stutter.

### Billing

`row` holds `paid`, `via` (`PaidVia`), `sub` (`StripeSubID`) and `accepted`. `checkout[s]` is
what Stripe knows of subscription `s`; `events` what it has not had acknowledged, in order of
emission; `handler` the webhook requests. `Deliver` picks one of the first `Window` events:
1 is ordered delivery with repetitions, 2 lets a neighbour overtake. Each request walks through
`SubscriptionStarted` (`record → markPaid → renewOn → accept`) or `SubscriptionEnded`
(`end → markUnpaid → renewOff`), one action per write. A conflict answers 500, an
answer can be lost, a crash kills the requests; Stripe then delivers again. `renew` is the
registrar's switch. `setDomainAutoRenew` looks at the copy of the row the handler loaded first, so a request carries the kind of
domain it saw there; `buyer` is a purchase of a domain, which loads the row, registers, and saves its copy unless another
save came first (`BuyDomain`, `Register`, `SaveDomain`). The switch is turned once and by best effort: `missed` records that it did not follow the
payment (the registrar's error, a crash before the call, a domain saved after the handler's load, a registration after the payment had
ended, the operator's marks) and has not been set since, and `RenewalFollowsPayment` excuses exactly that.

### Domains

`row` holds the domain columns; `task` the runs of `provisionDomainIntent`, `BuyDomain`,
`AttachDomain`, `DetachDomain`; `pass` the reconcile passes; `owned` what the registrar's account
holds; `charged`, `refunded`, `invoiced` the customer's money; `origin` which path stored the
attached domain. `Fulfilled` is a purchased domain that is flagged prepaid: a domain of the customer's own, or one bought with the page's
button, does not make up for the charge. The registrar may refuse, sell, or sell without the answer
arriving (`RegisterDomain`); a domain we already hold is claimed, not bought again.
`Activate` adds the invoice item and `SaveActive` saves, as in `activateDomain`.

Abstractions: one purchasable name and one name of the customer's own stand for all
hostnames, amounts are "captured" or not, DNS records, zone and address are left out.
Bounds on behaviour: the customer pays the last session opened; the reaper's
re-drive comes only when no checkout run is at work (the code waits until the row has been
quiet for ten minutes); nobody removes a domain within the seconds the checkout's own
run takes; the operator comps only projects with no checkout open; `MaxMoney`
saturates the counters.

### Metering

`row` holds what the counter needs: `paid`, `used` (`IterationsUsed`), `count` (`ChangesThisPeriod`) and
`start` (`ChangePeriodStart`). Months are the customer's own windows, numbered from 1 (the code advances
the window in whole months from its first change); `now` is the current one. `build` is the
project's building pass: who asked, the month whose allowance it took (0 if `Reiterate` did not count it), and
`refund`, the flag its goroutine was given. `RequestChange` counts, `FinishBuild` decides on a charge by the
counter it finds, `MarkFailed` gives back, `BillOverage` is the Stripe call, which the next build may overtake.
`Crash` lets recovery resume the build, reap it or find nothing, and sets the flag as recovery does, from the
iteration's number and prompt alone. `MarkPaid` and `NextMonth` may come at any moment.

Abstractions: builds of one project do not overlap (`Pipeline` has those races), the status is "a preview
exists", and a subscription, once paid, lasts. The last matters: when one ends and another begins in the same
month, `UsedIsShipped` does not hold of the code (see hazard `orchestrator.go:1422`). The plan returns to it.

### Sandbox

`orch` is the build's goroutine (`prepare → create → boot → seed → agent → consume →
save → review → polish → resave → destroy → finish`, with `salvage` after an error and `down`
while the process is); `row` the iteration as persisted (machine, session, status); `alive` the machines that
run, `spawned` how many were created; `agent` the main and the polish session; `heard` the sessions whose end
reached the stream that is open now; `watch` the watchdog of `Attach`; `site` three version numbers: workspace,
live site, snapshot. The machine's name belongs to the project, so a second creation conflicts until the squatter is
destroyed (`CreateConflict`); a creation whose answer is lost leaves a machine nobody has on record
(`CreateUnseen`). Agents edit, deploy and end on their own, whether the orchestrator lives or not; their end is an event that
only an open stream hears. Assumed: a working agent is seen to use tokens at least once within the watchdog's limit.

### Content

`sets` maps a slot to its candidates (status, job, keys), `count` is `ImageGenCount`, `flag` is `ContentPending`, `used` the counted
builds, `assets` what is on file, `applied` what the site on show was built from, `req` the image requests with
their goroutines. `reserveImageJob` is split into `Attempt` and the saves, because its closure keeps
variables across attempts; other `mutateProject` loops are one step. A save may commit unseen. `marking` and `picking`
hold handlers between their two writes. `lost` is history: content whose offer was lost for a reason the code accepts
(a flag given up, a crash, a failed build); `UnappliedIsOffered` excuses exactly these. An object's key is
the request that drew it; prompts and pictures are left out.

### LiveLog

`file`, `exit`, `status` are the agent's log, exit marker and exit; `poll` the loop of `pollGrok`, whose one shell command reads the
tail and then the marker; `pub`, `hist`, `viewer`, `holder` the broker's publisher, history, channels and mutex. Publish and
Subscribe take two steps each under the mutex. Lines are numbers.

### Accounts

Sign-in by link or provider (`FindUser`, then `CreateUser`), the quota counted and the project created under `accountMu`, build caps counted
and the iteration inserted under the advisory lock, `DeleteProject`, the operator's purge and `handleDeleteAccount`, each from
call to call of store and storage. One address, projects of its account and of others; `objects`, `swept`, `jobs` say which
projects have objects, had theirs deleted, and have a job that will still store one. A day is as long as a behaviour.

`iter` holds the iterations with their project, more than one of a project where the code can come to it. A reservation is `counted` while
its transaction has the advisory lock, then `building`. A retry's sweep fails the rows it finds building (`SweepLeftover`) although a goroutine may
go on, and that goroutine's next write of its own copy, which has no version, sets the row building again (`Persist`, status `revived`);
`Full` counts such a row, as the code does, and `CapsKept` does not, because it exceeds the cap on builds at a time. `CapsKept` bounds rows on
record: deleting a project takes its iterations along, and the builds of the day with them.

### Reviews, Renewals

`Reviews`: `row` (paid, snapshot key, a review stored), the payment's handler, the build's goroutine, review runs from
`load` to `save`. A snapshot is a sequence of file sizes, and `Bundle` is the loop of `sourceBundle` over it; which files count as source
is left out. `lost` says that an automatic review failed or died, which the code does not repeat.

`Renewals`: the row's domain status and `DomainPaidThrough`, the poller's copy, the registry's `expiry`; time is months since
the registration. `covered` is history: up to when the customer or operator has been told to pay.

### SiteAccounts, SiteHooks

`SiteAccounts`: one action per SQL statement of sign-up, login, logout and the owner's pages; passwords are left out. `Reserved` says whether
`OWNER_EMAIL` is set. An address is what the users table takes for one (`COLLATE NOCASE`: case of ASCII letters). The guard of `handleSignup` folds by
all of Unicode (`strings.EqualFold`), so `Folded` is a set of addresses that it takes for the customer's, of which the
table may see several.

`SiteHooks`: hooks of one table, its trigger, rows with SQLite's reuse of the highest rowid, the outbox and the dispatcher's
batch, a set of entries worked off oldest first (the query's limit lies above the bounds). `senders` are the hooks whose type the process has a
notifier for: e-mail needs a key, which a deploy may add or take away. A read of the hooks or the row that fails in a serving
process ends `deliver`, and the entry is marked all the same (`ReadFails`); without a notifier nothing is called. `due`,
`told` and `skipped` are history: the hooks that were on since the insert, the calls made, and what was passed over for one of these two reasons. The
dispatcher's own comment (`hooks.go:39-40`) announces the second; migration 0002's "lossless" is said of the capture in the outbox. A shutdown cancels the context
under which everything runs (`DeliverCancelled`, `MarkDone` while `stopping`); a kill may come anywhere. What a notifier answers is not
modelled: the dispatcher stores it and goes on.

### "Weakened" definitions

Definitions whose comment starts with *Weakened:* are variants of the code with a
plausible bug (a dropped guard, a swapped order, a missing reset). No specification uses
them. `PROJECT.json` pairs each with the property that must fail when it replaces its original:
evidence that the property depends on that line of the code. `Ignored`, `accountMu` not waited for, is a second one for `CapsKept`, which TLC
finds violated by it as well.

## 3. Runs

| run | module, cfg | asks | result |
|---|---|---|---|
| `core` | MCPipeline, PipelineCore | without writes that fail for good: one builder at a time; a driven build is not taken away; no build beyond the offer is reserved while unpaid; the refinement of `Lifecycle` | holds |
| `adverse` | MCPipeline, PipelineAdverse | with fixes, a crash and a lost write: shown was built, refused is not built, delivered was approved, the counted build on record | holds |
| `live` | MCPipeline, PipelineLive | no project waits forever before its build; no iteration stays building | holds |
| `unscreened` | MCPipeline, PipelineUnscreened | "Nothing builds until ApprovePlan": no iteration is reserved before the gate allowed the plan | violated |
| `late_failure` | MCPipeline, PipelineLateFailure | `markFailed` never moves a project out of a newer build | violated |
| `stranded` | MCPipeline, PipelineStranded | `RetryBuild` recovers any failure | violated |
| `delivered` | Delivered, Delivered | payment, project, announcements in step, auto-renew with them unless a call was missed; a payment arrives; owners signed up with the reserved address; hooks told, or passed over for a named reason, before their entry is put aside, and the outbox drains; a paid, built project is reviewed and the reviewer knows what it does not see; renewals are passed on | holds |
| `stale_delete` | Billing, BillingStaleDelete | a stale cancellation never un-pays a live subscription | violated |
| `domains` | Domains, Domains | kept, owned, prepaid before registration; the domain the charge bought, or a refund, or the page's buttons came first | holds |
| `double_bill` | Domains, DomainsDoubleBill | a registration is invoiced once | violated |
| `free_domain` | Domains, DomainsFree | a prepaid domain was paid for | violated |
| `changes` | Changes, Changes | the changes shown as used are those that shipped; overage is charged once per shipped change beyond the allowance; builds are finalised after their agent, ended by the watchdog, their machines released; images within the allowance, candidates kept, content offered; quota and both build caps over the rows on record; objects before rows; viewers miss only drops | holds |

### What the violated runs show

* `unscreened`: the plan is saved with status `screening` before the gate is asked. If the gate's call fails, which `markFailed` does not
  record for a status it does not know, or the process stops there, the plan is left without a verdict; the reaper fails the project,
  and `RetryBuild` builds whenever a plan is stored. The trace ends with the iteration reserved for the stored plan: a retry that finds no plan
  asks the gate first and reserves nothing.
* `late_failure`: `OperatorIterate` on an accepted project ends with the project
  `preview_ready` and then saves it `accepted`. A customer's change in between sets it to
  `building` again; the fix's save conflicts, its goroutine ends in `markFailed`, finds `building`,
  and moves the project back to `preview_ready` while the change's build goes on.
* `stranded`: recovery looks for *building iterations* and the reaper's rule for stranded projects leaves
  the status `building` out. A crash between the flip to `building` and `ReserveIteration`, or between
  `finishBuild`'s two writes, leaves a project building with nothing to recover, and `CanRetry`
  refuses it.
* `stale_delete`: `SubscriptionEnded` compares the stored id on one copy; `MarkUnpaid` loads another
  and clears it. A new subscription recorded in between is un-paid.
* `double_bill`: `AddInvoiceItem` runs before the versioned save, and the guard reads a copy loaded before
  activation.
* `free_domain`: clearing the choice leaves `DomainCostOre`, which the operator's retry
  takes as proof of payment. A refund leaves it too.

Each is recorded in `PROJECT.json` under `findings` with the comment it contradicts.

### Promises of comments the models refute without a run of their own

These are stated in the modules as properties that no passing run lists. To see one fail, run the module on its own
`Spec` with the constants its host's cfg gives it, except where noted, and the
property as the only one.

| property | of | what happens |
|---|---|---|
| `LateKeepsNewer` | Content | a reservation repeated after a conflict keeps the id of the job it met; that job's late failure then takes the new one's slot |
| `OneJobPerSlot` | Content, three `Pictures`, `MaxImages = 3` | the same; the old job's failure frees the slot for a third request while the second job still draws |
| `AddedIsOffered` | Content | content added while the first build runs, after its listing, is neither built nor offered |
| `WorkingSessionOnRecord` | Sandbox | the polish pass of a re-attached build is not recorded; a second restart attaches to the finished session |
| `DoneMeansDrained` | LiveLog | lines written between the poll's two reads are lost when the marker is there |
| `FailureIsReported` | LiveLog | an empty exit marker reads as success |
| `PurgedLeavesNothing` | Accounts | an upload or a job stores its object after the purge deleted the others |
| `PaidIsNotErased` | Accounts | a payment settles between the check and the deletion of the row |
| `OneInFlight` | Accounts, `MaxPerDay = 2` | the quota's list of statuses lacks `created` |
| `OneShot` | Reviews | the payment's run and the build's run pass the guard together |
| `RenewalInvoicedOnce` | Renewals | the invoice item is added before the save that records it |
| `OneOwner` | SiteAccounts | two first sign-ups count no account and both become owners: of any addresses with `Reserved = FALSE`, and of two that the guard takes for the customer's otherwise |
| `PaidDomainOrRefund` | Domains (`FairSpec`) | a domain put on the project with the page's buttons clears the intent, and the charge for the other one is forgotten |
| `TriggerFollowsHooks` | SiteHooks, `Admins` of two | two requests count and then create or drop the trigger in the other order |

Some have a neighbour that holds and is checked: `SetsStayTheirOwners` and `AllowanceKept` (jobs that run under an id of their own),
`FinalisedAfterAgent` (the watchdog counts the tokens of all sessions), `OwnerIsReserved` (every owner has an address the guard takes for the customer's)
and `DomainOrRefund` (without the page's buttons).

### Bounds, and why they are enough

* `Workers = {w1, w2}`: the races are between two goroutines (a late one and the current one). A third
  would need three overlapping pipelines of one project.
* `MaxIterations = 2`, where the code has 3: a first build, one counted change and the refusal of
  another. `SerialProofs` proves `FreeBuildsCapped` for every offer and every number of builds and crashes, in the regime of `core`
  (`Calm`, section 4). Outside that regime it depends on the bounds, so no run claims it there.
* `MaxBuilds = 3` rows (2 in the runs that need fewer): a success, a failed or fixed pass, and a later
  one; also the state in which the daily cap is exhausted and `ReserveFails`.
* `MaxCrashes`: two in `core`, so that recovery is itself interrupted; `MaxFaults = 1` lost write.
* Billing: two subscriptions one after the other, which is the least that makes an event stale; two
  crashes; one request at a time in `delivered`, two overlapping in `stale_delete`.
* Domains: two tasks (the checkout's run against a button, a retry or a re-drive), one reconcile
  pass in the passing run and two in `double_bill`; one crash.

* Metering: an allowance of one (the second change is already beyond it), two months (one turn), five builds, two
  crashes, and the code's cap of three unpaid builds. The counter compares only with 0 and the allowance;
  the proof holds for every value.
* Sandbox: two builds (a retry that seeds from a snapshot, a squatter from the build before), two edits (a workspace newer than the
  live site), two restarts (one during a re-attached build), one lost answer or failed destroy, and a watchdog limit of
  two quiet minutes for the code's ten: one is a minute that does not yet decide.
* Content: two requests on one slot, one upload, two builds, `MaxImages = 2`, one fault. Slots share nothing but the allowance.
* Accounts: three requests of one address, two projects of its account, one sign-in link. Three iterations against one building at a time and two a day, a quota of
  one project: each cap is reached and refuses. The project's iterations, or those of a second one made after a deletion, press on both caps; other
  customers' projects count like the account's own (with one at rest beside them, the module alone has 3.7 million states and holds as well).
* LiveLog: four lines, chunks of two, a history of two, a channel of one: each limit is reached and passed. One viewer, since
  viewers share only the mutex; two cuts (failed polls, departures, further builds).
* Reviews: two runs, two builds, one crash; trees of up to three files of sizes 1 to 3 with limits 2 and 3, which has files below, at
  and above each limit.
* Renewals: two renewals, three detours (refusals, conflicts, stops); activation at once, a month or eleven months after the registration.
* SiteAccounts: two requests, three addresses: the customer's, one more that the guard takes for it, and an intruder's. The proof holds for any number of each.
* SiteHooks: two messages (a batch, and a rowid reused), one hook, one request of the owner, one stop, one failed statement. `ToldBeforeDone` holds
  with two hooks, one of which needs a key (3.4 million states), and with two requests (838,758) as well; the run is kept small.

Runs set `CHECK_DEADLOCK FALSE` because the systems really stop: a rejected or expired project, with its
bounds of crashes spent, has no next step.

### Fairness

* Pipeline (`FairSpec`): weak fairness of each goroutine's own steps (goroutines are
  scheduled, and every slow call has a deadline: the pipeline's context, the build's 90 minutes), of
  the reaper (a ticker) and of recovery. People are never assumed to act, crashes and takedowns
  never assumed to stop beyond their bounds, `LogProgress` has none.
* Billing: Stripe repeats an event until it is answered, requests run to their end, and neither the
  conflict nor the lost answer strikes every single time (strong fairness).
* Domains: goroutines run; the reaper re-drives an intent that is again and again left on the row; the
  mark is not lost to a conflict every time. That gives `DomainOrRefund`.
* Sandbox: startup recovers, the watchdog's ticker ticks, the reaper sweeps, a goroutine that can go on does; `ConsumeFails` is fair only
  once the end was heard or the machine is gone. Nobody makes an agent end, so `MachineReleased` allows for one that works for ever.
* SiteHooks: the dispatcher's ticker polls, a stopping process ends, a stopped machine is started again.
* Renewals: the daily poller polls. Refusals and stops are bounded, not assumed rare.

## 4. Proofs

`PipelineProofs` proves, for every set of goroutine slots, every number of builds, crashes and lost writes, and
every choice of `Allowed`, from the assumptions `MaxIterationsAssumption` and `PipelineAssumption` only:

* `TypeCorrect`: `Spec => []TypeOK`. `TypeOK` alone is not inductive: a goroutine that updates the
  iteration it holds needs to hold one. `TypeInv` adds `HoldsBuild`: between `ReserveIteration` and the
  last write, `it` names a row.
* `ShownWasBuilt`: `Spec => []ShownHasBuild`. A project is shown after a `publish` or by `markFailed`'s fall-back.
  The fall-back is guarded by `hadPreview`; a publish of a numbered build counts itself; the
  case to exclude is an *unnumbered* build (an operator's fix, possibly resumed after a crash) that
  publishes over a row that has no counted build. `ReservedInv` says that a goroutine at work holds
  a started row of its own kind and `CountedInv` that a started row with number 0, or a goroutine with an internal kind, implies
  `row.used >= 1`. The inductive invariant is `ShownInv == TypeInv /\ ReservedInv /\ CountedInv`; the goal is part of `CountedInv`.
  The step is split: most actions leave numbers and counters alone (the `...Quiet` and `...Keeps` lemmas); `Reserve`,
  `Publish`, `Reattach` and `Reaccept` are the ones with an argument.
* `DeliveryIsGuaranteed`: `Spec => []DeliveredWasGuaranteed`. Inductive with `TypeInv`: the only
  ways to `delivered` are `DeliverProject`, which sets the mark, and `AcceptPreview`'s fast path, which asks for it, and
  nothing resets it.
* `FlaggedIsNotBuilt`: `Spec => []FlaggedNotBuilt`. A publish looks at no status, so the theorem rests on there being no goroutine that
  could publish over a verdict. `BeforePlan` says that until a plan is stored there is one goroutine at most, no iteration, and nothing
  for recovery or the auto-accept to pick up; `AtGate` that a goroutine at the gate with a current copy is still alone,
  because whatever starts another one writes the row first and takes the copy away; `TurnedDown` that after a verdict
  against the project nothing is under way and only the operator's approval leads on; `InOrder` relates statuses to the plan. The
  inductive invariant is `VerdictInv` with `TypeInv`. The `...Keeps` lemmas treat the shapes of steps (a flip that starts a
  goroutine, a write, a move); `SetupVerdict`, `BuildingVerdict` and `RecoveryVerdict` the actions.

`SerialProofs`, for every set of goroutine slots, every number of builds and crashes and every `MaxIterations`, in the regime `Calm`: no
write fails for good (`MaxFaults = 0`), and of the optional operations payment, cancellation, content edits, takedown and expiry, so no
operator's fix, no double click and no silent agent. The regime is that of `core`, and none of it is there for the proof's sake: with a
fix, a double click, a silent agent or one lost write TLC finds two goroutines at work on a small instance. What is proved
is that these are the only ways to get there.

* `OneBuilder`: `Spec => []SingleBuilder`. The flip to a working status is the lock. `Claimed` says that a goroutine at work keeps the row out
  of `Startable`, the statuses a request may start one from; `Alone` that there is one. The other source of goroutines is recovery:
  `Driven` says that an iteration that is building has a goroutine at its build or is on startup's list, and the other way round, `Startup`
  that this list has one entry at most and nobody works while it is there, so the running reaper finds nothing it may take. `AcceptsPreview` and `Numbered` say what a
  webhook with a current copy sees and which number the pass under way has. The inductive invariant is `SerialInv` with `TypeInv`; the
  `...Keeps` lemmas treat shapes of steps (a request that starts a goroutine, a write of the row, a step of a goroutine's own) and every action is
  reduced to one.
* `BuildIsLeftAlone`: `Spec => DrivenStaysBuilding`, without takedowns: an action property. `markFailed` and the publish are the goroutine's own, and the others find
  no status to act on.
* `CountIsOnRecord`: `Spec => []CounterHasRecord`. The counter moves at a publish, whose iteration `Numbered` knows saved as `preview_ready` with
  the number after the last; no later write touches a saved success (`SuccessStays`).
* `FreeBuildsAreCapped`: `Spec => FreeBuildsCapped`, an action property: whoever reserves a build for an unpaid project reserves one within the offer. Cancellations
  and new payments are included; what was built while the project was paid may lie beyond the offer. Only a change is checked against the
  budget, at its reservation. `Young` and `FirstPasses` say that any other pass is the first, because whatever leads to one asks for a status that a project with a
  counted build cannot be in.
* `Refinement`: `Spec => ImplementsLifecycle`, without takedowns: the initial states map, and every action is a step of `Lifecycle` or a stutter (the
  `...Mapped` lemmas, by the same shapes). It uses the inductive invariants of all three pipeline modules and `InPlace`, which ties a goroutine's place to the
  status its row is in: a goroutine's own write moves the phase it expects, never a later one.

With `MaxIterations = 1`, a fix, a silent agent or one lost write overruns the cap of free builds; with the offer at 2, TLC needs two lost writes of
an iteration, a crash and four builds: a retry meets an iteration the database still calls building, and its "first" pass is counted beyond
the offer. So `FreeBuildsCapped` is checked and proved in `Calm`, and claimed nowhere else: the code keeps the cap unless the operator fixes, an agent falls
silent or a write fails for good.

`DeliveredProofs`, from `DeliveredAssumption`, for every set of requests, addresses, hooks, review runs and trees of files:

* `SiteHasItsOwner`: `DeliveredSpec => []OwnerIsReserved`. The guard, the count and the insert are three moments; `GuardHolds` says what a request
  still knows at each: one that passed the guard and has not counted gave an address in `Folded` or finds an account; one that counted none
  gave such an address. That an address has one account is the insert's. Of the assumption it needs `Owner \in Folded`: nothing is assumed of how
  many addresses the guard takes for the customer's, so there may be as many owners as requests that came first with one of them.
* `PaidWorkIsReviewed`: `DeliveredSpec => []PaidIsReviewed`. `ReviewInv` adds that once a success is on record the row has its key, so the review of a
  payment that comes later has a snapshot to fetch. The two triggers meet on the row: `SavePaid` and `Publish` each write it, and the one that comes second saw the other or lost
  its save. A run that ends without a review sets `lost`.
* `HooksToldFirst`: `DeliveredSpec => []ToldBeforeDone`. The dispatcher's batch is a snapshot, hooks come and go, and a rowid
  may have been given out again. The theorem is about an entry whose row still holds its message: every hook that was on throughout was called, or passed over
  because a read failed in a serving process or its type had no notifier. `HooksInv`
  numbers the messages (`Numbered`), says that what an entry still owes is on (`DueIsOn`) and what the dispatcher knows of the entry it is at (`AtEntry`): at
  the render its hooks are all in hand, at a call each is in hand, called or passed over, at the mark all are called or passed over. A shutdown passes over
  none: it leaves the entry to the next process.
* `ReviewerIsTold`: `DeliveredSpec => []ReviewerKnowsTheRest`. `Bundle` is a recursive function over the files, and the theorem holds for every
  sequence of sizes. The library's induction theorems take an operator, which the provers cannot instantiate, so the induction is done with
  `WFMin`: the set of file numbers after which `Bundle` is not what `Add` makes of the file before (`PassesExist`) or has left something out
  without a word (`BundleTells`) would have a least element, which is neither zero nor the successor of a good one. `AddTells` is the step.
* `DeliveredTypes`: `DeliveredSpec => []DeliveredTypeOK`, from the invariants above, `RenewalInv` (the registry's date is a whole number of years, so it never passes the last) and
  `TypeCorrect` of `BillingProofs`.

`AccountsProofs`, for every set of requests and every finite set of projects, with `"none"` the name of neither, and natural caps:

* `RowGoesLast`: `Spec => PurgedFirst`, an action property. A row leaves by `RemoveRow`, whose objects `SweptBefore` knows deleted, or by the
  cascade in `DeleteUser`. For the cascade `Listed` says that whoever deletes an account has, of what the account owns, everything
  still listed, deleted or in hand; nothing is added behind its back because `MutexHeld` puts every insert under accountMu.
  The inductive invariant is `PurgeInv`.
* `CapsHold`: `Spec => []CapsKept`. `DayCap` adds to the quota that an account whose creation is between the check and the insert still has
  room, `BuildCap` to the caps that at most one transaction holds the advisory lock and that the room it found is still there. Both are preserved because only
  an insert under the same lock adds a row or a build to those bounded; sweeps, ends and deletions let the sets shrink, a late write revives a row outside of
  `Builders`, and `Counting` turns that into cardinalities.

* `TypeCorrect`, with `Others \subseteq Projects`. `AccountInv` adds to `PurgeInv` that a request past its sign-in names an account and a purge a project (`Named`),
  and that what waits for approval is somebody's (`Waiting`).

`ChangesProofs` restates these for `Changes` by instantiating `AccountsProofs` (copies of one module agree, so every step of one is a
step of the other), and proves of the other components, from `ChangesAssumption`:

* `BuildsEndAfterAgents`: `ChangesSpec => []FinalisedAfterAgent`. The end of one session must not be taken for the other's: `InTurn` says that the polish
  pass never meets a main session at work, `StreamTells` which session an open stream belongs to and what an end heard on it implies,
  `WatchTells` that the watchdog's limit is reached only when nobody works. The inductive invariant is `BuilderInv`.
* `ContentIsOffered`: `ChangesSpec => []UnappliedIsOffered`. `Offered` accounts for every item the site lacks: a request is about to mark it, the build under
  way has read it, or the flag is set.
* `AllowanceHolds` and `SetsStay`: `ChangesSpec => []AllowanceKept` and `ChangesSpec => SetsStayTheirOwners`, an action property. A repeated reservation keeps the id of the
  job it met, so an id may have several holders. `JobIds` says who: the id was taken by its first holder, for the same slot, which has stopped drawing
  before a second one runs under it. `Charged` says that the jobs paid from the allowance are no more than were counted.
* `ViewersMissDropsOnly`: `ChangesSpec => []ViewersMissOnlyDrops`. `HistOK` says that the history is a run of lines without a hole up to the
  one published last, `Joined` that nothing is published between the copy of the history and the registration of the channel, `Heard` that what
  a viewer was shown, followed by what waits in its channel, breaks only where the full channel dropped a line. `EndsAt` and `Unbroken` are the
  two shapes of sequences, with a lemma for each operation on them.
* `ChangesTypes`: `ChangesSpec => []ChangesTypeOK`, from these invariants and `TypeCorrect` of `AccountsProofs` and `MeteringProofs`.

`DomainsProofs`, from the assumption of `Domains` only, for every set of tasks and reconcile passes:

* `StoredDomainIsKept`: `Spec => AttachedIsKept`, an action property. A row gets a domain by the save of an attach
  run, which saves only a current copy. `CurrentIsFree` says what a current copy tells its holder: a run about to
  register or attach, whose copy is current, sees a row without a domain. Every write by another takes the copy
  away, so the invariant is preserved without comparing rows.
* `PurchaseIsOwned`: `Spec => []PurchasedIsOwned`. `AnswerMeansOwned` adds that a run past the registrar's answer
  holds the domain already.
* `TypeCorrect`. The inductive invariant of these three is `DomainsInv`.
* `CheckoutIsPrepaid`: `Spec => []CheckoutMeansPrepaid`. The flag is stored before anything is registered (`BuyingIsMarked`), so
  the argument is about who could take it away: the last save of a run that failed. If that run gave money back there is nothing to
  show (`ClearedIsRefunded`). A run that gives none back is the only one of the checkout's (`RefundlessIsAlone`) and
  began before any domain was stored (`StoredIsMarked`), because a second run is the operator's retry, which asks for a
  subscription and a captured price (`TwoMeansRetry`), and the price is kept for a choice to buy alone (`PriceFollowsChoice`).
  `DetachIsAlone` carries the bound on removals stated at `DetachDomain`. The inductive invariant is `AllInv`: `DomainsInv`,
  `PrepaidInv`, `CopyIsStored` (a pass with a current copy has a domain to move) and `AfterCareIsCheckout`.

`BillingProofs`, for every set of subscriptions and handlers, every number of crashes and every `Window`:

* `PaymentWasSettled`: `Spec => []PaidMeansSettled`. What an event tells stays true: a settled subscription is live or
  ended for good. `EventsTold` says so of the events that wait, `ServedIsSettled` of the requests at work,
  `StoredIsSettled` of the stored id, `StripeMeansPaid` of the paid mark. The `...Told` lemmas carry it over
  `Emit` and over the removal of an acknowledged event, by the library's facts about sequences.
* `InStepWhenQuiet`, `ToldOnce` and `RenewalIsInStep`: `Spec => []QuietMeansInStep`, `[]AnnouncedOnce` and `[]RenewalFollowsPayment`, under `OneAtATime`: one
  event is delivered at a time and there is one handler, as in the run `delivered`. With overlap TLC refutes the first (the run
  `stale_delete`), so the hypothesis says where the row can be trusted. `OrderInv` follows a subscription through its mail: each event is emitted
  once and a payment before the end (`MailInv`), only the first event that waits is served (`FirstServed`, `Served`), a live subscription is the
  row's or its payment is the last event that waits (`LiveIsLast`), and an end the row does not know of still waits (`EndIsPending`). TLC checked the invariant with
  three subscriptions (1,056,106 states) before it was proved. `Switched` is its part about the registrar: outside of a request that is about to turn the switch, and
  unless a call was missed, it stands where the payment is; each step of a purchase and each of the two calls either keeps that or sets `missed`.
* `TypeCorrect`.

`MeteringProofs`, for every allowance, cap and bound:

* `UsedWasShipped`: `Spec => []UsedIsShipped`. The counter belongs to the month `row.start`; `CounterInv` says that it counts
  what that month shipped and the counted change being built. The delicate step is recovery, which flags an
  unpaid refinement as counted: `UncountedInv` says that when such a build runs nothing has been counted, so
  `RefundChange`'s floor at zero keeps the books. That argument needs the assumption on subscriptions above.
* `OverageIsBilledOnce`: `Spec => []OverageBilledOnce`. The changes shipped beyond the allowance are a set of pairs of month and number,
  `ShippedBeyond`, which gains one element exactly when `Overage` adds a charge: by `UsedInv`'s count of the month, the number in hand when a
  counted change is finished is the month's next. `ChargeInv` adds `ShippedWithin`, which keeps that set finite.
* `TypeCorrect`, from the same invariant.

Only model-checked: `CounterHasRecord` of `Pipeline` outside the regime `Calm`, with the fixes and the lost write that
`adverse` adds, and what must eventually happen: the settling of builds and projects, `PaymentArrives`, `OutboxDrains`,
`RenewalPassedOn`, `DomainOrRefund`, `AttachedFinishes` and `MachineReleased`. Liveness under fairness and anything with `ENABLED` is out of the prover's
reach and stays with TLC. No module uses a `RECURSIVE` operator, so none stands in the way of a proof.

## 5. Not modelled

* A subscription that ends, in `Metering`: changes are free again after it, and the counter stays.
* Deployed apps: `DestroyApp` of failed projects, and the healing of branded previews act on
  deployments, of which the model has none but the version number in `Sandbox`. The preview domain is assumed configured.
* Product projects share the build caps (`Accounts`) and nothing else; `Pipeline` sees the cap from one project, as a slot
  that may be missing (`ReserveFails`).
* An ineligible `Reiterate` still saves the row and bumps its version; so does any content edit. `TouchRow` stands for all
  such writes.
* The sandbox's audits, critiques and form checks decide only whether a polish round starts, and are a choice. `SetAppSecrets` is one of the
  calls of `Prepare` that may fail; the comment above it (`builder/builder.go:304`, "Best-effort: a gap here must not fail the
  build") is about the secret that is missing, the error of the call ends the build.
* Language models, registrar, Stripe, Fly and storage are what their callers see: outcomes, lost answers, objects in a set.
  Their clients (HTTP, retries, parsing, signatures) are I/O.
* Rendering, prompts, e-mail, cookies and password hashing, rate limits, forms, marketing pages, configuration, command-line tools and the
  portfolio site hold no state whose order matters.

## 6. Plan

Done: the pipeline with its refinement; billing, domains, renewals, metering; sandbox, content, live log, accounts, code
review; the delivered site's accounts and hooks; the proofs above. In this order next:

1. Proofs: an invariant of `Pipeline` under lost writes and fixes, weaker than `SerialInv`, that gives a bound on free builds in terms of their number.
2. `MarkUnpaid` in `Metering`: which months the counter is exact in when subscriptions end and begin, and what the
   recovered refinement and the change that fails while unpaid do to the others.
3. Deployments beside the rows: `DestroyApp` from a listing against a retry, the healing of branded previews.
