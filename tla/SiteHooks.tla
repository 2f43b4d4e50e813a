----------------------------- MODULE SiteHooks -----------------------------
(***************************************************************************)
(* Notifications of a delivered site (template/goapp): the owner turns      *)
(* hooks on a table on and off (internal/web/hooks_admin.go), a trigger     *)
(* writes an outbox entry in the transaction of each insert, and one        *)
(* dispatcher drains the outbox (internal/hooks/hooks.go).                  *)
(*                                                                          *)
(* One table.  SQLite runs one statement at a time (SetMaxOpenConns(1)), so  *)
(* a statement is a step and requests interleave between statements.        *)
(* Messages are numbered as they arrive; a row holds one, and SQLite gives  *)
(* the next insert the highest rowid in use plus one.                       *)
(***************************************************************************)
EXTENDS Naturals, Sequences, FiniteSetsExt

CONSTANTS Hooks,        \* (type, target) pairs on the table
          Keyed,        \* those of a type that needs a key to send: email, not slack or webhook
          Admins,       \* the owner's requests in flight
          MaxMessages,  \* bound: rows inserted
          MaxStops,     \* bound: shutdowns and kills of the process
          MaxFaults     \* bound: statements that fail by themselves

VARIABLES
  stored,   \* hooks with a row in _hooks
  on,       \* those with enabled = 1
  trigger,  \* the AFTER INSERT trigger exists
  rows,     \* the table: rowid -> message, 0 for no row
  sent,     \* messages inserted so far
  outbox,   \* entry id -> [row, msg, due]; msg and due are history
  done,     \* entries with processed_at
  admin,    \* the owner's requests
  disp,     \* the dispatcher
  up,       \* the process: serving, stopping (context cancelled), down
  senders,  \* hooks whose type the process has a notifier for
  told,     \* <<message, hook>> a Notify was called with
  skipped,  \* history: <<entry, hook>> passed over for a failed read, or for want of a notifier
  stops, faults

vars == <<stored, on, trigger, rows, sent, outbox, done, admin, disp, up, senders, told, skipped, stops, faults>>
hookVars == <<stored, on>>
dataVars == <<rows, sent, outbox>>
procVars == <<up, senders, stops>>
toldVars == <<told, skipped>>

Rowids == 1..MaxMessages
NoBatch == [pc |-> "idle", batch |-> {}, hooks |-> {}, msg |-> 0]
Rest == [pc |-> "idle", any |-> FALSE]

TypeOK ==
  /\ stored \subseteq Hooks /\ on \subseteq stored /\ trigger \in BOOLEAN
  /\ rows \in [Rowids -> 0..sent] /\ sent \in 0..MaxMessages
  /\ \A i \in DOMAIN outbox : outbox[i].row \in Rowids /\ outbox[i].due \subseteq Hooks
  /\ done \subseteq DOMAIN outbox
  /\ admin \in [Admins -> [pc : {"idle", "count", "sync"}, any : BOOLEAN]]
  /\ disp.pc \in {"idle", "load", "render", "notify", "mark"} /\ disp.hooks \subseteq Hooks
  /\ up \in {"serving", "stopping", "down"} /\ senders \in {Hooks, Hooks \ Keyed}
  /\ told \subseteq (1..sent) \X Hooks /\ skipped \subseteq (DOMAIN outbox) \X Hooks
  /\ stops \in 0..MaxStops /\ faults \in 0..MaxFaults

Init ==
  /\ stored = {} /\ on = {} /\ trigger = FALSE
  /\ rows = [r \in Rowids |-> 0] /\ sent = 0 /\ outbox = <<>> /\ done = {}
  /\ admin = [a \in Admins |-> Rest] /\ disp = NoBatch
  /\ up = "serving" /\ senders \in {Hooks, Hooks \ Keyed} /\ told = {} /\ skipped = {}
  /\ stops = 0 /\ faults = 0

Fault == faults < MaxFaults /\ faults' = faults + 1

----------------------------------------------------------------------------
(* The owner's requests.                                                   *)

WriteHook(a, hooks, enabled) ==
  /\ up = "serving" /\ admin[a].pc = "idle"
  /\ stored' = hooks /\ on' = enabled
  /\ admin' = [admin EXCEPT ![a].pc = "count"]
  /\ outbox' = [i \in DOMAIN outbox |-> [outbox[i] EXCEPT !.due = @ \cap enabled]]
  /\ UNCHANGED <<trigger, rows, sent, done, disp, procVars, toldVars, faults>>

\* handleHookAdd, for a type that has a notifier; a hook that exists is turned on.
HookAdd(a, h) == h \in senders /\ WriteHook(a, stored \cup {h}, on \cup {h})

\* handleHookToggle: on, or off, and what came before is no longer owed to it.
HookToggle(a, h) ==
  h \in stored /\ WriteHook(a, stored, IF h \in on THEN on \ {h} ELSE on \cup {h})

HookDelete(a, h) == h \in stored /\ WriteHook(a, stored \ {h}, on \ {h})

\* syncTrigger: count the enabled hooks ...
CountHooks(a) ==
  /\ up # "down" /\ admin[a].pc = "count"
  /\ admin' = [admin EXCEPT ![a] = [pc |-> "sync", any |-> on # {}]]
  /\ UNCHANGED <<hookVars, trigger, dataVars, done, disp, procVars, toldVars, faults>>

\* ... and drop or create the trigger by that count.
SyncTrigger(a) ==
  /\ up # "down" /\ admin[a].pc = "sync"
  /\ trigger' = admin[a].any
  /\ admin' = [admin EXCEPT ![a] = Rest]
  /\ UNCHANGED <<hookVars, dataVars, done, disp, procVars, toldVars, faults>>

\* The owner's browser goes away or the statement fails: logged, the trigger stays as it is.
SyncFails(a) ==
  /\ admin[a].pc \in {"count", "sync"} /\ Fault
  /\ admin' = [admin EXCEPT ![a] = Rest]
  /\ UNCHANGED <<hookVars, trigger, dataVars, done, disp, procVars, toldVars>>

----------------------------------------------------------------------------
(* The table.                                                              *)

\* handleContact, or any insert of the site; the trigger's entry is in the transaction.
InsertRow ==
  /\ up # "down" /\ sent < MaxMessages
  /\ LET used == {r \in Rowids : rows[r] # 0}
         row == IF used = {} THEN 1 ELSE Max(used) + 1 IN
       /\ rows' = [rows EXCEPT ![row] = sent + 1]
       /\ outbox' = IF trigger THEN Append(outbox, [row |-> row, msg |-> sent + 1, due |-> on])
                    ELSE outbox
  /\ sent' = sent + 1
  /\ UNCHANGED <<hookVars, trigger, done, admin, disp, procVars, toldVars, faults>>

\* handleAdminRowDelete.
DeleteRow(r) ==
  /\ up = "serving" /\ rows[r] # 0
  /\ rows' = [rows EXCEPT ![r] = 0]
  /\ UNCHANGED <<hookVars, trigger, sent, outbox, done, admin, disp, procVars, toldVars, faults>>

----------------------------------------------------------------------------
(* The dispatcher: Drain and deliver.  Every statement and every Notify runs *)
(* under the context that a shutdown cancels.                               *)

Pending == {i \in DOMAIN outbox : i \notin done}
Head1 == Min(disp.batch)
To(pc) == disp' = [disp EXCEPT !.pc = pc]

\* The pending entries; the oldest is delivered first.
Poll ==
  /\ up = "serving" /\ disp.pc = "idle" /\ Pending # {}
  /\ disp' = [NoBatch EXCEPT !.pc = "load", !.batch = Pending]
  /\ UNCHANGED <<hookVars, trigger, dataVars, done, admin, procVars, toldVars, faults>>

\* A read that fails while the process serves ends deliver, and the entry is marked all
\* the same: its hooks are passed over.
ReadFails ==
  /\ Fault /\ To("mark") /\ UNCHANGED told
  /\ skipped' = skipped \cup ({Head1} \X outbox[Head1].due)

\* enabledHooks.
LoadHooks ==
  /\ up = "serving" /\ disp.pc = "load"
  /\ \/ /\ disp' = [disp EXCEPT !.pc = IF on = {} THEN "mark" ELSE "render", !.hooks = on]
        /\ UNCHANGED <<toldVars, faults>>
     \/ ReadFails
  /\ UNCHANGED <<hookVars, trigger, dataVars, done, admin, procVars>>

\* Weakened: an entry whose row is gone is left as it is.
RenderRowOrLeave ==
  /\ up = "serving" /\ disp.pc = "render"
  /\ LET msg == rows[outbox[Head1].row] IN
       disp' = IF msg = 0 THEN NoBatch ELSE [disp EXCEPT !.pc = "notify", !.msg = msg]
  /\ UNCHANGED <<hookVars, trigger, dataVars, done, admin, procVars, toldVars, faults>>

\* renderRow: the row as it is now, if it is still there.
RenderRow ==
  /\ up = "serving" /\ disp.pc = "render"
  /\ \/ LET msg == rows[outbox[Head1].row] IN
          /\ disp' = [disp EXCEPT !.pc = IF msg = 0 THEN "mark" ELSE "notify", !.msg = msg]
          /\ UNCHANGED <<toldVars, faults>>
     \/ ReadFails
  /\ UNCHANGED <<hookVars, trigger, dataVars, done, admin, procVars>>

\* Notify, once more after a failure; the outcome goes to last_status only.  Without a
\* notifier for the hook's type nothing is called, and that is its status.
NotifyHook ==
  /\ up = "serving" /\ disp.pc = "notify"
  /\ \E h \in disp.hooks :
       /\ \/ h \in senders /\ told' = told \cup {<<disp.msg, h>>} /\ UNCHANGED skipped
          \/ h \notin senders /\ skipped' = skipped \cup {<<Head1, h>>} /\ UNCHANGED told
       /\ disp' = [disp EXCEPT !.hooks = @ \ {h}, !.pc = IF disp.hooks = {h} THEN "mark" ELSE "notify"]
  /\ UNCHANGED <<hookVars, trigger, dataVars, done, admin, procVars, faults>>

\* With the context cancelled nothing is read or sent: deliver returns at once, and the
\* call in flight may have reached its target.
DeliverCancelled ==
  /\ up = "stopping" /\ disp.pc \in {"load", "render", "notify"}
  /\ told' \in {told} \cup {told \cup {<<disp.msg, h>>} : h \in IF disp.pc = "notify" THEN disp.hooks \cap senders ELSE {}}
  /\ To("mark")
  /\ UNCHANGED <<hookVars, trigger, dataVars, done, admin, procVars, skipped, faults>>

Advanced == disp' = IF disp.batch = {Head1} THEN NoBatch
                    ELSE [NoBatch EXCEPT !.pc = "load", !.batch = disp.batch \ {Head1}]

\* Weakened: marked under a context that outlives the shutdown.
MarkDoneAnyway ==
  /\ disp.pc = "mark" /\ Advanced
  /\ done' = done \cup {Head1}
  /\ UNCHANGED <<hookVars, trigger, dataVars, admin, procVars, toldVars, faults>>

\* UPDATE _outbox; its error is ignored.
MarkDone ==
  /\ disp.pc = "mark" /\ Advanced
  /\ IF up = "serving"
     THEN \/ done' = done \cup {Head1} /\ UNCHANGED faults
          \/ Fault /\ UNCHANGED done
     ELSE up = "stopping" /\ UNCHANGED <<done, faults>>
  /\ UNCHANGED <<hookVars, trigger, dataVars, admin, procVars, toldVars>>

----------------------------------------------------------------------------
(* The process.                                                            *)

Shutdown ==
  /\ up = "serving" /\ stops < MaxStops
  /\ up' = "stopping" /\ stops' = stops + 1 /\ UNCHANGED senders
  /\ UNCHANGED <<hookVars, trigger, dataVars, done, admin, disp, toldVars, faults>>

\* main returns after the shutdown, or the machine is killed at any point.
Exit ==
  /\ \/ up = "stopping" /\ UNCHANGED stops
     \/ up = "serving" /\ stops < MaxStops /\ stops' = stops + 1
  /\ up' = "down" /\ disp' = NoBatch /\ admin' = [a \in Admins |-> Rest] /\ UNCHANGED senders
  /\ UNCHANGED <<hookVars, trigger, dataVars, done, toldVars, faults>>

\* The machine comes back, with the environment of its last deploy.
Start ==
  /\ up = "down" /\ up' = "serving"
  /\ senders' \in {Hooks, Hooks \ Keyed}
  /\ UNCHANGED <<hookVars, trigger, dataVars, done, admin, disp, stops, toldVars, faults>>

----------------------------------------------------------------------------
Dispatch == Poll \/ LoadHooks \/ RenderRow \/ NotifyHook \/ DeliverCancelled \/ MarkDone

OwnerRequest(a) ==
  \/ \E h \in Hooks : HookAdd(a, h) \/ HookToggle(a, h) \/ HookDelete(a, h)
  \/ CountHooks(a) \/ SyncTrigger(a) \/ SyncFails(a)

Next ==
  \/ \E a \in Admins : OwnerRequest(a)
  \/ InsertRow \/ (\E r \in Rowids : DeleteRow(r))
  \/ Dispatch \/ Shutdown \/ Exit \/ Start

Spec == Init /\ [][Next]_vars

\* The ticker polls, and a machine that stopped is started again.
Fairness == WF_vars(Dispatch) /\ WF_vars(up = "stopping" /\ Exit) /\ WF_vars(Start)
FairSpec == Spec /\ Fairness

----------------------------------------------------------------------------
(* Properties.                                                             *)

\* An entry is put aside only after every hook that was on since the insert has been
\* called with the message, as long as the row is there: neither a shutdown in the middle
\* of a batch, nor a hook added or removed meanwhile, nor a row deleted and its rowid
\* given to a later message makes the dispatcher pass over a kept row (Drain, deliver).
\* What deliver does pass over is named: a read that failed in a serving process, and a
\* hook whose type has no notifier.
ToldBeforeDone ==
  \A i \in done : rows[outbox[i].row] = outbox[i].msg =>
                    \A h \in outbox[i].due : <<outbox[i].msg, h>> \in told \/ <<i, h>> \in skipped

\* The outbox never grows for ever: every entry is put aside, whatever happened to its
\* row, its hooks or the process (hooks.go:40).
OutboxDrains == \A i \in 1..MaxMessages : i \in Pending ~> i \notin Pending

\* "makes the AFTER INSERT trigger for a table exist iff the table has at least one enabled
\* hook" (hooks_admin.go:180), once no request is between its write and its sync.
TriggerFollowsHooks ==
  faults = 0 /\ stops = 0 /\ (\A a \in Admins : admin[a].pc = "idle") => trigger = (on # {})
=============================================================================
