---------------------------- MODULE SiteAccounts ----------------------------
(***************************************************************************)
(* Accounts of a delivered site (template/goapp internal/auth/auth.go and    *)
(* the handlers of internal/web): the first account becomes the site's       *)
(* owner, sessions are rows found by the hash of a cookie's token, and the   *)
(* site's admin is served to the owner alone.                                *)
(*                                                                           *)
(* A request runs one SQL statement at a time, so requests interleave        *)
(* between statements.  An address stands for its spellings up to ASCII      *)
(* case, which are one account to the table (COLLATE NOCASE).  The guard of  *)
(* handleSignup compares with EqualFold, which folds all of Unicode, so it   *)
(* may take more than one address for the owner's.  No handler deletes or    *)
(* changes an account: the admin's delete refuses the users table            *)
(* (readOnlyTables).                                                         *)
(***************************************************************************)
EXTENDS Naturals, FiniteSets

CONSTANTS Requests,  \* HTTP requests, each of one visitor's browser
          Emails,    \* addresses visitors give
          Owner,     \* the address the site was ordered with
          Folded,    \* the addresses that EqualFold takes for Owner
          Reserved   \* OWNER_EMAIL is set to Owner

VARIABLES
  users,     \* accounts: [email, admin]
  sessions,  \* live session rows: token -> address of its account
  req,       \* the requests: [pc, email, first]
  cookie,    \* the token in the browser of a request, or none
  served     \* addresses the admin was served to

vars == <<users, sessions, req, cookie, served>>

NoCookie == "none"
Accounts == [email : Emails, admin : BOOLEAN]
Phases == {"idle", "count", "insert", "session", "owner", "done"}
Registered == {u.email : u \in users}

TypeOK ==
  /\ users \subseteq Accounts
  /\ sessions \in [Requests -> Emails \cup {NoCookie}]
  /\ req \in [Requests -> [pc : Phases, email : Emails, first : BOOLEAN]]
  /\ cookie \in [Requests -> Requests \cup {NoCookie}]
  /\ served \subseteq Emails

Init ==
  /\ users = {} /\ sessions = [r \in Requests |-> NoCookie]
  /\ req = [r \in Requests |-> [pc |-> "idle", email |-> Owner, first |-> FALSE]]
  /\ cookie = [r \in Requests |-> NoCookie] /\ served = {}

Move(r, pc) == req' = [req EXCEPT ![r].pc = pc]

----------------------------------------------------------------------------
\* Weakened: the guard looks at the wrong side of the count.
RefusedWhenTaken(e) == Reserved /\ users # {} /\ e \notin Folded

\* handleSignup: with an OWNER_EMAIL, an empty table takes only the owner's address, as
\* EqualFold sees it.
Refused(e) == Reserved /\ users = {} /\ e \notin Folded

Signup(r) ==
  /\ req[r].pc = "idle"
  /\ \E e \in Emails :
       req' = [req EXCEPT ![r].pc = IF Refused(e) THEN "done" ELSE "count", ![r].email = e]
  /\ UNCHANGED <<users, sessions, cookie, served>>

\* CreateUser counts once more, after the password was hashed ...
CountUsers(r) ==
  /\ req[r].pc = "count"
  /\ req' = [req EXCEPT ![r].pc = "insert", ![r].first = users = {}]
  /\ UNCHANGED <<users, sessions, cookie, served>>

\* ... and inserts by that count; an address is registered once (UNIQUE).
InsertUser(r) ==
  /\ req[r].pc = "insert"
  /\ IF req[r].email \in Registered
     THEN Move(r, "done") /\ UNCHANGED users
     ELSE /\ Move(r, "session")
          /\ users' = users \cup {[email |-> req[r].email, admin |-> req[r].first]}
  /\ UNCHANGED <<sessions, cookie, served>>

\* handleLogin: the account of the address, with its password.
Login(r) ==
  /\ req[r].pc = "idle"
  /\ \E e \in Registered : req' = [req EXCEPT ![r].pc = "session", ![r].email = e]
  /\ UNCHANGED <<users, sessions, cookie, served>>

\* A failed statement ends the request in an error, the account created or not.
RequestFails(r) ==
  /\ req[r].pc \in {"count", "insert", "session", "owner"}
  /\ Move(r, "done")
  /\ UNCHANGED <<users, sessions, cookie, served>>

\* startSession: a row under a new token, and the cookie in the browser.
StartSession(r) ==
  /\ req[r].pc = "session" /\ Move(r, "done")
  /\ sessions' = [sessions EXCEPT ![r] = req[r].email]
  /\ cookie' = [cookie EXCEPT ![r] = r]
  /\ UNCHANGED <<users, served>>

\* A further page of the same browser.
NextPage(r) ==
  /\ req[r].pc = "done" /\ cookie[r] # NoCookie
  /\ Move(r, "owner")
  /\ UNCHANGED <<users, sessions, cookie, served>>

\* requireOwner: the session's account, if it still lives, must be the admin.
RequireOwner(r) ==
  /\ req[r].pc = "owner" /\ Move(r, "done")
  /\ LET email == IF cookie[r] = NoCookie THEN NoCookie ELSE sessions[cookie[r]] IN
       served' = served \cup {u.email : u \in {a \in users : a.email = email /\ a.admin}}
  /\ UNCHANGED <<users, sessions, cookie>>

\* handleLogout, with the session's CSRF token.
Logout(r) ==
  /\ req[r].pc = "done" /\ cookie[r] # NoCookie /\ sessions[cookie[r]] # NoCookie
  /\ sessions' = [sessions EXCEPT ![cookie[r]] = NoCookie]
  /\ cookie' = [cookie EXCEPT ![r] = NoCookie]
  /\ UNCHANGED <<users, req, served>>

\* The ttl passes: the row is deleted by the next login or lookup, never honoured.
Expire(t) ==
  /\ sessions[t] # NoCookie
  /\ sessions' = [sessions EXCEPT ![t] = NoCookie]
  /\ UNCHANGED <<users, req, cookie, served>>

----------------------------------------------------------------------------
Request(r) ==
  \/ Signup(r) \/ CountUsers(r) \/ InsertUser(r) \/ Login(r) \/ RequestFails(r)
  \/ StartSession(r) \/ NextPage(r) \/ RequireOwner(r) \/ Logout(r) \/ Expire(r)

Next == \E r \in Requests : Request(r)

Spec == Init /\ [][Next]_vars

----------------------------------------------------------------------------
(* Properties.                                                             *)

\* "When OWNER_EMAIL is set, reserve that first account for it" (handlers.go:66): whoever
\* is the site's owner, and whoever the admin is served to, signed up with an address that
\* the guard takes for the customer's, although the guard, the count that decides and the
\* insert are three statements between which other sign-ups run; and an address has one
\* account.  (Where EqualFold and NOCASE differ, that may be more than one account.)
OwnerIsReserved ==
  Reserved => /\ \A u \in users : u.admin => u.email \in Folded
              /\ \A u, v \in users : u.email = v.email => u = v
              /\ served \subseteq Folded

\* "The first account ever created becomes the site owner" (auth.go:54), one owner with
\* or without a reserved address.
OneOwner == Cardinality({u \in users : u.admin}) <= 1
=============================================================================
