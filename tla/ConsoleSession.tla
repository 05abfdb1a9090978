--------------------------- MODULE ConsoleSession ---------------------------
(***************************************************************************)
(* Signing in to the web console.  A browser has one cookie jar and one    *)
(* local storage for all its tabs; a tab keeps the role and the user it    *)
(* signed in with in memory, and a mark of a pending password change of    *)
(* its own.  The router decides from the local storage whether a page      *)
(* needs the login first, and from the memory whether the role may see it. *)
(*                                                                         *)
(* The server keeps no session: a cookie is good while its signature key,  *)
(* its age and the second of the last logout allow it.  An account that    *)
(* must change its password is answered 403 by everything else.            *)
(*                                                                         *)
(* One tab is modelled in full, with a badge poll and a call of the user   *)
(* under way at once; what the browser's other tabs and the other users    *)
(* of the server do to the state it shares with them is modelled too.      *)
(***************************************************************************)
EXTENDS Naturals, FiniteSets

CONSTANTS
  User,
  Admins,        \* the users whose role is admin; the others are auditors
  None,          \* no cookie, nobody signed in, nothing pending
  TTL,           \* lifetime of a session, in ticks
  MaxClock,      \* bound on the clock
  MaxRestart,    \* bound on the restarts of the server
  Anchored       \* KINGMOAT_ADMIN_HASH is set: the key survives a restart

ASSUME SessionAssumption ==
  /\ Admins \subseteq User /\ None \notin User
  /\ TTL \in Nat \ {0} /\ MaxClock \in Nat \ {0} /\ MaxRestart \in Nat
  /\ Anchored \in BOOLEAN

VARIABLES
  clock, invalidBefore, key,  \* the server: seconds, last logout, signature key
  must,     \* the accounts that must change their password
  jar,      \* the browser's session cookie
  store,    \* local storage: the user signed in, with its role
  mem,      \* what the tab has in memory of it
  pending,  \* session storage: whose password change is pending
  hash,     \* the address of the tab
  view,     \* the page it shows
  poll,     \* its badge request under way
  call      \* its other request under way

server == <<clock, invalidBefore, key, must>>
browser == <<jar, store>>
sessionVars == <<server, browser, mem, pending, hash, view, poll, call>>

Console == {"home", "users"}   \* "users" stands for the pages that ask a role
Page == Console \cup {"login", "change"}
Cookie == [user : User, iat : 1..MaxClock, key : 0..MaxRestart]
Quiet == [kind |-> "none", answer |-> "none", cookie |-> None]

SessionInit ==
  /\ clock = 1 /\ invalidBefore = 0 /\ key = 0
  /\ must \in SUBSET User
  /\ jar = None /\ store = None
  /\ mem = None /\ pending = None
  /\ hash = "login" /\ view = "login"
  /\ poll = "quiet" /\ call = Quiet

-----------------------------------------------------------------------------
(* The router.                                                             *)

\* router.beforeEach: where an address leads.
Guarded(to, who) ==
  CASE to = "login" -> "login"
    [] to # "login" /\ store = None -> "login"
    [] to = "users" /\ store # None -> IF who \in Admins THEN "users" ELSE "home"
    [] OTHER -> to

\* The address has changed, by a link, the user or the code: the guard runs
\* and the page is mounted.  The change page leaves at once without a mark.
Navigate ==
  /\ hash # view
  /\ LET to == Guarded(hash, mem) IN
       /\ view' = to
       /\ hash' = IF to = "change" /\ pending = None THEN "login" ELSE to
  /\ UNCHANGED <<server, browser, mem, pending, poll, call>>

\* The user follows a link or types an address.
Goto(to) ==
  /\ hash = view /\ to # view
  /\ hash' = to
  /\ UNCHANGED <<server, browser, mem, pending, view, poll, call>>

\* The tab is loaded again: memory comes from local storage, and requests
\* under way are dropped.
Refresh ==
  /\ hash = view
  /\ mem' = store
  /\ LET to == Guarded(hash, store) IN
       /\ view' = to
       /\ hash' = IF to = "change" /\ pending = None THEN "login" ELSE to
  /\ poll' = "quiet" /\ call' = Quiet
  /\ UNCHANGED <<server, browser, pending>>

-----------------------------------------------------------------------------
(* Requests.  A request is served with the cookie of the moment it is sent; *)
(* how long its answer travels is up to the network.                       *)

\* Mutant: a session issued in the second of the logout survives it.
AcceptedSameSecond(c) ==
  c # None /\ c.key = key /\ clock <= c.iat + TTL /\ c.iat >= invalidBefore
\* Auth.sessionIdentity.
Accepted(c) ==
  c # None /\ c.key = key /\ clock <= c.iat + TTL /\ c.iat > invalidBefore

\* What the middleware answers to a session; the change of one's own password
\* passes for an account that must change it.
Verdict(c, kind) ==
  CASE ~Accepted(c) -> "401"
    [] Accepted(c) /\ c.user \in must /\ kind = "poll" -> "403"
    [] OTHER -> "ok"

\* The layout of every console page loads the badge when it is mounted and
\* every 30 seconds.
Poll ==
  /\ view \in Console /\ poll = "quiet"
  /\ poll' = Verdict(jar, "poll")
  /\ UNCHANGED <<server, browser, mem, pending, hash, view, call>>

Ask(kind, answer, cookie) ==
  /\ call = Quiet
  /\ call' = [kind |-> kind, answer |-> answer, cookie |-> cookie]
  /\ UNCHANGED <<browser, mem, pending, hash, view, poll>>

\* A "message" is a call whose answer is only shown: a wrong password, or one
\* refused or changed in the account dialog.
\* handleLogin; the cookie travels back with the answer.
Login(u) ==
  /\ view = "login"
  /\ \/ Ask("message", "ok", None)
     \/ Ask("login", IF u \in must THEN "must" ELSE "ok",
            [user |-> u, iat |-> clock, key |-> key])
  /\ UNCHANGED server

\* handleLogout revokes every session the server issued, whoever asks.
Revoke == invalidBefore' = clock /\ UNCHANGED <<clock, key, must>>
Logout ==
  /\ view \in Console \cup {"change"}
  /\ \/ Ask("logout", "ok", None) /\ Revoke
     \/ Ask("logout", "lost", None) /\ (Revoke \/ UNCHANGED server)

\* handleMePassword, from the change page or from the account dialog; a wrong
\* old or a weak new password is refused.
ChangePassword ==
  /\ view # "login"
  /\ LET kind == IF view = "change" THEN "passwd" ELSE "mypw" IN
       \/ Verdict(jar, kind) = "401" /\ Ask(kind, "401", None) /\ UNCHANGED server
       \/ Ask("message", "ok", None) /\ UNCHANGED server
       \/ /\ Verdict(jar, kind) = "ok"
          /\ Ask(IF kind = "passwd" THEN kind ELSE "message", "ok", None)
          /\ must' = must \ {jar.user} /\ UNCHANGED <<clock, invalidBefore, key>>

-----------------------------------------------------------------------------
(* Answers.                                                                *)

\* Mutant: a 401 forgets the session and stays on the page.
SignedOutInPlace == mem' = None /\ store' = None /\ UNCHANGED hash
\* api(): a 401 forgets the session and goes to the login page.
SignedOut ==
  /\ mem' = None /\ store' = None
  /\ hash' = "login"

\* api(): a 403 of an account that must change its password leads to the
\* change page, with a mark of whose it is.
SentToChange ==
  IF hash = "change" THEN UNCHANGED <<pending, hash>>
  ELSE pending' = store /\ hash' = "change"

PollAnswered ==
  /\ poll # "quiet"
  /\ poll' = "quiet"
  /\ CASE poll = "401" -> SignedOut /\ UNCHANGED pending
       [] poll = "403" -> SentToChange /\ UNCHANGED <<mem, store>>
       [] OTHER -> UNCHANGED <<mem, store, pending, hash>>
  /\ UNCHANGED <<server, jar, view, call>>

\* A poll that fails on the way is silent.
PollLost ==
  /\ poll # "quiet"
  /\ poll' = "quiet"
  /\ UNCHANGED <<server, browser, mem, pending, hash, view, call>>

Done == call' = Quiet
Got(kinds, answers) == call.kind \in kinds /\ call.answer \in answers

\* doLogin: the browser keeps the cookie, the page the user.
LoginAnswered ==
  /\ Got({"login"}, {"ok", "must"}) /\ Done
  /\ jar' = call.cookie /\ store' = jar'.user
  /\ mem' = jar'.user
  /\ IF call.answer = "must"
     THEN /\ pending' = jar'.user
          /\ hash' = "change"
     ELSE hash' = "home" /\ UNCHANGED pending
  /\ UNCHANGED <<server, view, poll>>

\* A logout leaves for the login page whether or not it reached the server;
\* only an answer clears the cookie.
LogoutDone ==
  /\ Got({"logout"}, {"ok", "lost"}) /\ Done
  /\ jar' = IF call.answer = "ok" THEN None ELSE jar
  /\ SignedOut
  /\ pending' = IF view = "change" THEN None ELSE pending
  /\ UNCHANGED <<server, view, poll>>

\* doChange: once the password is changed the mark goes and a logout follows.
PasswordChanged ==
  /\ Got({"passwd"}, {"ok"})
  /\ pending' = None
  /\ call' = [call EXCEPT !.kind = "changed"]
  /\ Revoke
  /\ UNCHANGED <<browser, mem, hash, view, poll>>

\* That logout is answered: the session is forgotten here as well.
ChangedAnswered ==
  /\ Got({"changed"}, {"ok"}) /\ Done
  /\ jar' = None /\ SignedOut
  /\ UNCHANGED <<server, pending, view, poll>>

\* A password change with a dead session is a 401 like any other.
PasswordDenied ==
  /\ Got({"passwd", "mypw"}, {"401"}) /\ Done
  /\ SignedOut
  /\ UNCHANGED <<server, jar, pending, view, poll>>

\* Any other answer, and any answer lost, is a message on the page.
CallFailed ==
  /\ call # Quiet /\ call.kind # "logout" /\ Done
  /\ UNCHANGED <<server, browser, mem, pending, hash, view, poll>>

-----------------------------------------------------------------------------
(* The server's other events, and the other tabs.                          *)

Tick ==
  /\ clock < MaxClock /\ clock' = clock + 1
  /\ UNCHANGED <<invalidBefore, key, must, browser, mem, pending, hash, view, poll, call>>

\* The server starts again, with a new random key unless it is anchored.
Restart ==
  /\ key < MaxRestart
  /\ key' = IF Anchored THEN key ELSE key + 1
  /\ invalidBefore' = 0
  /\ UNCHANGED <<clock, must, browser, mem, pending, hash, view, poll, call>>

\* An administrator resets the password of an account (Users.vue).
ResetPassword(u) ==
  /\ u \notin must
  /\ must' = must \cup {u}
  /\ UNCHANGED <<clock, invalidBefore, key, browser, mem, pending, hash, view, poll, call>>

\* Another tab of the browser signs in.
OtherSignsIn(u) ==
  /\ jar' = [user |-> u, iat |-> clock, key |-> key] /\ store' = u
  /\ UNCHANGED <<server, mem, pending, hash, view, poll, call>>

\* Another tab logs out or is told that its session is gone.
OtherSignsOut ==
  /\ store' = None
  /\ (jar' = None /\ Revoke) \/ (jar' = jar /\ (Revoke \/ UNCHANGED server))
  /\ UNCHANGED <<mem, pending, hash, view, poll, call>>

Acts ==
  \/ \E to \in Page : Goto(to)
  \/ Refresh \/ Logout \/ ChangePassword
  \/ \E u \in User : Login(u)

Answered ==
  \/ PollAnswered \/ PollLost
  \/ LoginAnswered \/ LogoutDone \/ PasswordChanged \/ ChangedAnswered
  \/ PasswordDenied \/ CallFailed

SessionNext ==
  \/ Tick \/ Restart \/ OtherSignsOut
  \/ \E u \in User : ResetPassword(u) \/ OtherSignsIn(u)
  \/ Acts \/ Navigate \/ Poll \/ Answered

\* The router runs, the timer fires, and a badge request that is sent again
\* and again is sooner or later answered.
SessionFairness ==
  WF_sessionVars(Navigate) /\ WF_sessionVars(Poll) /\ SF_sessionVars(PollAnswered)

SessionSpec == SessionInit /\ [][SessionNext]_sessionVars /\ SessionFairness

-----------------------------------------------------------------------------
Asked == [kind : {"none", "login", "logout", "passwd", "mypw", "changed", "message"},
          answer : {"none", "ok", "must", "401", "lost"},
          cookie : Cookie \cup {None}]

\* Type correctness: a cookie that is kept was issued no later than now.
SessionTypeOK ==
  /\ clock \in 1..MaxClock /\ invalidBefore \in 0..clock /\ key \in 0..MaxRestart
  /\ must \in SUBSET User
  /\ jar \in {c \in Cookie : c.iat <= clock} \cup {None} /\ store \in User \cup {None}
  /\ mem \in User \cup {None} /\ pending \in User \cup {None}
  /\ hash \in Page /\ view \in Page
  /\ poll \in {"quiet", "ok", "401", "403"}
  /\ call \in Asked

Issued(c) == c.iat <= clock /\ c.key <= key

\* A logout ends every session issued so far, whoever asked for it, and a
\* session that is no longer accepted never is again: not by a later second,
\* and not by a restart of a server with a random key (api.go:88-90).
LogoutIsForGood ==
  [][\A c \in Cookie : Issued(c) =>
       /\ ~Accepted(c) => ~Accepted(c)'
       /\ invalidBefore' = clock => ~Accepted(c)']_sessionVars

\* What the browser holds opens the console.
Served == Accepted(jar) /\ jar.user \notin must

\* A tab that shows the console with a session that was revoked, has expired
\* or belongs to an account that must change its password leaves it, whatever
\* its other tabs and the network do (api.js:32-36, 45-50; Layout.vue:238-242).
DeadTabsLeave ==
  (view \in Console /\ ~Served) ~> (view \notin Console \/ Served)
=============================================================================
