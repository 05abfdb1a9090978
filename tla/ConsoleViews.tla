---------------------------- MODULE ConsoleViews ----------------------------
(***************************************************************************)
(* The pages of the console that show what the server has: the attack and  *)
(* access logs, the dashboard, risks, assets, users and certificates, and  *)
(* the chat with the assistant, in one tab.  Every list is loaded when its *)
(* page opens, when its filter changes and after an action on one of its   *)
(* rows, and most are loaded again by an interval.  No load looks whether  *)
(* a later one was answered before it: the last answer to arrive is shown. *)
(* A page that is left forgets everything but the question that the log    *)
(* page hands to the chat through the tab's storage.                       *)
(*                                                                         *)
(* What the server has is a version, what a filter asks for is one of two  *)
(* queries and a page number.  A conversation of the chat is the number of *)
(* its session, or 0 while it has none.                                    *)
(***************************************************************************)
EXTENDS Naturals, FiniteSets

CONSTANTS
  MaxVer,     \* bound on the versions of the server's data
  MaxStep,    \* bound on what the user does and what is lost
  MaxCalls,   \* bound on the calls of a list under way at once
  MaxSession, \* bound on the sessions of the chat
  CalmChat    \* the user lets an answer, a history or a deletion of the chat
              \* arrive before doing anything else there, and a history that
              \* is picked arrives

ASSUME ViewsAssumption ==
  /\ {MaxVer, MaxCalls, MaxSession} \subseteq Nat \ {0} /\ MaxStep \in Nat
  /\ CalmChat \in BOOLEAN

Pages == {"logs", "access", "dash", "risks", "assets", "users", "certs", "ai"}

VARIABLES
  ver,     \* the version of the data on the server
  steps,   \* how much the user has done and how much was lost
  page,    \* the page that is open
  want,    \* what its controls ask for
  due,     \* the debounce timer of its filter is set
  calls,   \* the loads and actions under way
  shown,   \* the query and the version of what each list shows
  made,    \* the sessions of the chat there have been
  sess,    \* those the server knows
  chat,    \* the chat page
  dead,    \* chat pages that were left before they had started
  seed,    \* the question stored by the log page (the step it was asked at), or 0
  asked    \* ghost: how often each question was sent

lists == <<want, due, calls, shown>>
talk == <<made, sess, chat, dead, seed, asked>>
vars == <<ver, steps, page, lists, talk>>

-----------------------------------------------------------------------------
(* The lists of each page.                                                 *)

LogLists == {"logs"}
AccessLists == {"access"}
\* The statistics, with the recent events that are loaded when they are there;
\* the origins, which are loaded with the days and by no interval, are left out.
DashLists == {"stats", "trend"}
RiskLists == {"risks"}
AssetLists == {"assets"}
UserLists == {"users"}
CertLists == {"uploads", "entries"}

ListsOf(p) ==
  CASE p = "logs" -> LogLists [] p = "access" -> AccessLists
    [] p = "dash" -> DashLists [] p = "risks" -> RiskLists
    [] p = "assets" -> AssetLists [] p = "users" -> UserLists
    [] p = "certs" -> CertLists [] p = "ai" -> {}
Lists == UNION {ListsOf(p) : p \in Pages}

\* Mutant: the dashboard's statistics are not loaded again.
OnIntervalButStats == {"logs", "access", "trend", "risks", "assets", "uploads", "entries"}
\* The lists an interval loads again: all but the users, which are loaded once
\* and after what is done to them.
OnInterval == {"logs", "access", "stats", "trend", "risks", "assets", "uploads", "entries"}
\* Those that a filter or a number of days selects.
Filtered == {"logs", "access", "stats"}
\* Those that a load that failed empties.
Emptied == {"uploads", "entries"}

First == [f |-> 0, p |-> 1]
Nothing == [q |-> First, ver |-> 0]
Query(l, w) == IF l = "logs" THEN w
               ELSE IF l \in Filtered THEN [w EXCEPT !.p = 1] ELSE First
Load(l, w) == [l |-> l, q |-> Query(l, w), ver |-> 0]
\* What is done to the rows of a page, each a call that changes the data.
Deeds == {"whitelist", "scan", "status", "ignore", "save", "remove", "key", "revoke",
          "confirm", "unmfa", "uncert", "upload", "sign"}
Action(k) == [l |-> k, q |-> First, ver |-> 0]
CallsOf(l) == {c \in calls : c.l = l}
Loads(ls, w) == {Load(l, w) : l \in ls}
Spent == steps < MaxStep /\ steps' = steps + 1

\* The chat page before, while and after it starts.
NoChat == [at |-> "off", enabled |-> TRUE, first |-> 0, active |-> 0, msgs |-> 0,
           picked |-> {}, del |-> 0, on |-> FALSE, to |-> 0]
NewChat == [NoChat EXCEPT !.at = "config"]

Init ==
  /\ ver = 1 /\ steps = 0 /\ page = "logs"
  /\ want = First /\ due = FALSE /\ calls = Loads({"logs"}, First)
  /\ shown = [l \in Lists |-> Nothing]
  /\ made = 1 /\ sess = {1} /\ chat = NoChat /\ dead = 0 /\ seed = 0
  /\ asked = [n \in 1..MaxStep |-> 0]

-----------------------------------------------------------------------------
(* Loading.                                                                *)

\* The server's data change by themselves.
Change == /\ ver < MaxVer /\ ver' = ver + 1
          /\ UNCHANGED <<steps, page, lists, talk>>

\* A load is answered with what there is; an action is done.
Serve(c) ==
  /\ c.ver = 0
  /\ ver' = IF c.l \in Deeds /\ ver < MaxVer THEN ver + 1 ELSE ver
  /\ calls' = (calls \ {c}) \cup {[c EXCEPT !.ver = ver']}
  /\ UNCHANGED <<steps, page, want, due, shown, talk>>

\* An answer is shown, whatever was shown or asked for since, and an action
\* that is done loads its page's list.
Arrive(c) ==
  /\ c.ver # 0
  /\ IF c.l \in Deeds
     THEN calls' = (calls \ {c}) \cup Loads(ListsOf(page) \ {"entries"}, want) /\ UNCHANGED shown
     ELSE /\ shown' = [shown EXCEPT ![c.l] = [q |-> c.q, ver |-> c.ver]]
          /\ calls' = calls \ {c}
  /\ UNCHANGED <<ver, steps, page, want, due, talk>>

\* A load or an action fails.
Lose(c) ==
  /\ Spent /\ calls' = calls \ {c}
  /\ shown' = IF c.l \in Emptied THEN [shown EXCEPT ![c.l] = Nothing] ELSE shown
  /\ UNCHANGED <<ver, page, want, due, talk>>

\* The interval of a list goes off.
Interval(l) ==
  /\ l \in ListsOf(page) \cap OnInterval /\ Cardinality(CallsOf(l)) < MaxCalls
  /\ calls' = calls \cup {Load(l, want)}
  /\ UNCHANGED <<ver, steps, page, want, due, shown, talk>>

\* The logs' filter is typed: the first page is asked for when the typing stops.
FilterLogs(f) ==
  /\ page = "logs" /\ f # want.f /\ Spent
  /\ want' = [f |-> f, p |-> 1] /\ due' = TRUE
  /\ UNCHANGED <<ver, page, calls, shown, talk>>

\* The typing has stopped for 0.4 seconds.
Debounced ==
  /\ due /\ due' = FALSE /\ calls' = calls \cup Loads(ListsOf(page), want)
  /\ UNCHANGED <<ver, steps, page, want, shown, talk>>

\* The logs' page is turned.
TurnPage ==
  /\ page = "logs" /\ Spent
  /\ want' = [want EXCEPT !.p = 3 - @] /\ calls' = calls \cup {Load("logs", want')}
  /\ UNCHANGED <<ver, page, due, shown, talk>>

\* The outcome of the access log, or the days of the dashboard, load at once;
\* the dashboard's trend does not depend on them.
Select(f) ==
  /\ page \in {"access", "dash"} /\ f # want.f /\ Spent
  /\ want' = [want EXCEPT !.f = f]
  /\ calls' = calls \cup Loads(ListsOf(page) \cap Filtered, want')
  /\ UNCHANGED <<ver, page, due, shown, talk>>

\* Something is done on a page, one thing at a time: a bound, for only the
\* buttons of a whitelist rule, a scan, an upload and a signature wait.
Does(p, k) ==
  /\ page = p /\ (\A d \in Deeds : CallsOf(d) = {}) /\ Spent
  /\ calls' = calls \cup {Action(k)}
  /\ UNCHANGED <<ver, page, want, due, shown, talk>>

\* A rule that lets the logged path pass is published.
SaveWhitelist == Does("logs", "whitelist")
\* The risks are looked for again, or one is settled.
Scan == Does("risks", "scan")
SetStatus == Does("risks", "status")
\* An asset is ignored.
Ignore == Does("assets", "ignore")
\* An account is created or changed, or removed.
SaveUser == Does("users", "save")
RemoveUser == Does("users", "remove")
\* An account's key is made anew or revoked, its second factor confirmed or taken.
GenApiKey == Does("users", "key")
RevokeApiKey == Does("users", "revoke")
MfaConfirm == Does("users", "confirm")
MfaDisable == Does("users", "unmfa")
\* A certificate is removed, uploaded, or signed by the local authority.
RemoveCert == Does("certs", "uncert")
Upload == Does("certs", "upload")
SignCert == Does("certs", "sign")
RowStep == \/ SaveWhitelist \/ Scan \/ SetStatus \/ Ignore
           \/ SaveUser \/ RemoveUser \/ GenApiKey \/ RevokeApiKey \/ MfaConfirm \/ MfaDisable
           \/ RemoveCert \/ Upload \/ SignCert

-----------------------------------------------------------------------------
(* The chat.                                                               *)

\* The session of a question whose page is gone.
Orphaned == /\ made' = IF made < MaxSession THEN made + 1 ELSE made
            /\ sess' = IF made < MaxSession THEN sess \cup {made'} ELSE sess

\* A page opens: its lists are loaded or the chat starts.  A chat page that had
\* not yet started goes on without its place, and so does an answer.
Open(p, f) ==
  /\ page' = p
  /\ want' = [f |-> f, p |-> 1] /\ due' = (f # 0)
  /\ calls' = Loads(ListsOf(p), want') /\ shown' = [l \in Lists |-> Nothing]
  /\ chat' = IF p = "ai" THEN NewChat ELSE NoChat
  /\ dead' = IF chat.at \in {"off", "ready"} THEN dead ELSE dead + 1
  /\ IF chat.on /\ chat.to = 0 THEN Orphaned ELSE UNCHANGED <<made, sess>>

\* The menu, or from a risk to the logs of its site.
Go(p) ==
  /\ p # page /\ Spent
  /\ \/ Open(p, 0)
     \/ page = "risks" /\ p = "logs" /\ Open(p, 1)
  /\ UNCHANGED <<ver, seed, asked>>

\* askAI: the question is left in the tab's storage.
AskAI ==
  /\ page = "logs" /\ Spent /\ Open("ai", 0) /\ seed' = steps'
  /\ UNCHANGED <<ver, asked>>

\* Nothing of the chat is on its way.
Still == chat.at = "ready" /\ chat.picked = {} /\ chat.del = 0 /\ ~chat.on
ChatOnly == UNCHANGED <<ver, page, lists, dead>>
Free == UNCHANGED steps

\* The configuration arrives, or fails, which is as good as disabled.
ConfigArrives ==
  /\ chat.at = "config"
  /\ \E e \in BOOLEAN : chat' = [chat EXCEPT !.at = "list", !.enabled = e]
  /\ Free /\ ChatOnly /\ UNCHANGED <<made, sess, seed, asked>>

\* send: the question goes to the active session, or opens a new one.
Sent(c) == IF c.on THEN c ELSE [c EXCEPT !.on = TRUE, !.to = c.active]

\* Mutant: the question stays in the storage.
SeedKept(c) == /\ asked' = [asked EXCEPT ![seed] = IF c.on THEN @ ELSE @ + 1]
               /\ UNCHANGED seed
\* The question is taken out of the storage and sent.
SeedTaken(c) == /\ asked' = [asked EXCEPT ![seed] = IF c.on THEN @ ELSE @ + 1]
                /\ seed' = 0

\* The chat has started: a question that waits is sent, if it may be.
Started(c) ==
  IF seed # 0 /\ c.enabled
  THEN SeedTaken(c) /\ chat' = Sent([c EXCEPT !.at = "ready"])
  ELSE chat' = [c EXCEPT !.at = "ready"] /\ UNCHANGED <<seed, asked>>

\* The sessions arrive: the history of the latest is loaded, if there is one.
SessionsArrive ==
  /\ chat.at = "list"
  /\ \/ Started(chat)
     \/ \E s \in sess :
          chat' = [chat EXCEPT !.at = "history", !.first = s] /\ UNCHANGED <<seed, asked>>
  /\ Free /\ ChatOnly /\ UNCHANGED <<made, sess>>

\* A history is shown and its session is the active one.
WithHistory(c, s) == [c EXCEPT !.msgs = s, !.active = s]
FirstHistory ==
  /\ chat.at = "history"
  /\ \/ Started(WithHistory(chat, chat.first))
     \/ Spent /\ Started(chat)
  /\ (steps' = steps \/ Spent) /\ ChatOnly /\ UNCHANGED <<made, sess>>

\* A page that was left before it had started takes the question along.
DeadStarts ==
  /\ dead > 0 /\ dead' = dead - 1
  /\ \/ seed # 0 /\ SeedTaken(NoChat) /\ (Orphaned \/ UNCHANGED <<made, sess>>)
     \/ UNCHANGED <<seed, asked, made, sess>>
  /\ UNCHANGED <<ver, steps, page, lists, chat>>

MayTouch == page = "ai" /\ (CalmChat => Still) /\ Spent

\* A session is picked, which makes it the active one before its history is
\* there, or none is, or a new one is begun.
Pick(s) ==
  /\ MayTouch /\ s \in sess /\ s # chat.active
  /\ chat' = [chat EXCEPT !.active = s, !.picked = @ \cup {s}]
  /\ ChatOnly /\ UNCHANGED <<made, sess, seed, asked>>

\* Mutant: the conversation before stays on the page.
OnlyInactive(c) == [c EXCEPT !.active = 0]
\* newSession, and what a deletion leaves: no session and no messages.
Cleared(c) == [c EXCEPT !.active = 0, !.msgs = 0]

NewSession ==
  /\ MayTouch /\ chat' = Cleared(chat)
  /\ ChatOnly /\ UNCHANGED <<made, sess, seed, asked>>

PickedArrives(s) ==
  /\ s \in chat.picked
  /\ \/ chat' = WithHistory([chat EXCEPT !.picked = @ \ {s}], s) /\ Free
     \/ ~CalmChat /\ Spent /\ chat' = [chat EXCEPT !.picked = @ \ {s}]
  /\ ChatOnly /\ UNCHANGED <<made, sess, seed, asked>>

Delete ==
  /\ MayTouch /\ chat.active # 0 /\ chat.del = 0
  /\ chat' = [chat EXCEPT !.del = chat.active] /\ sess' = sess \ {chat.active}
  /\ ChatOnly /\ UNCHANGED <<made, seed, asked>>

Deleted ==
  /\ chat.del # 0 /\ Free
  /\ chat' = [Cleared(chat) EXCEPT !.del = 0]
  /\ ChatOnly /\ UNCHANGED <<made, sess, seed, asked>>

Send ==
  /\ MayTouch /\ chat.enabled /\ ~chat.on /\ chat' = Sent(chat)
  /\ ChatOnly /\ UNCHANGED <<made, sess, seed, asked>>

\* The stream ends: its last frame names the session, which the server has made
\* if the question named none; a stream that breaks names nothing.
StreamEnds ==
  /\ chat.on
  /\ \E n \in IF chat.to # 0 THEN {chat.to} ELSE {made + 1} \cap 1..MaxSession :
       /\ sess' = sess \cup {n} /\ made' = IF n > made THEN n ELSE made
       /\ \/ /\ Free
             /\ chat' = [chat EXCEPT !.on = FALSE, !.active = n,
                                     !.msgs = IF @ = chat.to THEN n ELSE @]
          \/ Spent /\ chat' = [chat EXCEPT !.on = FALSE]
  /\ ChatOnly /\ UNCHANGED <<seed, asked>>

-----------------------------------------------------------------------------
ServeOne(ls) == \E l \in ls : \E c \in CallsOf(l) : Serve(c)
ArriveOne(ls) == \E l \in ls : \E c \in CallsOf(l) : Arrive(c)
ReloadOne(ls) == \E l \in ls : Interval(l)
ListStep == \/ \E c \in calls : Serve(c) \/ Arrive(c) \/ Lose(c)
            \/ \E l \in Lists : Interval(l)
ChatStep ==
  \/ ConfigArrives \/ SessionsArrive \/ FirstHistory \/ DeadStarts
  \/ NewSession \/ Delete \/ Deleted \/ Send \/ StreamEnds
  \/ \E s \in 1..MaxSession : Pick(s) \/ PickedArrives(s)

Next ==
  \/ ListStep \/ ChatStep \/ Change \/ Debounced \/ TurnPage \/ RowStep \/ AskAI
  \/ \E f \in 0..1 : FilterLogs(f) \/ Select(f)
  \/ \E p \in Pages : Go(p)

\* The lists of one page each, so that one of every group is open at a time.
MainLists == {"logs", "access", "stats", "risks", "assets", "uploads"}
SideLists == {"trend", "entries"}

\* Calls are answered or fail and intervals go off; the user may stop.
Fairness ==
  /\ WF_vars(ServeOne(MainLists)) /\ WF_vars(ServeOne(SideLists))
  /\ WF_vars(ArriveOne(MainLists)) /\ WF_vars(ArriveOne(SideLists))
  /\ WF_vars(ReloadOne(MainLists)) /\ WF_vars(ReloadOne(SideLists))
  /\ WF_vars(ServeOne(Deeds)) /\ WF_vars(ArriveOne(Deeds)) /\ WF_vars(Debounced)

Spec == Init /\ [][Next]_vars /\ Fairness

-----------------------------------------------------------------------------
Queries == [f : 0..1, p : 1..2]
Calls == [l : Lists \cup Deeds, q : Queries, ver : 0..MaxVer]
Chats == [at : {"off", "config", "list", "history", "ready"}, enabled : BOOLEAN, first : 0..MaxSession,
          active : 0..MaxSession, msgs : 0..MaxSession, picked : SUBSET (1..MaxSession),
          del : 0..MaxSession, on : BOOLEAN, to : 0..MaxSession]

TypeOK ==
  /\ ver \in 1..MaxVer /\ steps \in 0..MaxStep /\ page \in Pages
  /\ want \in Queries /\ due \in BOOLEAN /\ calls \subseteq Calls
  /\ shown \in [Lists -> [q : Queries, ver : 0..MaxVer]]
  /\ made \in 1..MaxSession /\ sess \subseteq 1..made /\ dead \in Nat
  /\ seed \in 0..MaxStep /\ asked \in [1..MaxStep -> Nat] /\ chat \in Chats

\* Once the user stops and the data rest, every list of the open page that an
\* interval loads shows what its controls ask for as the server has it, whatever
\* answers overtook each other, were lost, or came after the filter had changed
\* (Logs.vue:196-204, 233-237, 260; Dashboard.vue:306-331, 402-403).
Follows(l) == shown[l] = [q |-> Query(l, want), ver |-> ver]
ViewsCatchUp == <>[](\A l \in ListsOf(page) \cap (MainLists \cup SideLists) : Follows(l))

\* While nothing is on its way, the conversation on the page is the one of the
\* session the next question goes to (AIChat.vue:148-172, 255-279).
ChatShowsItsSession == page = "ai" /\ Still => chat.msgs = chat.active

\* A question handed over by the log page is sent at most once, however many
\* chat pages were opened and left before they had started (AIChat.vue:223-229).
SeedAskedOnce == \A n \in 1..MaxStep : asked[n] <= 1
=============================================================================
