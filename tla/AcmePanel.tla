------------------------------ MODULE AcmePanel ------------------------------
(***************************************************************************)
(* The certificate page's request for a certificate (Certs.vue) in front   *)
(* of the issuing service (certmgr/request.go).  The service keeps one     *)
(* task per domain and mode under way, a few at once, remembers the last   *)
(* tasks only, refuses a domain for a while after a failure and answers    *)
(* from its cache when it can.  The dialog submits a domain, polls the     *)
(* task and ends with a verdict or gives up at its deadline.               *)
(*                                                                         *)
(* A chain of polls is a call or a timer.  The page holds the handle of    *)
(* the last timer it set and nothing else, so stopping a chain stops its   *)
(* timer and not a call under way.  Calls are answered in one step and     *)
(* handled in another.                                                     *)
(***************************************************************************)
EXTENDS Naturals, FiniteSets

CONSTANTS
  Keys,       \* what a task is for: a domain in a mode
  MaxTask,    \* bound on the tasks
  Slots,      \* maxConcurrentIssues
  History,    \* maxRecentTasks
  MaxPoll,    \* the polls of a chain before its deadline
  MaxBoot,    \* bound on the restarts of the server
  SingleSubmit \* a request is submitted with the button, which is not there
              \* while one is under way, and not with the Enter key, which is

ASSUME AcmeAssumption ==
  /\ {MaxTask, Slots, History, MaxPoll} \subseteq Nat \ {0}
  /\ MaxBoot \in Nat /\ SingleSubmit \in BOOLEAN

Task == 1..MaxTask
Phases == {"form", "issuing", "success", "failed", "timeout"}

VARIABLES
  tasks,    \* the tasks by number: the key and the state
  cooling,  \* the keys in the cooldown of a failure
  cached,   \* the keys with a certificate that is not about to expire
  issued,   \* ghost: the tasks a certificate was obtained for
  boots,    \* restarts so far
  calls,    \* the page's calls and timers
  phase,    \* acmePhase
  shown,    \* acmeTask: its number, 0 for none
  open,     \* acmeDlg
  mounted   \* the page is open

server == <<tasks, cooling, cached, issued, boots>>
dialog == <<phase, shown, open>>
vars == <<server, calls, dialog, mounted>>

NoKey == "none"
Unused == [key |-> NoKey, st |-> "none"]
Wait == [is |-> "wait", id |-> 0]
Refused == [is |-> "error", id |-> 0]

\* A submission, a poll under way or the timer of the next one.
Submission(k) == [at |-> "post", key |-> k, id |-> 0, left |-> 0, held |-> FALSE, ans |-> Wait]
Poll(t, n) == [at |-> "poll", key |-> NoKey, id |-> t, left |-> n, held |-> FALSE, ans |-> Wait]
Chains == {c \in calls : c.at # "post"}

Init ==
  /\ tasks = [t \in Task |-> Unused] /\ cooling = {} /\ cached = {} /\ issued = {} /\ boots = 0
  /\ calls = {} /\ phase = "form" /\ shown = 0 /\ open = FALSE /\ mounted = TRUE

-----------------------------------------------------------------------------
(* The service.                                                            *)

Made == {t \in Task : tasks[t].st # "none"}
Busy == {t \in Task : tasks[t].st \in {"pending", "running"}}
Inflight(k) == {t \in Busy : tasks[t].key = k}
\* byID: the newest tasks of this process.
Known(t) == /\ tasks[t].st \notin {"none", "gone"}
            /\ Cardinality({s \in Made : s > t}) < History
Fresh(t) == tasks[t].st = "none" /\ \A s \in Task : s < t => tasks[s].st # "none"

\* addTaskLocked: a task of its own for k, in state st.
Added(k, st) ==
  {[ans |-> [is |-> st, id |-> t], ts |-> [tasks EXCEPT ![t] = [key |-> k, st |-> st]]] :
     t \in {t \in Task : Fresh(t)}}
\* Mutant: a request under way for the domain is not looked for.
RequestBeside(k) == Added(k, "pending")
\* Request: what a submission for k is answered, and the tasks after it.
Request(k) ==
  IF Inflight(k) # {}
  THEN {[ans |-> [is |-> tasks[t].st, id |-> t], ts |-> tasks] : t \in Inflight(k)}
  ELSE IF k \in cooling THEN {[ans |-> Refused, ts |-> tasks]}
  ELSE Added(k, IF k \in cached THEN "success" ELSE "pending")

Answers == [is : {"pending", "running", "success", "failed"}, id : Task] \cup {Refused}
Give(c, a) == calls' = (calls \ {c}) \cup {[c EXCEPT !.ans = a]}

\* POST /api/certs/acme/request.
ServeSubmit(c) ==
  /\ c.at = "post" /\ c.ans = Wait
  /\ \E r \in Request(c.key) : tasks' = r.ts /\ Give(c, r.ans)
  /\ UNCHANGED <<cooling, cached, issued, boots, dialog, mounted>>

\* GET /api/certs/acme/request: 404 for a task that is not remembered.
ServePoll(c) ==
  /\ c.at = "poll" /\ c.ans = Wait
  /\ Give(c, IF Known(c.id) THEN [is |-> tasks[c.id].st, id |-> c.id] ELSE Refused)
  /\ UNCHANGED <<server, dialog, mounted>>

\* A call is lost, or refused before it reaches the service.
LoseCall(c) ==
  /\ c.at # "timer" /\ c.ans = Wait /\ Give(c, Refused)
  /\ UNCHANGED <<server, dialog, mounted>>

\* Another administrator's request.
RequestElsewhere ==
  /\ \E k \in Keys : \E r \in Request(k) : tasks' = r.ts
  /\ UNCHANGED <<cooling, cached, issued, boots, calls, dialog, mounted>>

\* run: a task waits for one of the slots, issues, and ends.
RunTask(t) ==
  /\ tasks[t].st = "pending"
  /\ Cardinality({s \in Task : tasks[s].st = "running"}) < Slots
  /\ tasks' = [tasks EXCEPT ![t].st = "running"]
  /\ UNCHANGED <<cooling, cached, issued, boots, calls, dialog, mounted>>

\* issueFn: a certificate is obtained.  The manager writes it to its cache before
\* it returns, and the service does not look whether that succeeded.
Obtain(t) ==
  /\ tasks[t].st = "running" /\ t \notin issued
  /\ issued' = issued \cup {t}
  /\ cached' \in {cached, cached \cup {tasks[t].key}}
  /\ UNCHANGED <<tasks, cooling, boots, calls, dialog, mounted>>

\* The task ends: a certificate that was obtained is a success, cached or not.
EndTask(t) ==
  /\ tasks[t].st = "running"
  /\ \/ /\ t \in issued /\ tasks' = [tasks EXCEPT ![t].st = "success"]
        /\ UNCHANGED cooling
     \/ /\ tasks' = [tasks EXCEPT ![t].st = "failed"]
        /\ cooling' = cooling \cup {tasks[t].key}
  /\ UNCHANGED <<cached, issued, boots, calls, dialog, mounted>>

\* Ten minutes after a failure.
CooldownOver(k) ==
  /\ k \in cooling /\ cooling' = cooling \ {k}
  /\ UNCHANGED <<tasks, cached, issued, boots, calls, dialog, mounted>>

\* The process starts again: the tasks and the cooldowns were in its memory,
\* the certificates are on the disk.
Restart ==
  /\ boots < MaxBoot /\ boots' = boots + 1
  /\ tasks' = [t \in Task |-> IF t \in Made THEN [tasks[t] EXCEPT !.st = "gone"] ELSE Unused]
  /\ cooling' = {} /\ UNCHANGED <<cached, issued, calls, dialog, mounted>>

-----------------------------------------------------------------------------
(* The page.                                                               *)

\* stopAcmePoll clears the timer whose handle is held.
Stopped(cs) == {c \in cs : ~c.held}

\* Mutant: the dialog starts over although a request is being issued.
OpenAfresh == calls' = Stopped(calls) /\ phase' = "form" /\ shown' = 0
\* openAcmeRequest: a request being issued is shown again, else it starts over.
Reopened ==
  IF phase = "issuing" THEN UNCHANGED <<calls, phase, shown>>
  ELSE calls' = Stopped(calls) /\ phase' = "form" /\ shown' = 0

OpenRequest ==
  /\ mounted /\ ~open /\ open' = TRUE /\ Reopened
  /\ UNCHANGED <<server, mounted>>

\* The dialog is closed, or what it tracks goes on in the background.
Close == mounted /\ open /\ open' = FALSE /\ UNCHANGED <<server, calls, phase, shown, mounted>>

\* "Back", after a failure.
Back ==
  /\ mounted /\ open /\ phase = "failed" /\ phase' = "form"
  /\ UNCHANGED <<server, calls, shown, open, mounted>>

\* submitAcme: the domain passes acmeDomainError.
Submit(k) ==
  /\ mounted /\ open /\ phase = "form"
  /\ IF SingleSubmit THEN \A c \in calls : c.at # "post" ELSE Submission(k) \notin calls
  /\ calls' = calls \cup {Submission(k)}
  /\ UNCHANGED <<server, dialog, mounted>>

\* A certificate from the cache is a success; a task is polled, after the
\* chain before it is stopped; an error is only reported.
Submitted(c) ==
  /\ c.at = "post" /\ c.ans # Wait
  /\ CASE c.ans = Refused -> calls' = calls \ {c} /\ UNCHANGED <<phase, shown>>
       [] c.ans.is = "success" ->
            calls' = calls \ {c} /\ phase' = "success" /\ shown' = c.ans.id
       [] OTHER ->
            /\ calls' = Stopped(calls \ {c}) \cup {Poll(c.ans.id, MaxPoll)}
            /\ phase' = "issuing" /\ shown' = c.ans.id
  /\ UNCHANGED <<server, open, mounted>>

\* Mutant: a chain has no deadline.
AlwaysAgain(c) == c.left
\* The rounds left to a chain after this one.
LeftAfter(c) == c.left - 1

\* The next round is scheduled, and its timer is the one the page holds now.
NextRound(c) ==
  {[d EXCEPT !.held = FALSE] : d \in calls \ {c}}
    \cup {[Poll(c.id, LeftAfter(c)) EXCEPT !.at = "timer", !.held = TRUE]}

\* Mutant: a task that ended is a success.
EndIsSuccess(a) == IF a.is = "error" THEN "failed" ELSE "success"
\* What the end of a task, or an error, is called.
VerdictOf(a) == IF a.is = "success" THEN "success" ELSE "failed"

\* tick: the end of the task is the verdict, an error is a failure, and a task
\* under way is asked for again, unless two minutes are over.
Polled(c) ==
  /\ c.at = "poll" /\ c.ans # Wait /\ shown' = c.id
  /\ \/ /\ c.ans.is \in {"success", "failed", "error"}
        /\ phase' = VerdictOf(c.ans) /\ calls' = calls \ {c}
     \/ /\ c.ans.is \in {"pending", "running"}
        /\ phase' = "timeout" /\ calls' = calls \ {c}
     \/ /\ c.ans.is \in {"pending", "running"} /\ LeftAfter(c) > 0
        /\ calls' = NextRound(c) /\ UNCHANGED phase
  /\ UNCHANGED <<server, open, mounted>>

\* A timer goes off.
Tick(c) ==
  /\ c.at = "timer" /\ calls' = (calls \ {c}) \cup {Poll(c.id, c.left)}
  /\ UNCHANGED <<server, dialog, mounted>>

\* The page is left: what is under way goes on, and may set timers that nobody
\* clears any more.
Leave ==
  /\ mounted /\ mounted' = FALSE /\ calls' = Stopped(calls)
  /\ UNCHANGED <<server, dialog>>

-----------------------------------------------------------------------------
ChainStep == \E c \in Chains : ServePoll(c) \/ LoseCall(c) \/ Polled(c) \/ Tick(c)
PostStep == \E c \in calls \ Chains : ServeSubmit(c) \/ LoseCall(c) \/ Submitted(c)

Next ==
  \/ ChainStep \/ PostStep
  \/ RequestElsewhere \/ Restart
  \/ \E t \in Task : RunTask(t) \/ Obtain(t) \/ EndTask(t)
  \/ \E k \in Keys : CooldownOver(k) \/ Submit(k)
  \/ OpenRequest \/ Close \/ Back \/ Leave

\* Polls are answered or fail and their timers go off, the submission's too; no
\* issuing need ever end.
Fairness == WF_vars(ChainStep) /\ WF_vars(PostStep)

Spec == Init /\ [][Next]_vars /\ Fairness

-----------------------------------------------------------------------------
Call ==
  [at : {"post", "poll", "timer"}, key : Keys \cup {NoKey}, id : 0..MaxTask,
   left : 0..MaxPoll, held : BOOLEAN, ans : Answers \cup {Wait}]

TypeOK ==
  /\ tasks \in [Task -> [key : Keys \cup {NoKey},
                         st : {"none", "pending", "running", "success", "failed", "gone"}]]
  /\ \A t \in Task : tasks[t].st # "none" => tasks[t].key \in Keys
  /\ cooling \subseteq Keys /\ cached \subseteq Keys /\ issued \subseteq Made /\ boots \in 0..MaxBoot
  /\ calls \subseteq Call
  /\ \A c \in calls : c.at = "post" => c.key \in Keys
  /\ \A c \in calls : c.at # "post" => c.id \in Task
  /\ phase \in Phases /\ shown \in 0..MaxTask
  /\ open \in BOOLEAN /\ mounted \in BOOLEAN

\* However many administrators ask, and however often the process starts again
\* or a failure cools down, a domain never has two issuings under way, which
\* would spend its quota twice (certmgr/request.go:246-247).
OneIssuing ==
  /\ \A k \in Keys : Cardinality(Inflight(k)) <= 1
  /\ Cardinality({t \in Task : tasks[t].st = "running"}) <= Slots

\* While a request is shown as being issued it is followed by exactly one chain
\* of polls, of the task that is shown; otherwise by none, so that no old chain
\* can turn the dialog's page later (Certs.vue:399-411, 445-478).
ShownIsFollowedOnce ==
  mounted => IF phase = "issuing"
             THEN \E c \in Chains : Chains = {c} /\ c.id = shown
             ELSE Chains = {}

\* The dialog calls a request a success only if a certificate was obtained for
\* what the task on display is for, by that task or by the one that filled the
\* cache, whatever was lost, answered late, restarted or asked by others since
\* (Certs.vue:431-434, 456-460; certmgr/request.go:262-280, 340-365).
SuccessWasIssued ==
  phase = "success" => shown # 0 /\ \E t \in issued : tasks[t].key = tasks[shown].key

\* A request is not shown as being issued for ever, whatever the service does,
\* and a page that was left stops asking (Certs.vue:445-446).
IssuingEnds ==
  /\ phase = "issuing" ~> phase # "issuing" \/ ~mounted
  /\ ~mounted ~> calls = {}
==============================================================================
