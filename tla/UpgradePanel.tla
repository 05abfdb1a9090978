---------------------------- MODULE UpgradePanel ----------------------------
(***************************************************************************)
(* The upgrade and restart cards of the settings page (Settings.vue) in    *)
(* front of a server that dies and comes back.  The upgrade card attaches  *)
(* to a task and polls it until it can give a verdict: from the task while *)
(* the process that runs it lives, from the version the server answers     *)
(* with once that process is gone, and from a silence that lasts too long. *)
(* A chain of polls is a timer or a call; whatever attaches to a task      *)
(* starts a new chain and counts the generation up, which is kept as one   *)
(* bit: a chain is live while its generation is the panel's, and a dead    *)
(* one drops what it is answered.  The restart card probes the server      *)
(* until it has seen it fail and answer again.                             *)
(*                                                                         *)
(* A call is answered by the server in one step and by the page in         *)
(* another, so every answer may be old when it arrives.  Of a task's       *)
(* progress only its outcome is kept (module Upgrade has the stages).      *)
(***************************************************************************)
EXTENDS Naturals, FiniteSets

CONSTANTS
  MaxTask,   \* bound on the upgrade tasks
  MaxBoot,   \* bound on the deaths of the server
  MaxCalls,  \* bound on the calls under way at once
  MaxLost,   \* failed rounds after which silence has lasted too long
  MaxProbe,  \* probes of the restart card before its deadline
  OneCard    \* bound: the restart card is used while no task was shown, the
             \* upgrade card while no restart was asked for

ASSUME PanelAssumption ==
  /\ {MaxTask, MaxBoot, MaxCalls, MaxProbe} \subseteq Nat \ {0}
  /\ MaxLost \in Nat /\ OneCard \in BOOLEAN

Old == 1
New == 2
Task == 1..MaxTask
States == {"none", "running", "success", "failed", "gone"}

VARIABLES
  st,      \* the tasks as the server knows them
  up,      \* the server answers
  boots,   \* how often it has died
  ver,     \* the version it runs
  took,    \* ghost: a task has succeeded, or the new version has run
  calls,   \* the panel's calls
  timers,  \* the tasks the timer of the live chain is set for
  shown,   \* upgTask: the task on the card, None or a record
  lost,    \* failed rounds since the last contact
  mounted, \* the settings page is open
  rst,     \* the restart card: what it waits for
  verdict  \* the restart card's message

server == <<st, up, boots, ver, took>>
panel == <<calls, timers, shown, lost, mounted>>
card == <<rst, verdict>>
vars == <<server, panel, card>>

None == [id |-> 0, state |-> "none"]
Wait == [is |-> "wait", id |-> 0, ver |-> 0]
Lost == [is |-> "lost", id |-> 0, ver |-> 0]
Call(kind, t) == [kind |-> kind, live |-> kind = "poll", id |-> t, ans |-> Wait]
Active == shown.state = "running"
Running == {t \in Task : st[t] = "running"}
RunningId == IF Running = {} THEN 0 ELSE CHOOSE t \in Running : TRUE
\* The ghosts died and doubt say what has happened since the restart was asked
\* for: a death of the process, or something else that a probe takes for one.
Quiet == [at |-> "idle", saw |-> FALSE, held |-> FALSE, left |-> 0,
          died |-> FALSE, doubt |-> FALSE]

Init ==
  /\ st = [t \in Task |-> "none"] /\ up = TRUE /\ boots = 0 /\ ver = Old
  /\ took = FALSE
  /\ calls = {Call("load", 0)} /\ timers = {} /\ shown = None
  /\ lost = 0 /\ mounted = TRUE
  /\ rst = Quiet /\ verdict = "none"

-----------------------------------------------------------------------------
(* The server.                                                             *)

\* Start: one task at a time; after a failure the cooldown refuses more.
Started(t) ==
  /\ up /\ Running = {} /\ st[t] = "none"
  /\ \A s \in Task : s < t => st[s] # "none"
  /\ st' = [st EXCEPT ![t] = "running"]

\* Another administrator starts one.
StartElsewhere(t) ==
  /\ Started(t) /\ UNCHANGED <<up, boots, ver, took, panel, card>>

\* A success means that the binaries are replaced and a restart is submitted.
Finish(t) ==
  /\ up /\ st[t] = "running"
  /\ \/ st' = [st EXCEPT ![t] = "success"] /\ took' = TRUE
     \/ st' = [st EXCEPT ![t] = "failed"] /\ UNCHANGED took
  /\ UNCHANGED <<up, boots, ver, panel, card>>

\* The process dies: a restart of an upgrade, one of the restart API whose
\* delay is over and which no task cancelled, somebody's systemctl, a crash.
\* Its tasks were in its memory.
Die ==
  /\ up /\ boots < MaxBoot
  /\ up' = FALSE /\ boots' = boots + 1
  /\ st' = [t \in Task |-> IF st[t] = "none" THEN "none" ELSE "gone"]
  /\ rst' = [rst EXCEPT !.died = rst.at # "idle" \/ @]
  /\ UNCHANGED <<ver, took, panel, verdict>>

\* It comes back, on the new version only if a replacement got that far; the
\* net may have put the old one back.
Boot ==
  /\ ~up /\ up' = TRUE
  /\ \/ UNCHANGED <<ver, took>>
     \/ \E t \in Task : st[t] = "gone" /\ ver' = New /\ took' = TRUE
     \/ ver' = Old /\ UNCHANGED took
  /\ UNCHANGED <<st, boots, panel, card>>

-----------------------------------------------------------------------------
(* Calls.                                                                  *)

Answer(c, a) == calls' = (calls \ {c}) \cup {[c EXCEPT !.ans = a]}

\* A call is lost, or finds the server down, or a session that is over.
LoseCall(c) ==
  /\ c.ans = Wait /\ Answer(c, Lost)
  /\ rst' = [rst EXCEPT !.doubt = @ \/ (c.kind = "probe" /\ up)]
  /\ UNCHANGED <<server, timers, shown, lost, mounted, verdict>>

\* GET /api/upgrade/status: the running task and the version.
ServeStatus(c) ==
  /\ c.ans = Wait /\ c.kind \in {"load", "judge"} /\ up
  /\ Answer(c, [is |-> "status", id |-> RunningId, ver |-> ver])
  /\ UNCHANGED <<server, timers, shown, lost, mounted, card>>

\* GET /api/upgrade/task: a task of this process, or 404.
ServeTask(c) ==
  /\ c.ans = Wait /\ c.kind = "poll" /\ up
  /\ IF st[c.id] \in {"running", "success", "failed"}
     THEN Answer(c, [is |-> st[c.id], id |-> c.id, ver |-> 0])
     ELSE Answer(c, Lost)
  /\ UNCHANGED <<server, timers, shown, lost, mounted, card>>

\* POST /api/upgrade/start: 409 while a task runs, else a new task; a task that
\* starts between the two looks is answered as if it were the caller's.
ServeStart(c) ==
  /\ c.ans = Wait /\ c.kind = "start" /\ up
  /\ \/ /\ Running # {}
        /\ Answer(c, [is |-> "busy", id |-> 0, ver |-> 0]) /\ UNCHANGED st
     \/ \E t \in Running :
          Answer(c, [is |-> "started", id |-> t, ver |-> 0]) /\ UNCHANGED st
     \/ \E t \in Task :
          Started(t) /\ Answer(c, [is |-> "started", id |-> t, ver |-> 0])
  /\ UNCHANGED <<up, boots, ver, took, timers, shown, lost, mounted, card>>

\* POST /api/system/restart: refused while a task runs.
ServeRestart(c) ==
  /\ c.ans = Wait /\ c.kind = "restart" /\ up /\ Running = {}
  /\ Answer(c, [is |-> "restarting", id |-> 0, ver |-> 0])
  /\ UNCHANGED <<server, timers, shown, lost, mounted, card>>

\* GET /api/status.  A process whose session key is new denies the old session,
\* and any process one that ran out, was left in another tab or was revoked.
ServeProbe(c) ==
  /\ c.ans = Wait /\ c.kind = "probe" /\ up
  /\ \/ Answer(c, [is |-> "alive", id |-> 0, ver |-> 0]) /\ UNCHANGED rst
     \/ /\ Answer(c, [is |-> "denied", id |-> 0, ver |-> 0])
        /\ rst' = [rst EXCEPT !.doubt = @ \/ ~rst.died]
  /\ UNCHANGED <<server, timers, shown, lost, mounted, verdict>>

-----------------------------------------------------------------------------
(* The upgrade card.                                                       *)

\* Mutant: the timer is cleared, the calls under way are not disowned.
TimerCleared(cs) == cs
\* stopUpgradePoll: the calls under way belong to an older generation now.
Stopped(cs) == {[c EXCEPT !.live = FALSE] : c \in cs}

\* pollUpgradeTask: the old chain is stopped and a new one polls at once.
Attach(c, t) ==
  /\ timers' = {} /\ lost' = 0
  /\ calls' = Stopped(calls \ {c}) \cup {Call("poll", t)}

\* An answer that changes nothing but the call.
Drop(c) == calls' = calls \ {c} /\ UNCHANGED <<timers, lost>>

\* loadUpgradeStatus: a running task is attached to unless one is shown.
Loaded(c) ==
  /\ c.kind = "load" /\ c.ans # Wait
  /\ IF c.ans.is = "status" /\ c.ans.id # 0 /\ shown = None
     THEN /\ shown' = [id |-> c.ans.id, state |-> "running"]
          /\ Attach(c, c.ans.id)
     ELSE Drop(c) /\ UNCHANGED shown
  /\ UNCHANGED <<server, mounted, card>>

\* "Upgrade now", confirmed.  The button is there while no task is active.
ConfirmUpgrade ==
  /\ mounted /\ ~Active /\ Cardinality(calls) < MaxCalls
  /\ OneCard => rst.at = "idle" /\ verdict = "none"
  /\ calls' = calls \cup {Call("start", 0)}
  /\ UNCHANGED <<server, timers, shown, lost, mounted, card>>

\* The new task is shown and polled; a 409 forgets what is shown and loads
\* the status; any other error is only reported.
StartAnswered(c) ==
  /\ c.kind = "start" /\ c.ans # Wait
  /\ CASE c.ans.is = "started" ->
            /\ shown' = [id |-> c.ans.id, state |-> "running"]
            /\ Attach(c, c.ans.id)
       [] c.ans.is = "busy" ->
            /\ shown' = None /\ UNCHANGED <<timers, lost>>
            /\ calls' = (calls \ {c}) \cup {Call("load", 0)}
       [] OTHER -> Drop(c) /\ UNCHANGED shown
  /\ UNCHANGED <<server, mounted, card>>

\* A timer goes off and the task is asked for.
Tick(t) ==
  /\ t \in timers /\ timers' = timers \ {t}
  /\ calls' = calls \cup {Call("poll", t)}
  /\ UNCHANGED <<server, shown, lost, mounted, card>>

Schedule(c) == calls' = calls \ {c} /\ timers' = timers \cup {c.id}
Verdict(s) == shown' = [shown EXCEPT !.state = s]

\* The chain's task is answered: its end is the verdict, its progress is
\* shown; an error is judged by the status.
PollAnswered(c) ==
  /\ c.kind = "poll" /\ c.ans # Wait
  /\ IF ~c.live THEN Drop(c) /\ UNCHANGED shown
     ELSE CASE c.ans = Lost ->
                 /\ calls' = (calls \ {c}) \cup {[c EXCEPT !.kind = "judge", !.ans = Wait]}
                 /\ UNCHANGED <<timers, lost, shown>>
            [] c.ans.is = "running" ->
                 /\ shown' = [id |-> c.id, state |-> "running"]
                 /\ Schedule(c) /\ lost' = 0
            [] OTHER ->
                 /\ shown' = [id |-> c.id, state |-> c.ans.is]
                 /\ calls' = calls \ {c} /\ lost' = 0 /\ UNCHANGED timers
  /\ UNCHANGED <<server, mounted, card>>

\* Mutant: the failed round counts as contact.
SilenceForgotten(c) == Schedule(c) /\ lost' = 0 /\ UNCHANGED shown
\* Neither the task nor the status answers: again, until it has lasted too long.
Silence(c) ==
  IF lost >= MaxLost
  THEN Verdict("failed") /\ calls' = calls \ {c} /\ UNCHANGED <<timers, lost>>
  ELSE Schedule(c) /\ lost' = lost + 1 /\ UNCHANGED shown

\* Mutant: a server that answers without a task has been upgraded.
JudgedOnAnswer(c) == Verdict("success")
\* No task runs any more: the version decides, if the card knows the target.
Judged(c) == \/ Verdict("failed")
             \/ c.ans.ver = New /\ Verdict("success")

\* The status is answered.
JudgeAnswered(c) ==
  /\ c.kind = "judge" /\ c.ans # Wait
  /\ IF ~c.live THEN Drop(c) /\ UNCHANGED shown
     ELSE CASE c.ans = Lost -> Silence(c)
            [] c.ans.id # 0 ->
                 /\ shown' = [id |-> c.ans.id, state |-> "running"]
                 /\ Schedule(c) /\ lost' = 0
            [] OTHER ->
                 Judged(c) /\ calls' = calls \ {c} /\ lost' = 0 /\ UNCHANGED timers
  /\ UNCHANGED <<server, mounted, card>>

\* The page is left: the timer is cleared and the chain disowned, so that what
\* it is still answered changes nothing.  A load or a start under way is not,
\* and may attach the page that is gone to a task.  Of the restart card's timers only those whose handle was kept are cleared.
Leave ==
  /\ mounted /\ mounted' = FALSE
  /\ calls' = {c \in calls : c.kind \notin {"poll", "judge"}} /\ timers' = {}
  /\ rst' = IF rst.at = "timer" /\ rst.held THEN Quiet ELSE rst
  /\ UNCHANGED <<server, shown, lost, verdict>>

-----------------------------------------------------------------------------
(* The restart card.                                                       *)

\* "Restart the service", confirmed; disabled while a task is active.
ConfirmRestart ==
  /\ mounted /\ ~Active /\ rst.at = "idle"
  /\ IF OneCard THEN calls = {} /\ shown = None ELSE Cardinality(calls) < MaxCalls
  /\ rst' = [Quiet EXCEPT !.at = "posting"] /\ verdict' = "none"
  /\ calls' = calls \cup {Call("restart", 0)}
  /\ UNCHANGED <<server, timers, shown, lost, mounted>>

RestartAnswered(c) ==
  /\ c.kind = "restart" /\ c.ans # Wait
  /\ IF c.ans = Lost
     THEN rst' = Quiet /\ verdict' = "refused"
     ELSE rst' = [rst EXCEPT !.at = "timer", !.held = TRUE, !.left = MaxProbe] /\ UNCHANGED verdict
  /\ calls' = calls \ {c}
  /\ UNCHANGED <<server, timers, shown, lost, mounted>>

Probe ==
  /\ rst.at = "timer" /\ rst' = [rst EXCEPT !.at = "probing"]
  /\ calls' = calls \cup {Call("probe", 0)}
  /\ UNCHANGED <<server, timers, shown, lost, mounted, verdict>>

\* Mutant: the first answer is the restarted server's.
RestartedAtOnce(c) == c.ans # Lost
\* A server that answers after a probe that failed has been restarted, and so
\* has one that denies the session.
Restarted(c) == c.ans.is = "denied" \/ (c.ans # Lost /\ rst.saw)

Concluded == [Quiet EXCEPT !.died = rst.died, !.doubt = rst.doubt]

\* Any other answer is followed by another probe, until the deadline.
Again(c) == rst.left > 1

ProbeAnswered(c) ==
  /\ c.kind = "probe" /\ c.ans # Wait /\ calls' = calls \ {c}
  /\ IF Restarted(c) THEN rst' = Concluded /\ verdict' = "restarted"
     ELSE IF Again(c)
     THEN /\ rst' = [rst EXCEPT !.at = "timer", !.left = @ - 1,
                                !.saw = @ \/ c.ans = Lost, !.held = c.ans = Lost]
          /\ UNCHANGED verdict
     ELSE rst' = Quiet /\ verdict' = "unseen"
  /\ UNCHANGED <<server, timers, shown, lost, mounted>>

-----------------------------------------------------------------------------
Serve(c) ==
  \/ LoseCall(c) \/ ServeStatus(c) \/ ServeTask(c) \/ ServeStart(c)
  \/ ServeRestart(c) \/ ServeProbe(c)
Deliver(c) ==
  \/ Loaded(c) \/ StartAnswered(c) \/ PollAnswered(c) \/ JudgeAnswered(c)
  \/ RestartAnswered(c) \/ ProbeAnswered(c)
Kinds == {"load", "start", "poll", "judge", "restart", "probe"}
Step(c) == Serve(c) \/ Deliver(c)
PollStep == (\E c \in calls : c.kind \in {"poll", "judge"} /\ Step(c))
              \/ \E t \in Task : Tick(t)
ProbeStep == (\E c \in calls : c.kind \in {"restart", "probe"} /\ Step(c)) \/ Probe
LoadStep == \E c \in calls : c.kind \in {"load", "start"} /\ Step(c)
FinishSome == \E t \in Task : Finish(t)

Next ==
  \/ \E t \in Task : StartElsewhere(t)
  \/ FinishSome \/ Die \/ Boot
  \/ PollStep \/ ProbeStep \/ LoadStep
  \/ ConfirmUpgrade \/ ConfirmRestart \/ Leave

\* Calls are answered or fail, answers are handled and timers go off, and a
\* task ends (it runs under a timeout).  Nothing says that the server comes
\* back, or that anything but a poll is ever answered.
Fairness == WF_vars(PollStep) /\ WF_vars(FinishSome)

Spec == Init /\ [][Next]_vars /\ Fairness

-----------------------------------------------------------------------------
Answers ==
  {Wait, Lost}
    \cup [is : {"status"}, id : 0..MaxTask, ver : {Old, New}]
    \cup [is : {"running", "success", "failed", "started"}, id : Task, ver : {0}]
    \cup [is : {"busy", "restarting", "alive", "denied"}, id : {0}, ver : {0}]

\* A chain is a poll or a judgement of a task; a poll is answered with the state
\* of one.
IsCall(c) ==
  /\ c \in [kind : Kinds, live : BOOLEAN, id : 0..MaxTask, ans : Answers]
  /\ c.live => c.kind \in {"poll", "judge"}
  /\ c.kind \in {"poll", "judge"} => c.id \in Task
  /\ c.kind = "poll" => c.ans.is \in {"wait", "lost", "running", "success", "failed"}

TypeOK ==
  /\ st \in [Task -> States] /\ \A s, t \in Running : s = t
  /\ up \in BOOLEAN /\ boots \in 0..MaxBoot /\ ver \in {Old, New}
  /\ took \in BOOLEAN /\ mounted \in BOOLEAN
  /\ \A c \in calls : IsCall(c)
  /\ timers \subseteq Task /\ lost \in 0..MaxLost
  /\ shown \in [id : 0..MaxTask, state : {"none", "running", "success", "failed"}]
  /\ rst \in [at : {"idle", "posting", "timer", "probing"}, saw : BOOLEAN,
               held : BOOLEAN, left : 0..MaxProbe, died : BOOLEAN, doubt : BOOLEAN]
  /\ verdict \in {"none", "refused", "restarted", "unseen"}

\* A task shown as running is followed by one chain of polls, never by two and
\* never by none, whatever was attached to, refused, forgotten and left
\* (Settings.vue:957-960, "no two polls side by side" at 977).
Live == {c \in calls : c.live}
ActiveIsFollowedOnce ==
  /\ Cardinality(Live) + Cardinality(timers) <= 1
  /\ mounted /\ Active => Cardinality(Live) + Cardinality(timers) = 1

\* The card reports an upgrade only if one succeeded or the new version ran,
\* however many processes, tasks and answers the verdict went through
\* (Settings.vue:962-966, 989-995).
SuccessWasReal == shown.state = "success" => took

\* A page that stays open does not show a task as running for ever, even if
\* the server never comes back (Settings.vue:999-1004).
VerdictComes == Active ~> ~Active \/ ~mounted

\* A server that just goes on answering is never reported as restarted: since
\* the restart was asked for the process has died, a probe of the living one
\* was lost, or the session ended on its own (Settings.vue:1040-1043).
RestartWasReal == verdict = "restarted" => rst.died \/ rst.doubt

\* What the comment there claims: a failed probe, or a 401, is a restart, so
\* that none is reported without one.  The code takes it from any failed probe
\* and any ended session, and this is violated.
RestartImpliesDeath == verdict = "restarted" => rst.died
=============================================================================
