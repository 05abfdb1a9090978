-------------------------- MODULE UpgradePanelProofs --------------------------
(***************************************************************************)
(* Theorems about UpgradePanel, for any number of tasks, deaths and calls, *)
(* and any deadlines.                                                      *)
(***************************************************************************)
EXTENDS UpgradePanel, TLAPS, FiniteSetTheorems

USE PanelAssumption DEF Task

-----------------------------------------------------------------------------
(* Calls.                                                                  *)

\* A record's parts.
LEMMA IsCallParts ==
  ASSUME NEW c, IsCall(c)
  PROVE  /\ c.kind \in Kinds /\ c.live \in BOOLEAN /\ c.id \in 0..MaxTask /\ c.ans \in Answers
         /\ c.kind \in {"poll", "judge"} => c.id \in Task
BY DEF IsCall

\* A new call of the page.
LEMMA CallType ==
  ASSUME NEW kind \in Kinds, NEW t \in 0..MaxTask, kind \in {"poll", "judge"} => t \in Task
  PROVE  /\ IsCall(Call(kind, t)) /\ Call(kind, t).kind = kind /\ Call(kind, t).id = t
         /\ Call(kind, t).live <=> kind = "poll"
         /\ Call(kind, t).ans = Wait
BY DEF Call, IsCall, Answers, Wait

\* A call is given an answer, and is otherwise the call it was.
LEMMA AnsweredType ==
  ASSUME NEW c, IsCall(c), NEW a \in Answers,
         c.kind = "poll" => a.is \in {"wait", "lost", "running", "success", "failed"}
  PROVE  /\ IsCall([c EXCEPT !.ans = a])
         /\ [c EXCEPT !.ans = a].kind = c.kind /\ [c EXCEPT !.ans = a].live = c.live
         /\ [c EXCEPT !.ans = a].id = c.id /\ [c EXCEPT !.ans = a].ans = a
BY DEF IsCall

\* A call of an older generation.
LEMMA DisownedType ==
  ASSUME NEW c, IsCall(c)
  PROVE  /\ IsCall([c EXCEPT !.live = FALSE]) /\ [c EXCEPT !.live = FALSE].live = FALSE
         /\ [c EXCEPT !.live = FALSE].kind = c.kind /\ [c EXCEPT !.live = FALSE].id = c.id
         /\ [c EXCEPT !.live = FALSE].ans = c.ans
BY DEF IsCall

\* A poll that failed turns into a judgement.
LEMMA JudgeType ==
  ASSUME NEW c, IsCall(c), c.kind = "poll"
  PROVE  /\ IsCall([c EXCEPT !.kind = "judge", !.ans = Wait])
         /\ [c EXCEPT !.kind = "judge", !.ans = Wait].live = c.live
         /\ [c EXCEPT !.kind = "judge", !.ans = Wait].kind = "judge"
         /\ [c EXCEPT !.kind = "judge", !.ans = Wait].ans = Wait
BY DEF IsCall, Kinds, Answers

\* An answer gives the task or the version it says it gives.
LEMMA AnswerParts ==
  ASSUME NEW a \in Answers
  PROVE  /\ a.id \in 0..MaxTask
         /\ a.is \in {"running", "success", "failed", "started"} => a.id \in Task /\ a.ver = 0
         /\ a.is = "lost" <=> a = Lost
         /\ a.is = "wait" <=> a = Wait
BY DEF Answers, Lost, Wait

LEMMA InitType == Init => TypeOK
<1> SUFFICES ASSUME Init PROVE TypeOK
  OBVIOUS
<1>1. IsCall(Call("load", 0))
  BY CallType DEF Kinds
<1>2. Running = {} /\ st \in [Task -> States]
  BY DEF Init, Running, States
<1>3. rst \in [at : {"idle", "posting", "timer", "probing"}, saw : BOOLEAN,
               held : BOOLEAN, left : 0..MaxProbe, died : BOOLEAN, doubt : BOOLEAN]
  BY DEF Init, Quiet
<1>4. shown \in [id : 0..MaxTask, state : {"none", "running", "success", "failed"}]
  BY DEF Init, None
<1>5. up \in BOOLEAN /\ took \in BOOLEAN /\ mounted \in BOOLEAN
  BY Zenon DEF Init
<1>6. boots \in 0..MaxBoot /\ ver \in {Old, New} /\ lost \in 0..MaxLost /\ timers \subseteq Task
      /\ verdict \in {"none", "refused", "restarted", "unseen"}
  BY DEF Init
<1> QED
  BY <1>1, <1>2, <1>3, <1>4, <1>5, <1>6 DEF Init, TypeOK

\* The parts of the type invariant.
CallsType == \A c \in calls : IsCall(c)
ServerType ==
  /\ st \in [Task -> States] /\ \A s, t \in Running : s = t
  /\ up \in BOOLEAN /\ boots \in 0..MaxBoot /\ ver \in {Old, New} /\ took \in BOOLEAN
CardType ==
  /\ rst \in [at : {"idle", "posting", "timer", "probing"}, saw : BOOLEAN,
              held : BOOLEAN, left : 0..MaxProbe, died : BOOLEAN, doubt : BOOLEAN]
  /\ verdict \in {"none", "refused", "restarted", "unseen"}
PanelType ==
  /\ mounted \in BOOLEAN /\ timers \subseteq Task /\ lost \in 0..MaxLost
  /\ shown \in [id : 0..MaxTask, state : {"none", "running", "success", "failed"}]

LEMMA TypeParts == TypeOK <=> CallsType /\ ServerType /\ CardType /\ PanelType
BY DEF TypeOK, CallsType, ServerType, CardType, PanelType

LEMMA JoinParts ==
  ASSUME CallsType', ServerType', CardType', PanelType'
  PROVE  TypeOK'
BY DEF TypeOK, CallsType, ServerType, CardType, PanelType

LEMMA SameParts ==
  ASSUME TypeOK
  PROVE  /\ UNCHANGED server => ServerType'
         /\ UNCHANGED card => CardType'
         /\ UNCHANGED <<timers, shown, lost, mounted>> => PanelType'
<1>1. ServerType /\ CardType /\ PanelType
  BY TypeParts
<1>2. UNCHANGED server => ServerType'
  BY <1>1 DEF ServerType, server, Running
<1>3. UNCHANGED card => CardType'
  BY <1>1 DEF CardType, card
<1>4. UNCHANGED <<timers, shown, lost, mounted>> => PanelType'
  BY <1>1 DEF PanelType
<1> QED
  BY <1>2, <1>3, <1>4

\* The server starts a task only while none runs.
LEMMA StartedType ==
  ASSUME TypeOK, NEW t \in Task, Started(t), UNCHANGED <<up, boots, ver, took>>
  PROVE  ServerType'
<1>1. st' = [st EXCEPT ![t] = "running"] /\ Running = {} /\ ServerType
  BY TypeParts DEF Started
<1>2. st' \in [Task -> States] /\ \A s \in Task \ {t} : st'[s] = st[s]
  BY <1>1 DEF ServerType, States
<1>3. Running' \subseteq {t}
  BY <1>1, <1>2 DEF Running
<1> QED
  BY <1>1, <1>2, <1>3 DEF ServerType

\* The process has died since the restart was asked for, or a probe was misled.
Seen == rst.died \/ rst.doubt

\* A ghost of the restart card goes up, nothing else of it moves.
GhostUp == /\ CardType' /\ rst'.at = rst.at /\ rst'.saw = rst.saw
           /\ verdict' = verdict /\ (Seen => Seen')

LEMMA SameCard ==
  ASSUME TypeOK, UNCHANGED card
  PROVE  GhostUp
BY SameParts DEF GhostUp, card, Seen

LEMMA GhostRaised ==
  ASSUME TypeOK, NEW b \in BOOLEAN, rst' = [rst EXCEPT !.doubt = rst.doubt \/ b], verdict' = verdict
  PROVE  GhostUp /\ (b => Seen')
<1>1. CardType /\ (rst.doubt \/ b) \in BOOLEAN
  BY TypeParts DEF CardType
<1>2. CardType'
  BY <1>1 DEF CardType
<1>3. rst'.at = rst.at /\ rst'.saw = rst.saw /\ rst'.died = rst.died /\ rst'.doubt = (rst.doubt \/ b)
  BY <1>1 DEF CardType
<1> QED
  BY <1>2, <1>3 DEF GhostUp, Seen

\* What the server is asked and what it answers.
LEMMA ServeCases ==
  ASSUME TypeOK, NEW c \in calls, Serve(c)
  PROVE  /\ c.ans = Wait /\ UNCHANGED <<timers, shown, lost, mounted>> /\ GhostUp
         /\ \E a \in Answers :
              /\ Answer(c, a)
              /\ c.kind = "poll" => a.is \in {"lost", "running", "success", "failed"}
              /\ a.is = "success" => c.kind = "poll" /\ st[a.id] = "success"
              /\ a.ver # 0 => a.ver = ver
              /\ c.kind = "restart" => a \in {Lost} \/ up
              /\ c.kind = "probe" /\ a = Lost => ~up \/ Seen'
              /\ c.kind = "probe" /\ a.is = "denied" => Seen'
         /\ UNCHANGED server \/ (\E t \in Task : Started(t) /\ UNCHANGED <<up, boots, ver, took>>)
<1>0. IsCall(c)
  BY DEF TypeOK
<1>1. CASE LoseCall(c)
  <2>1. GhostUp /\ (c.kind = "probe" /\ up => Seen')
    BY <1>1, GhostRaised DEF LoseCall
  <2>2. /\ Lost \in Answers /\ Lost.is = "lost" /\ Lost.ver = 0
        /\ Answer(c, Lost) /\ c.ans = Wait /\ UNCHANGED <<server, timers, shown, lost, mounted>>
    BY <1>1 DEF LoseCall, Lost, Answers
  <2> QED
    BY <2>1, <2>2
<1>2. CASE ServeStatus(c)
  <2>1. RunningId \in 0..MaxTask /\ ver \in {Old, New}
    <3>1. CASE Running = {}
      BY <3>1 DEF RunningId, TypeOK
    <3>2. CASE Running # {}
      <4>1. (CHOOSE t \in Running : TRUE) \in Running
        BY <3>2
      <4> QED
        BY <3>2, <4>1 DEF RunningId, Running, TypeOK
    <3> QED
      BY <3>1, <3>2
  <2> DEFINE a == [is |-> "status", id |-> RunningId, ver |-> ver]
  <2>2. a \in Answers /\ a.is = "status" /\ a.ver = ver
    BY <2>1 DEF Answers
  <2>3. Answer(c, a) /\ c.ans = Wait /\ UNCHANGED <<server, timers, shown, lost, mounted, card>>
        /\ c.kind \in {"load", "judge"}
    BY <1>2 DEF ServeStatus
  <2> HIDE DEF a
  <2>4. a # Lost
    BY <2>2 DEF Lost
  <2> QED
    BY <2>2, <2>3, <2>4, SameCard
<1>3. CASE ServeTask(c)
  <2>0. c.id \in Task /\ c.kind = "poll" /\ c.ans = Wait
        /\ UNCHANGED <<server, timers, shown, lost, mounted, card>>
    BY <1>0, <1>3 DEF IsCall, ServeTask
  <2>1. CASE st[c.id] \in {"running", "success", "failed"}
    <3> DEFINE a == [is |-> st[c.id], id |-> c.id, ver |-> 0]
    <3>1. a \in Answers /\ a.is = st[c.id] /\ a.id = c.id /\ a.ver = 0
      BY <2>0, <2>1 DEF Answers
    <3>2. Answer(c, a)
      BY <1>3, <2>1 DEF ServeTask
    <3> HIDE DEF a
    <3> QED
      BY <2>0, <2>1, <3>1, <3>2, SameCard
  <2>2. CASE st[c.id] \notin {"running", "success", "failed"}
    <3>1. Answer(c, Lost)
      BY <1>3, <2>2 DEF ServeTask
    <3> QED
      BY <2>0, <3>1, SameCard DEF Lost, Answers
  <2> QED
    BY <2>1, <2>2
<1>4. CASE ServeStart(c)
  <2>0. c.kind = "start" /\ c.ans = Wait /\ UNCHANGED <<up, boots, ver, took>>
        /\ UNCHANGED <<timers, shown, lost, mounted>> /\ GhostUp
    BY <1>4, SameCard DEF ServeStart
  <2>1. CASE Answer(c, [is |-> "busy", id |-> 0, ver |-> 0]) /\ UNCHANGED st
    BY <2>0, <2>1 DEF Answers, server
  <2>2. ASSUME NEW t \in Task, Answer(c, [is |-> "started", id |-> t, ver |-> 0])
        PROVE  \E a \in Answers : Answer(c, a) /\ a.is = "started" /\ a.ver = 0
    BY <2>2 DEF Answers
  <2>3. ASSUME NEW t \in Running, Answer(c, [is |-> "started", id |-> t, ver |-> 0]), UNCHANGED st
        PROVE  UNCHANGED server /\ \E a \in Answers : Answer(c, a) /\ a.is = "started" /\ a.ver = 0
    BY <2>0, <2>2, <2>3 DEF Running, server
  <2>4. ASSUME NEW t \in Task, Started(t), Answer(c, [is |-> "started", id |-> t, ver |-> 0])
        PROVE  /\ Started(t) /\ UNCHANGED <<up, boots, ver, took>>
               /\ \E a \in Answers : Answer(c, a) /\ a.is = "started" /\ a.ver = 0
    BY <2>0, <2>2, <2>4
  <2> QED
    BY <1>4, <2>0, <2>1, <2>3, <2>4 DEF ServeStart
<1>5. CASE ServeRestart(c)
  BY <1>5, SameCard DEF ServeRestart, Answers
<1>6. CASE ServeProbe(c)
  <2>0. c.kind = "probe" /\ c.ans = Wait /\ UNCHANGED <<server, timers, shown, lost, mounted, verdict>>
    BY <1>6 DEF ServeProbe
  <2>1. CASE Answer(c, [is |-> "alive", id |-> 0, ver |-> 0]) /\ rst' = rst
    <3>1. GhostUp
      BY <2>0, <2>1, SameCard DEF card
    <3> QED
      BY <2>0, <2>1, <3>1 DEF Answers, Lost
  <2>2. CASE /\ Answer(c, [is |-> "denied", id |-> 0, ver |-> 0])
             /\ rst' = [rst EXCEPT !.doubt = rst.doubt \/ ~rst.died]
    <3>1. GhostUp /\ (~rst.died => Seen')
      BY <2>0, <2>2, GhostRaised
    <3>2. Seen'
      BY <3>1 DEF Seen, GhostUp
    <3> QED
      BY <2>0, <2>2, <3>1, <3>2 DEF Answers, Lost
  <2> QED
    BY <1>6, <2>1, <2>2 DEF ServeProbe
<1> QED
  BY <1>1, <1>2, <1>3, <1>4, <1>5, <1>6 DEF Serve

LEMMA ServeType ==
  ASSUME TypeOK, NEW c \in calls, Serve(c)
  PROVE  TypeOK'
<1>1. CardType' /\ PanelType' /\ ServerType'
  BY ServeCases, SameParts, StartedType DEF GhostUp
<1>2. PICK a \in Answers : /\ Answer(c, a)
                           /\ c.kind = "poll" => a.is \in {"lost", "running", "success", "failed"}
  BY ServeCases
<1>3. IsCall([c EXCEPT !.ans = a])
  BY <1>2, AnsweredType DEF TypeOK
<1>4. CallsType'
  BY <1>2, <1>3 DEF Answer, CallsType, TypeOK
<1> QED
  BY <1>1, <1>4, TypeParts, JoinParts

\* A new chain is a call of the generation of its own; the others are disowned.
LEMMA AttachType ==
  ASSUME TypeOK, NEW c \in calls, NEW t \in Task, Attach(c, t)
  PROVE  /\ CallsType' /\ timers' = {} /\ lost' = 0
         /\ \A d \in calls' : d.live => d = Call("poll", t)
         /\ \A d \in calls' : \/ d = Call("poll", t)
                              \/ \E e \in calls \ {c} : d.kind = e.kind /\ d.ans = e.ans /\ d.id = e.id
         /\ Call("poll", t) \in calls' /\ Call("poll", t).live
         /\ Call("poll", t).kind = "poll" /\ Call("poll", t).ans = Wait
<1>1. /\ IsCall(Call("poll", t)) /\ Call("poll", t).live
      /\ Call("poll", t).kind = "poll" /\ Call("poll", t).ans = Wait
  BY CallType DEF Kinds
<1>2. /\ timers' = {} /\ lost' = 0
      /\ calls' = {[e EXCEPT !.live = FALSE] : e \in calls \ {c}} \cup {Call("poll", t)}
  BY DEF Attach, Stopped
<1>3. ASSUME NEW d \in calls'
      PROVE  \/ d = Call("poll", t)
             \/ /\ IsCall(d) /\ ~d.live
                /\ \E e \in calls \ {c} : d.kind = e.kind /\ d.ans = e.ans /\ d.id = e.id
  <2>1. CASE d = Call("poll", t)
    BY <2>1
  <2>2. CASE d # Call("poll", t)
    <3>1. PICK e \in calls \ {c} : d = [e EXCEPT !.live = FALSE]
      BY <1>2, <1>3, <2>2
    <3> QED
      BY <3>1, DisownedType DEF TypeOK
  <2> QED
    BY <2>1, <2>2
<1> QED
  BY <1>1, <1>2, <1>3 DEF CallsType

\* What becomes of the card's state by a verdict or a new task.
LEMMA ShownType ==
  ASSUME TypeOK
  PROVE  /\ None \in [id : 0..MaxTask, state : {"none", "running", "success", "failed"}]
         /\ \A t \in Task, w \in {"running", "success", "failed"} :
              [id |-> t, state |-> w] \in [id : 0..MaxTask, state : {"none", "running", "success", "failed"}]
         /\ \A w \in {"success", "failed"} :
              [shown EXCEPT !.state = w] \in [id : 0..MaxTask, state : {"none", "running", "success", "failed"}]
BY DEF TypeOK, None

LEMMA LoadedType ==
  ASSUME TypeOK, NEW c \in calls, Loaded(c)
  PROVE  TypeOK'
<1>1. ServerType' /\ CardType' /\ mounted' = mounted /\ mounted \in BOOLEAN
  BY SameParts DEF Loaded, TypeOK
<1>2. CASE c.ans.is = "status" /\ c.ans.id # 0 /\ shown = None
  <2>1. c.ans.id \in Task
    BY <1>2, AnswerParts, IsCallParts DEF TypeOK
  <2>2. shown' = [id |-> c.ans.id, state |-> "running"] /\ Attach(c, c.ans.id)
    BY <1>2 DEF Loaded
  <2>3. CallsType' /\ timers' = {} /\ lost' = 0
    BY <2>1, <2>2, AttachType
  <2> QED
    BY <1>1, <2>1, <2>2, <2>3, ShownType, TypeParts, JoinParts DEF PanelType
<1>3. CASE ~(c.ans.is = "status" /\ c.ans.id # 0 /\ shown = None)
  BY <1>1, <1>3, TypeParts, JoinParts DEF Loaded, Drop, CallsType, PanelType
<1> QED
  BY <1>2, <1>3

LEMMA StartAnsweredType ==
  ASSUME TypeOK, NEW c \in calls, StartAnswered(c)
  PROVE  TypeOK'
<1>1. ServerType' /\ CardType' /\ mounted' = mounted /\ mounted \in BOOLEAN
  BY SameParts DEF StartAnswered, TypeOK
<1>2. CASE c.ans.is = "started"
  <2>1. c.ans.id \in Task
    BY <1>2, AnswerParts, IsCallParts DEF TypeOK
  <2>2. shown' = [id |-> c.ans.id, state |-> "running"] /\ Attach(c, c.ans.id)
    BY <1>2 DEF StartAnswered
  <2>3. CallsType' /\ timers' = {} /\ lost' = 0
    BY <2>1, <2>2, AttachType
  <2> QED
    BY <1>1, <2>1, <2>2, <2>3, ShownType, TypeParts, JoinParts DEF PanelType
<1>3. CASE c.ans.is = "busy"
  <2>1. /\ shown' = None /\ UNCHANGED <<timers, lost>>
        /\ calls' = (calls \ {c}) \cup {Call("load", 0)}
    BY <1>3 DEF StartAnswered
  <2>2. IsCall(Call("load", 0))
    BY CallType DEF Kinds
  <2> QED
    BY <1>1, <2>1, <2>2, ShownType, TypeParts, JoinParts DEF PanelType, CallsType
<1>4. CASE c.ans.is \notin {"started", "busy"}
  BY <1>1, <1>4, TypeParts, JoinParts DEF StartAnswered, Drop, CallsType, PanelType
<1> QED
  BY <1>2, <1>3, <1>4

\* What a poll's answer does.
LEMMA PollCases ==
  ASSUME TypeOK, NEW c \in calls, PollAnswered(c)
  PROVE  /\ c.kind = "poll" /\ c.id \in Task /\ UNCHANGED <<server, mounted, card>>
         /\ \/ ~c.live /\ calls' = calls \ {c} /\ UNCHANGED <<shown, timers, lost>>
            \/ /\ c.live /\ UNCHANGED <<timers, lost, shown>>
               /\ calls' = (calls \ {c}) \cup {[c EXCEPT !.kind = "judge", !.ans = Wait]}
            \/ /\ c.live /\ shown' = [id |-> c.id, state |-> "running"] /\ lost' = 0
               /\ calls' = calls \ {c} /\ timers' = timers \cup {c.id}
            \/ /\ c.live /\ c.ans.is \in {"success", "failed"}
               /\ shown' = [id |-> c.id, state |-> c.ans.is]
               /\ lost' = 0 /\ calls' = calls \ {c} /\ timers' = timers
<1>1. /\ c.kind = "poll" /\ c.id \in Task /\ UNCHANGED <<server, mounted, card>>
      /\ c.ans \in Answers /\ c.ans # Wait
      /\ c.ans.is \in {"wait", "lost", "running", "success", "failed"}
  BY DEF TypeOK, IsCall, PollAnswered
<1>2. CASE ~c.live
  BY <1>1, <1>2 DEF PollAnswered, Drop
<1>3. CASE c.live /\ c.ans = Lost
  BY <1>1, <1>3 DEF PollAnswered, Lost
<1>4. CASE c.live /\ c.ans.is = "running"
  BY <1>1, <1>4 DEF PollAnswered, Schedule, Lost
<1>5. CASE c.live /\ c.ans.is \in {"success", "failed"}
  BY <1>1, <1>5 DEF PollAnswered, Lost
<1> QED
  BY <1>1, <1>2, <1>3, <1>4, <1>5, AnswerParts

\* What a judgement's answer does.
LEMMA JudgeCases ==
  ASSUME TypeOK, NEW c \in calls, JudgeAnswered(c)
  PROVE  /\ c.kind = "judge" /\ c.id \in Task /\ UNCHANGED <<server, mounted, card>>
         /\ \/ ~c.live /\ calls' = calls \ {c} /\ UNCHANGED <<shown, timers, lost>>
            \/ /\ c.live /\ calls' = calls \ {c} /\ timers' = timers \cup {c.id}
               /\ shown' = shown /\ lost < MaxLost /\ lost' = lost + 1
            \/ /\ c.live /\ calls' = calls \ {c} /\ timers' = timers \cup {c.id}
               /\ c.ans.id \in Task /\ shown' = [id |-> c.ans.id, state |-> "running"] /\ lost' = 0
            \/ /\ c.live /\ calls' = calls \ {c} /\ timers' = timers /\ lost' \in {0, lost}
               /\ \E w \in {"success", "failed"} :
                    /\ shown' = [shown EXCEPT !.state = w]
                    /\ w = "success" => c.ans.ver = New
<1>1. /\ c.kind = "judge" /\ c.id \in Task /\ UNCHANGED <<server, mounted, card>>
      /\ c.ans \in Answers /\ c.ans # Wait /\ c.ans.id \in 0..MaxTask
  BY IsCallParts, AnswerParts DEF TypeOK, JudgeAnswered
<1>2. CASE ~c.live
  BY <1>1, <1>2 DEF JudgeAnswered, Drop
<1>3. CASE c.live /\ c.ans = Lost
  <2>1. Silence(c)
    BY <1>3 DEF JudgeAnswered, Lost
  <2> QED
    BY <1>1, <1>3, <2>1 DEF Silence, Schedule, Verdict, TypeOK
<1>4. CASE c.live /\ c.ans # Lost /\ c.ans.id # 0
  <2>1. c.ans.id \in Task
    BY <1>1, <1>4
  <2> QED
    BY <1>1, <1>4, <2>1 DEF JudgeAnswered, Schedule
<1>5. CASE c.live /\ c.ans # Lost /\ c.ans.id = 0
  <2>1. Judged(c) /\ calls' = calls \ {c} /\ lost' = 0 /\ UNCHANGED timers
    BY <1>5 DEF JudgeAnswered
  <2> QED
    BY <1>1, <1>5, <2>1 DEF Judged, Verdict
<1> QED
  BY <1>1, <1>2, <1>3, <1>4, <1>5

LEMMA PollAnsweredType ==
  ASSUME TypeOK, NEW c \in calls, PollAnswered(c)
  PROVE  TypeOK'
<1>1. ServerType' /\ CardType' /\ mounted' = mounted /\ mounted \in BOOLEAN /\ c.id \in Task
      /\ timers \subseteq Task /\ lost \in 0..MaxLost /\ 0 \in 0..MaxLost
  BY SameParts DEF TypeOK, PollAnswered, IsCall
<1>2. CallsType'
  <2>1. c.kind = "poll" => IsCall([c EXCEPT !.kind = "judge", !.ans = Wait])
    BY JudgeType DEF TypeOK
  <2> QED
    BY <2>1, PollCases DEF CallsType, TypeOK
<1>3. timers' \subseteq Task /\ lost' \in 0..MaxLost
  BY <1>1, PollCases
<1>4. shown' \in [id : 0..MaxTask, state : {"none", "running", "success", "failed"}]
  <2>1. /\ \A w \in {"running", "success", "failed"} :
             [id |-> c.id, state |-> w] \in [id : 0..MaxTask, state : {"none", "running", "success", "failed"}]
        /\ shown \in [id : 0..MaxTask, state : {"none", "running", "success", "failed"}]
    BY <1>1, ShownType DEF TypeOK
  <2>2. \/ shown' = shown \/ shown' = [id |-> c.id, state |-> "running"]
        \/ c.ans.is \in {"success", "failed"} /\ shown' = [id |-> c.id, state |-> c.ans.is]
    BY PollCases
  <2> QED
    BY <2>1, <2>2
<1> QED
  BY <1>1, <1>2, <1>3, <1>4, TypeParts, JoinParts DEF PanelType

LEMMA JudgeAnsweredType ==
  ASSUME TypeOK, NEW c \in calls, JudgeAnswered(c)
  PROVE  TypeOK'
<1>1. ServerType' /\ CardType' /\ mounted' = mounted /\ mounted \in BOOLEAN /\ c.id \in Task
      /\ timers \subseteq Task /\ lost \in 0..MaxLost /\ 0 \in 0..MaxLost
  BY SameParts DEF TypeOK, JudgeAnswered, IsCall
<1>2. CallsType'
  BY JudgeCases DEF CallsType, TypeOK
<1>3. timers' \subseteq Task
  BY <1>1, JudgeCases
<1>4. lost' \in 0..MaxLost
  BY <1>1, JudgeCases
<1>5. shown' \in [id : 0..MaxTask, state : {"none", "running", "success", "failed"}]
  <2> DEFINE T == [id : 0..MaxTask, state : {"none", "running", "success", "failed"}]
  <2>1. shown \in T /\ \A w \in {"success", "failed"} : [shown EXCEPT !.state = w] \in T
    BY DEF TypeOK
  <2>2. c.ans.id \in Task => [id |-> c.ans.id, state |-> "running"] \in T
    BY ShownType DEF TypeOK
  <2> HIDE DEF T
  <2>3. \/ shown' = shown
        \/ c.ans.id \in Task /\ shown' = [id |-> c.ans.id, state |-> "running"]
        \/ \E w \in {"success", "failed"} : shown' = [shown EXCEPT !.state = w]
    BY JudgeCases
  <2>4. shown' \in T
    BY <2>1, <2>2, <2>3
  <2> QED
    BY <2>4 DEF T
<1> QED
  BY <1>1, <1>2, <1>3, <1>4, <1>5, TypeParts, JoinParts DEF PanelType

LEMMA CardStepType ==
  ASSUME TypeOK,
         Probe \/ ConfirmRestart \/ \E c \in calls : RestartAnswered(c) \/ ProbeAnswered(c)
  PROVE  TypeOK'
<1>1. ServerType' /\ PanelType'
  BY SameParts DEF Probe, ConfirmRestart, RestartAnswered, ProbeAnswered
<1>2. CallsType'
  <2>1. IsCall(Call("probe", 0)) /\ IsCall(Call("restart", 0))
    BY CallType DEF Kinds
  <2> QED
    BY <2>1 DEF Probe, ConfirmRestart, RestartAnswered, ProbeAnswered, CallsType, TypeOK
<1>3. CardType'
  <2>0. CardType /\ Quiet \in [at : {"idle", "posting", "timer", "probing"}, saw : BOOLEAN,
                               held : BOOLEAN, left : 0..MaxProbe, died : BOOLEAN, doubt : BOOLEAN]
    BY TypeParts DEF Quiet
  <2>1. CASE Probe
    BY <2>0, <2>1 DEF Probe, CardType
  <2>2. CASE ConfirmRestart
    BY <2>0, <2>2 DEF ConfirmRestart, CardType
  <2>3. ASSUME NEW c \in calls, RestartAnswered(c)
        PROVE  CardType'
    <3>1. CASE c.ans = Lost
      BY <2>0, <2>3, <3>1 DEF RestartAnswered, CardType
    <3>2. CASE c.ans # Lost
      <4>1. rst' = [rst EXCEPT !.at = "timer", !.held = TRUE, !.left = MaxProbe] /\ verdict' = verdict
        BY <2>3, <3>2 DEF RestartAnswered
      <4>2. MaxProbe \in 0..MaxProbe
        OBVIOUS
      <4> QED
        BY <2>0, <4>1, <4>2 DEF CardType
    <3> QED
      BY <3>1, <3>2
  <2>4. ASSUME NEW c \in calls, ProbeAnswered(c)
        PROVE  CardType'
    <3>1. CASE Restarted(c)
      <4>1. rst.died \in BOOLEAN /\ rst.doubt \in BOOLEAN
        BY <2>0 DEF CardType
      <4>2. Concluded \in [at : {"idle", "posting", "timer", "probing"}, saw : BOOLEAN, held : BOOLEAN,
                           left : 0..MaxProbe, died : BOOLEAN, doubt : BOOLEAN]
        BY <2>0, <4>1 DEF Concluded
      <4> QED
        BY <2>4, <3>1, <4>2 DEF ProbeAnswered, CardType
    <3>2. CASE ~Restarted(c) /\ Again(c)
      <4>1. rst.left - 1 \in 0..MaxProbe
        BY <2>0, <3>2 DEF Again, CardType
      <4>2. (rst.saw \/ c.ans = Lost) \in BOOLEAN /\ (c.ans = Lost) \in BOOLEAN
        BY <2>0 DEF CardType
      <4>3. /\ rst' = [rst EXCEPT !.at = "timer", !.left = rst.left - 1,
                                  !.saw = rst.saw \/ c.ans = Lost, !.held = c.ans = Lost]
            /\ verdict' = verdict
        BY <2>4, <3>2 DEF ProbeAnswered
      <4> QED
        BY <2>0, <4>1, <4>2, <4>3 DEF CardType
    <3>3. CASE ~Restarted(c) /\ ~Again(c)
      BY <2>0, <2>4, <3>3 DEF ProbeAnswered, CardType
    <3> QED
      BY <3>1, <3>2, <3>3
  <2> QED
    BY <2>1, <2>2, <2>3, <2>4
<1> QED
  BY <1>1, <1>2, <1>3, TypeParts, JoinParts

LEMMA UserType ==
  ASSUME TypeOK, ConfirmUpgrade \/ Leave \/ \E t \in Task : Tick(t)
  PROVE  TypeOK'
<1>1. ServerType'
  BY SameParts DEF ConfirmUpgrade, Leave, Tick
<1>2. CASE ConfirmUpgrade
  <2>1. IsCall(Call("start", 0))
    BY CallType DEF Kinds
  <2>2. CardType' /\ PanelType'
    BY <1>2, SameParts DEF ConfirmUpgrade
  <2> QED
    BY <1>1, <1>2, <2>1, <2>2, TypeParts, JoinParts DEF ConfirmUpgrade, CallsType
<1>3. CASE Leave
  <2>1. CardType'
    BY <1>3, TypeParts DEF Leave, CardType, Quiet
  <2> QED
    BY <1>1, <1>3, <2>1, TypeParts, JoinParts DEF Leave, CallsType, PanelType
<1>4. ASSUME NEW t \in Task, Tick(t)
      PROVE  TypeOK'
  <2>1. IsCall(Call("poll", t))
    BY CallType DEF Kinds
  <2>2. CardType'
    BY <1>4, SameParts DEF Tick
  <2> QED
    BY <1>1, <1>4, <2>1, <2>2, TypeParts, JoinParts DEF Tick, CallsType, PanelType
<1> QED
  BY <1>2, <1>3, <1>4

LEMMA ServerStepType ==
  ASSUME TypeOK, FinishSome \/ Die \/ Boot \/ \E t \in Task : StartElsewhere(t)
  PROVE  TypeOK'
<1>1. PanelType' /\ CallsType'
  BY SameParts, TypeParts
  DEF FinishSome, Finish, Die, Boot, StartElsewhere, panel, PanelType, CallsType
<1>2. CASE FinishSome
  <2>1. PICK t \in Task : Finish(t)
    BY <1>2 DEF FinishSome
  <2>2. PICK w \in {"success", "failed"} : st' = [st EXCEPT ![t] = w]
    BY <2>1 DEF Finish
  <2>3. st' \in [Task -> States] /\ Running' \subseteq Running
    BY <2>2 DEF TypeOK, States, Running
  <2>4. up' = up /\ boots' = boots /\ ver' = ver /\ took' \in {TRUE, took} /\ UNCHANGED card
    BY <2>1 DEF Finish
  <2>5. ServerType'
    BY <2>3, <2>4 DEF TypeOK, ServerType
  <2> QED
    BY <1>1, <2>4, <2>5, SameParts, TypeParts, JoinParts
<1>3. CASE Die
  <2>1. st' \in [Task -> {"none", "gone"}]
    BY <1>3 DEF Die, TypeOK
  <2>2. st' \in [Task -> States] /\ Running' = {}
    BY <2>1 DEF States, Running
  <2>3. up' = FALSE /\ boots' \in 0..MaxBoot /\ ver' = ver /\ took' = took
    BY <1>3 DEF Die, TypeOK
  <2>4. ServerType'
    BY <2>2, <2>3 DEF ServerType, TypeOK
  <2>5. CardType'
    BY <1>3 DEF Die, CardType, TypeOK
  <2> QED
    BY <1>1, <2>4, <2>5, TypeParts, JoinParts
<1>4. CASE Boot
  <2>1. st' = st /\ up' = TRUE /\ boots' = boots /\ ver' \in {ver, Old, New} /\ took' \in {TRUE, took}
        /\ UNCHANGED card
    BY <1>4 DEF Boot
  <2>2. ServerType'
    BY <2>1 DEF ServerType, TypeOK, Running
  <2> QED
    BY <1>1, <2>1, <2>2, SameParts, TypeParts, JoinParts
<1>5. ASSUME NEW t \in Task, StartElsewhere(t)
      PROVE  TypeOK'
  BY <1>1, <1>5, StartedType, SameParts, TypeParts, JoinParts DEF StartElsewhere
<1> QED
  BY <1>2, <1>3, <1>4, <1>5

\* The steps of Next, by what they are.
LEMMA NextCases ==
  ASSUME Next
  PROVE  \/ \E c \in calls : Serve(c)
         \/ \E c \in calls : Loaded(c) \/ StartAnswered(c)
         \/ \E c \in calls : PollAnswered(c) \/ JudgeAnswered(c)
         \/ Probe \/ ConfirmRestart \/ \E c \in calls : RestartAnswered(c) \/ ProbeAnswered(c)
         \/ ConfirmUpgrade \/ Leave \/ \E t \in Task : Tick(t)
         \/ FinishSome \/ Die \/ Boot \/ \E t \in Task : StartElsewhere(t)
BY DEF Next, PollStep, ProbeStep, LoadStep, Step, Deliver

\* Every variable of the cards and the server keeps its type, and one task runs
\* at a time.
THEOREM TypeCorrect == Spec => []TypeOK
<1>1. TypeOK /\ [Next]_vars => TypeOK'
  <2> SUFFICES ASSUME TypeOK, [Next]_vars PROVE TypeOK'
    OBVIOUS
  <2>1. CASE UNCHANGED vars
    <3>1. UNCHANGED <<server, card, timers, shown, lost, mounted>> /\ calls' = calls
      BY <2>1 DEF vars, panel
    <3> QED
      BY <3>1, SameParts, TypeParts, JoinParts DEF CallsType
  <2>2. CASE Next
    BY <2>2, NextCases, ServeType, LoadedType, StartAnsweredType, PollAnsweredType,
       JudgeAnsweredType, CardStepType, UserType, ServerStepType
  <2> QED
    BY <2>1, <2>2
<1> QED
  BY InitType, <1>1, PTL DEF Spec

-----------------------------------------------------------------------------
(* One chain of polls.                                                     *)

\* There is one live call or one timer, never two, and one whenever the open
\* page shows a task as running.
OneChain ==
  /\ \A c, d \in Live : c = d
  /\ \A s, t \in timers : s = t
  /\ Live = {} \/ timers = {}
  /\ mounted /\ Active => Live # {} \/ timers # {}

\* Calls that are no chain come and go.
LEMMA OtherCalls ==
  ASSUME OneChain, UNCHANGED <<timers, shown, mounted>>, Live' = Live
  PROVE  OneChain'
BY DEF OneChain, Active

\* A live call takes another form.
LEMMA LiveReplaced ==
  ASSUME OneChain, NEW c \in calls, NEW d, d.live <=> c.live,
         calls' = (calls \ {c}) \cup {d}, UNCHANGED <<timers, shown, mounted>>
  PROVE  OneChain'
<1>1. CASE c.live
  <2>1. Live = {c}
    BY <1>1 DEF OneChain, Live
  <2>2. Live' = {d}
    BY <1>1, <2>1 DEF Live
  <2> QED
    BY <2>1, <2>2 DEF OneChain, Active
<1>2. CASE ~c.live
  <2>1. Live' = Live
    BY <1>2 DEF Live
  <2> QED
    BY <2>1, OtherCalls
<1> QED
  BY <1>1, <1>2

LEMMA ServeKeepsOneChain ==
  ASSUME TypeOK, OneChain, NEW c \in calls, Serve(c)
  PROVE  OneChain'
<1>1. PICK a \in Answers : /\ Answer(c, a)
                           /\ c.kind = "poll" => a.is \in {"lost", "running", "success", "failed"}
  BY ServeCases
<1>2. [c EXCEPT !.ans = a].live = c.live
  BY <1>1, AnsweredType DEF TypeOK
<1> QED
  BY <1>1, <1>2, ServeCases, LiveReplaced DEF Answer

LEMMA AttachKeepsOneChain ==
  ASSUME TypeOK, NEW c \in calls, NEW t \in Task, Attach(c, t)
  PROVE  OneChain'
<1>1. Live' = {Call("poll", t)} /\ timers' = {}
  BY AttachType DEF Live
<1> QED
  BY <1>1 DEF OneChain

LEMMA LoadKeepsOneChain ==
  ASSUME TypeOK, OneChain, NEW c \in calls, Loaded(c) \/ StartAnswered(c)
  PROVE  OneChain'
<1>1. IsCall(c) /\ ~c.live /\ c.ans \in Answers /\ c.ans.id \in 0..MaxTask
  BY AnswerParts, IsCallParts DEF TypeOK, IsCall, Loaded, StartAnswered
<1>2. ASSUME NEW t \in Task, Attach(c, t)
      PROVE  OneChain'
  BY <1>2, AttachKeepsOneChain
<1>3. CASE calls' = calls \ {c} /\ UNCHANGED <<timers, shown, mounted>>
  <2>1. Live' = Live
    BY <1>1, <1>3 DEF Live
  <2> QED
    BY <1>3, <2>1, OtherCalls
<1>4. CASE Loaded(c)
  <2>1. CASE c.ans.is = "status" /\ c.ans.id # 0 /\ shown = None
    <3>1. c.ans.id \in Task
      BY <1>1, <2>1
    <3> QED
      BY <1>2, <1>4, <2>1, <3>1 DEF Loaded
  <2>2. CASE ~(c.ans.is = "status" /\ c.ans.id # 0 /\ shown = None)
    BY <1>3, <1>4, <2>2 DEF Loaded, Drop
  <2> QED
    BY <2>1, <2>2
<1>5. CASE StartAnswered(c)
  <2>1. CASE c.ans.is = "started"
    <3>1. c.ans.id \in Task
      BY <1>1, <2>1, AnswerParts
    <3> QED
      BY <1>2, <1>5, <2>1, <3>1 DEF StartAnswered
  <2>2. CASE c.ans.is = "busy"
    <3>1. /\ shown' = None /\ timers' = timers /\ mounted' = mounted
          /\ calls' = (calls \ {c}) \cup {Call("load", 0)}
      BY <1>5, <2>2 DEF StartAnswered
    <3>2. ~Call("load", 0).live
      BY CallType DEF Kinds
    <3>3. Live' = Live /\ ~Active'
      BY <1>1, <3>1, <3>2 DEF Live, Active, None
    <3> QED
      BY <3>1, <3>3 DEF OneChain
  <2>3. CASE c.ans.is \notin {"started", "busy"}
    BY <1>3, <1>5, <2>3 DEF StartAnswered, Drop
  <2> QED
    BY <2>1, <2>2, <2>3
<1> QED
  BY <1>4, <1>5

LEMMA PollKeepsOneChain ==
  ASSUME TypeOK, OneChain, NEW c \in calls, PollAnswered(c) \/ JudgeAnswered(c)
  PROVE  OneChain'
<1>0. mounted' = mounted
  BY DEF PollAnswered, JudgeAnswered
<1>1. CASE ~c.live /\ calls' = calls \ {c} /\ UNCHANGED <<shown, timers>>
  <2>1. Live' = Live
    BY <1>1 DEF Live
  <2> QED
    BY <1>0, <1>1, <2>1, OtherCalls
<1>2. CASE c.live
  <2>1. Live = {c} /\ timers = {}
    BY <1>2 DEF OneChain, Live
  <2>2. CASE calls' = calls \ {c} /\ timers' = timers \cup {c.id}
    <3>1. Live' = {} /\ timers' = {c.id}
      BY <2>1, <2>2 DEF Live
    <3> QED
      BY <3>1 DEF OneChain
  <2>3. CASE calls' = calls \ {c} /\ timers' = timers /\ shown'.state \in {"success", "failed"}
    <3>1. Live' = {} /\ timers' = {} /\ ~Active'
      BY <2>1, <2>3 DEF Live, Active
    <3> QED
      BY <3>1 DEF OneChain
  <2>4. CASE PollAnswered(c) /\ calls' = (calls \ {c}) \cup {[c EXCEPT !.kind = "judge", !.ans = Wait]}
             /\ UNCHANGED <<timers, shown>>
    <3>1. [c EXCEPT !.kind = "judge", !.ans = Wait].live = c.live
      BY <2>4, JudgeType DEF PollAnswered, TypeOK
    <3> QED
      BY <1>0, <2>4, <3>1, LiveReplaced
  <2>5. CASE PollAnswered(c)
    <3>1. ASSUME c.ans.is \in {"success", "failed"}, shown' = [id |-> c.id, state |-> c.ans.is]
          PROVE  shown'.state \in {"success", "failed"}
      BY <3>1
    <3> QED
      BY <1>2, <2>2, <2>3, <2>4, <2>5, <3>1, PollCases
  <2>6. CASE JudgeAnswered(c)
    <3>1. \A w \in {"success", "failed"} :
            shown' = [shown EXCEPT !.state = w] => shown'.state \in {"success", "failed"}
      BY DEF TypeOK
    <3> QED
      BY <1>2, <2>2, <2>3, <2>6, <3>1, JudgeCases
  <2> QED
    BY <2>5, <2>6
<1>3. CASE ~c.live
  BY <1>1, <1>3, PollCases, JudgeCases
<1> QED
  BY <1>2, <1>3

LEMMA CardKeepsOneChain ==
  ASSUME TypeOK, OneChain,
         \/ Probe \/ ConfirmRestart \/ \E c \in calls : RestartAnswered(c) \/ ProbeAnswered(c)
         \/ ConfirmUpgrade \/ Leave \/ \E t \in Task : Tick(t)
         \/ FinishSome \/ Die \/ Boot \/ \E t \in Task : StartElsewhere(t)
  PROVE  OneChain'
<1>0. ~Call("probe", 0).live /\ ~Call("restart", 0).live /\ ~Call("start", 0).live
  BY CallType DEF Kinds
<1>1. CASE Probe \/ ConfirmRestart \/ ConfirmUpgrade
  <2>1. Live' = Live /\ UNCHANGED <<timers, shown, mounted>>
    BY <1>0, <1>1 DEF Probe, ConfirmRestart, ConfirmUpgrade, Live
  <2> QED
    BY <2>1, OtherCalls
<1>2. ASSUME NEW c \in calls, RestartAnswered(c) \/ ProbeAnswered(c)
      PROVE  OneChain'
  <2>1. ~c.live /\ calls' = calls \ {c} /\ UNCHANGED <<timers, shown, mounted>>
    BY <1>2 DEF RestartAnswered, ProbeAnswered, TypeOK, IsCall
  <2>2. Live' = Live
    BY <2>1 DEF Live
  <2> QED
    BY <2>1, <2>2, OtherCalls
<1>3. CASE Leave
  <2>1. Live' = {} /\ timers' = {} /\ mounted' = FALSE
    BY <1>3 DEF Leave, Live, TypeOK, IsCall
  <2> QED
    BY <2>1 DEF OneChain
<1>4. ASSUME NEW t \in Task, Tick(t)
      PROVE  OneChain'
  <2>1. Call("poll", t).live
    BY CallType DEF Kinds
  <2>2. Live = {} /\ timers = {t}
    BY <1>4 DEF Tick, OneChain
  <2>3. Live' = {Call("poll", t)} /\ timers' = {}
    BY <1>4, <2>1, <2>2 DEF Tick, Live
  <2> QED
    BY <2>3 DEF OneChain
<1>5. CASE FinishSome \/ Die \/ Boot \/ \E t \in Task : StartElsewhere(t)
  <2>1. UNCHANGED <<timers, shown, mounted>> /\ calls' = calls
    BY <1>5 DEF FinishSome, Finish, Die, Boot, StartElsewhere, panel
  <2> QED
    BY <2>1, OtherCalls DEF Live
<1> QED
  BY <1>1, <1>2, <1>3, <1>4, <1>5

\* A task shown as running on the open page is followed by one chain of polls,
\* and there never are two, whatever was attached to, refused and forgotten.
THEOREM ActiveIsFollowed == Spec => []ActiveIsFollowedOnce
<1>1. Init => OneChain
  <2> SUFFICES ASSUME Init PROVE OneChain
    OBVIOUS
  <2>1. ~Call("load", 0).live
    BY CallType DEF Kinds
  <2> QED
    BY <2>1 DEF Init, OneChain, Live, Active, None
<1>2. TypeOK /\ OneChain /\ [Next]_vars => OneChain'
  <2> SUFFICES ASSUME TypeOK, OneChain, [Next]_vars PROVE OneChain'
    OBVIOUS
  <2>1. CASE UNCHANGED vars
    BY <2>1, OtherCalls DEF vars, panel, Live
  <2>2. CASE Next
    BY <2>2, NextCases, ServeKeepsOneChain, LoadKeepsOneChain, PollKeepsOneChain, CardKeepsOneChain
  <2> QED
    BY <2>1, <2>2
<1>3. OneChain => ActiveIsFollowedOnce
  <2> SUFFICES ASSUME OneChain PROVE ActiveIsFollowedOnce
    OBVIOUS
  <2>1. Cardinality({}) = 0 /\ \A x : Cardinality({x}) = 1
    BY FS_EmptySet, FS_Singleton
  <2>2. Live = {} \/ \E c : Live = {c}
    BY DEF OneChain
  <2>3. timers = {} \/ \E t : timers = {t}
    BY DEF OneChain
  <2>4. Cardinality(Live) = (IF Live = {} THEN 0 ELSE 1)
    BY <2>1, <2>2
  <2>5. Cardinality(timers) = (IF timers = {} THEN 0 ELSE 1)
    BY <2>1, <2>3
  <2> QED
    BY <2>4, <2>5 DEF OneChain, ActiveIsFollowedOnce
<1> QED
  BY <1>1, <1>2, <1>3, TypeCorrect, PTL DEF Spec

-----------------------------------------------------------------------------
(* Verdicts.                                                               *)

\* Whatever says that an upgrade took, a task, the version, an answer or the
\* card, is right.
Real ==
  /\ \A t \in Task : st[t] = "success" => took
  /\ ver = New => took
  /\ \A c \in calls : c.ans.ver = New \/ c.ans.is = "success" => took
  /\ shown.state = "success" => took

\* The page moves answers about and asks for more; its verdict has a reason.
LEMMA PageKeepsReal ==
  ASSUME Real, UNCHANGED server, shown'.state = "success" => took,
         \A d \in calls' : d.ans = Wait \/ \E e \in calls : d.ans = e.ans
  PROVE  Real'
<1>1. Wait.ver = 0 /\ Wait.is = "wait"
  BY DEF Wait
<1> QED
  BY <1>1 DEF Real, server, New

LEMMA ServeKeepsReal ==
  ASSUME TypeOK, Real, NEW c \in calls, Serve(c)
  PROVE  Real'
<1>1. PICK a \in Answers : /\ Answer(c, a)
                           /\ c.kind = "poll" => a.is \in {"lost", "running", "success", "failed"}
                           /\ a.is = "success" => c.kind = "poll" /\ st[a.id] = "success"
                           /\ a.ver # 0 => a.ver = ver
  BY ServeCases
<1>2. [c EXCEPT !.ans = a].ans = a
  BY <1>1, AnsweredType DEF TypeOK
<1>3. a.is = "success" => a.id \in Task
  BY AnswerParts
<1>4. shown' = shown /\ ver' = ver /\ took' = took
      /\ (st' = st \/ \E t \in Task : st' = [st EXCEPT ![t] = "running"])
  BY ServeCases DEF server, Started
<1>5. \A t \in Task : st'[t] = "success" => st[t] = "success"
  BY <1>4 DEF TypeOK
<1>6. \A d \in calls' : d \in calls \/ d.ans = a
  BY <1>1, <1>2 DEF Answer
<1>7. a.ver = New \/ a.is = "success" => took
  BY <1>1, <1>3 DEF Real, New
<1> QED
  BY <1>4, <1>5, <1>6, <1>7 DEF Real

LEMMA LoadKeepsReal ==
  ASSUME TypeOK, Real, NEW c \in calls, Loaded(c) \/ StartAnswered(c)
  PROVE  Real'
<1>1. c.ans \in Answers /\ c.ans.id \in 0..MaxTask /\ UNCHANGED server
  BY AnswerParts, IsCallParts DEF TypeOK, Loaded, StartAnswered
<1>2. CASE calls' = calls \ {c} /\ shown' = shown
  BY <1>1, <1>2, PageKeepsReal DEF Real
<1>3. ASSUME NEW t \in Task, Attach(c, t), shown' = [id |-> t, state |-> "running"]
      PROVE  Real'
  <2>1. \A d \in calls' : d.ans = Wait \/ \E e \in calls : d.ans = e.ans
    BY <1>3, AttachType
  <2> QED
    BY <1>1, <1>3, <2>1, PageKeepsReal
<1>4. CASE /\ shown' = None /\ calls' = (calls \ {c}) \cup {Call("load", 0)}
  <2>1. Call("load", 0).ans = Wait /\ shown'.state # "success"
    BY <1>4, CallType DEF Kinds, None
  <2> QED
    BY <1>1, <1>4, <2>1, PageKeepsReal
<1>5. CASE Loaded(c)
  <2>1. CASE c.ans.is = "status" /\ c.ans.id # 0 /\ shown = None
    <3>1. c.ans.id \in Task
      BY <1>1, <2>1
    <3> QED
      BY <1>3, <1>5, <2>1, <3>1 DEF Loaded
  <2>2. CASE ~(c.ans.is = "status" /\ c.ans.id # 0 /\ shown = None)
    BY <1>2, <1>5, <2>2 DEF Loaded, Drop
  <2> QED
    BY <2>1, <2>2
<1>6. CASE StartAnswered(c)
  <2>1. CASE c.ans.is = "started"
    <3>1. c.ans.id \in Task
      BY <1>1, <2>1, AnswerParts
    <3> QED
      BY <1>3, <1>6, <2>1, <3>1 DEF StartAnswered
  <2>2. CASE c.ans.is = "busy"
    BY <1>4, <1>6, <2>2 DEF StartAnswered
  <2>3. CASE c.ans.is \notin {"started", "busy"}
    BY <1>2, <1>6, <2>3 DEF StartAnswered, Drop
  <2> QED
    BY <2>1, <2>2, <2>3
<1> QED
  BY <1>5, <1>6

LEMMA PollKeepsReal ==
  ASSUME TypeOK, Real, NEW c \in calls, PollAnswered(c) \/ JudgeAnswered(c)
  PROVE  Real'
<1>1. UNCHANGED server /\ c \in calls
  BY DEF PollAnswered, JudgeAnswered
<1>2. CASE PollAnswered(c)
  <2>1. c.kind = "poll" /\ [c EXCEPT !.kind = "judge", !.ans = Wait].ans = Wait
    BY <1>2, JudgeType DEF PollAnswered, TypeOK
  <2>2. \A d \in calls' : d.ans = Wait \/ \E e \in calls : d.ans = e.ans
    BY <1>2, <2>1, PollCases
  <2>3. \/ shown' = shown \/ shown' = [id |-> c.id, state |-> "running"]
        \/ shown' = [id |-> c.id, state |-> c.ans.is]
    BY <1>2, PollCases
  <2>4. shown'.state = "success" => took
    BY <2>3 DEF Real
  <2> QED
    BY <1>1, <2>2, <2>4, PageKeepsReal
<1>3. CASE JudgeAnswered(c)
  <2>1. calls' = calls \ {c}
    BY <1>3, JudgeCases
  <2>2. \/ shown' = shown \/ shown' = [id |-> c.ans.id, state |-> "running"]
        \/ \E w \in {"success", "failed"} : /\ shown' = [shown EXCEPT !.state = w]
                                            /\ w = "success" => c.ans.ver = New
    BY <1>3, JudgeCases
  <2>3. \A w : [shown EXCEPT !.state = w].state = w
    BY DEF TypeOK
  <2>4. shown'.state = "success" => took
    <3>1. CASE shown' = shown \/ shown' = [id |-> c.ans.id, state |-> "running"]
      BY <3>1 DEF Real
    <3>2. ASSUME NEW w \in {"success", "failed"}, shown' = [shown EXCEPT !.state = w],
                 w = "success" => c.ans.ver = New
          PROVE  shown'.state = "success" => took
      BY <1>1, <2>3, <3>2 DEF Real
    <3> QED
      BY <2>2, <3>1, <3>2
  <2> QED
    BY <1>1, <2>1, <2>4, PageKeepsReal
<1> QED
  BY <1>2, <1>3

LEMMA CardKeepsReal ==
  ASSUME TypeOK, Real,
         \/ Probe \/ ConfirmRestart \/ \E c \in calls : RestartAnswered(c) \/ ProbeAnswered(c)
         \/ ConfirmUpgrade \/ Leave \/ \E t \in Task : Tick(t)
  PROVE  Real'
<1>1. UNCHANGED server /\ shown' = shown
  BY DEF Probe, ConfirmRestart, RestartAnswered, ProbeAnswered, ConfirmUpgrade, Leave, Tick
<1>2. /\ Call("probe", 0).ans = Wait /\ Call("restart", 0).ans = Wait /\ Call("start", 0).ans = Wait
      /\ \A t \in Task : Call("poll", t).ans = Wait
  BY CallType DEF Kinds
<1>3. \A d \in calls' : d.ans = Wait \/ d \in calls
  <2>1. \/ calls' \subseteq calls
        \/ \E d : d.ans = Wait /\ calls' = calls \cup {d}
    BY <1>2 DEF Probe, ConfirmRestart, RestartAnswered, ProbeAnswered, ConfirmUpgrade, Leave, Tick
  <2> QED
    BY <2>1
<1> QED
  BY <1>1, <1>3, PageKeepsReal DEF Real

LEMMA ServerKeepsReal ==
  ASSUME TypeOK, Real, FinishSome \/ Die \/ Boot \/ \E t \in Task : StartElsewhere(t)
  PROVE  Real'
<1>1. shown' = shown /\ calls' = calls
  BY DEF FinishSome, Finish, Die, Boot, StartElsewhere, panel
<1>2. CASE FinishSome
  <2>1. PICK t \in Task : Finish(t)
    BY <1>2 DEF FinishSome
  <2>2. /\ ver' = ver /\ (took => took')
        /\ \A s \in Task : st'[s] = "success" => st[s] = "success" \/ took'
    BY <2>1 DEF Finish, TypeOK
  <2> QED
    BY <1>1, <2>2 DEF Real
<1>3. CASE Die
  <2>1. ver' = ver /\ took' = took /\ \A t \in Task : st'[t] # "success"
    BY <1>3 DEF Die
  <2> QED
    BY <1>1, <2>1 DEF Real
<1>4. CASE Boot
  <2>1. st' = st /\ (took => took') /\ (ver' = New => ver = New \/ took')
    BY <1>4 DEF Boot, Old, New
  <2> QED
    BY <1>1, <2>1 DEF Real
<1>5. ASSUME NEW t \in Task, StartElsewhere(t)
      PROVE  Real'
  <2>1. /\ ver' = ver /\ took' = took
        /\ \A s \in Task : st'[s] = "success" => st[s] = "success"
    BY <1>5 DEF StartElsewhere, Started, TypeOK
  <2> QED
    BY <1>1, <2>1 DEF Real
<1> QED
  BY <1>2, <1>3, <1>4, <1>5

\* The card reports an upgrade only if one succeeded or the new version ran.
THEOREM SuccessIsReal == Spec => []SuccessWasReal
<1>1. Init => Real
  <2> SUFFICES ASSUME Init PROVE Real
    OBVIOUS
  <2>1. Call("load", 0).ans = Wait /\ Wait.ver = 0 /\ Wait.is = "wait"
    BY CallType DEF Kinds, Wait
  <2> QED
    BY <2>1 DEF Init, Real, None, Old, New
<1>2. TypeOK /\ Real /\ [Next]_vars => Real'
  <2> SUFFICES ASSUME TypeOK, Real, [Next]_vars PROVE Real'
    OBVIOUS
  <2>1. CASE UNCHANGED vars
    BY <2>1 DEF vars, panel, server, Real
  <2>2. CASE Next
    BY <2>2, NextCases, ServeKeepsReal, LoadKeepsReal, PollKeepsReal, CardKeepsReal, ServerKeepsReal
  <2> QED
    BY <2>1, <2>2
<1>3. Real => SuccessWasReal
  BY DEF Real, SuccessWasReal
<1> QED
  BY <1>1, <1>2, <1>3, TypeCorrect, PTL DEF Spec

-----------------------------------------------------------------------------
(* The restart card.                                                       *)

CardCall(c) == c.kind \in {"restart", "probe"}

\* The card has one call at most, the one its state says; the process has died
\* by the time the card sees it silent, or is let wait for a silence, or the card
\* was misled.
DeathSeen ==
  /\ \A c, d \in calls : CardCall(c) /\ CardCall(d) => c = d
  /\ \A c \in calls : c.kind = "restart" => rst.at = "posting"
  /\ \A c \in calls : c.kind = "probe" => rst.at = "probing"
  /\ ~up /\ rst.at \in {"timer", "probing"} => Seen
  /\ \A c \in calls : c.kind = "restart" /\ c.ans \notin {Wait, Lost} /\ ~up => Seen
  /\ \A c \in calls : c.kind = "probe" /\ (c.ans = Lost \/ c.ans.is = "denied") => Seen
  /\ rst.saw => Seen
  /\ verdict = "restarted" => rst.at = "idle" /\ Seen

\* The other card's calls do not matter.
LEMMA OthersKeepDeathSeen ==
  ASSUME DeathSeen, UNCHANGED <<up, rst, verdict>>, \A d \in calls' : CardCall(d) => d \in calls
  PROVE  DeathSeen'
BY DEF DeathSeen, CardCall, Seen

LEMMA ServeKeepsDeathSeen ==
  ASSUME TypeOK, DeathSeen, NEW c \in calls, Serve(c)
  PROVE  DeathSeen'
<1>1. PICK a \in Answers : /\ Answer(c, a)
                           /\ c.kind = "poll" => a.is \in {"lost", "running", "success", "failed"}
                           /\ c.kind = "restart" => a \in {Lost} \/ up
                           /\ c.kind = "probe" /\ a = Lost => ~up \/ Seen'
                           /\ c.kind = "probe" /\ a.is = "denied" => Seen'
  BY ServeCases
<1>2. PICK d : d = [c EXCEPT !.ans = a]
  OBVIOUS
<1>3. d.kind = c.kind /\ d.ans = a /\ calls' = (calls \ {c}) \cup {d}
  BY <1>1, <1>2, AnsweredType DEF TypeOK, Answer
<1>4. up' = up /\ verdict' = verdict /\ rst'.at = rst.at /\ rst'.saw = rst.saw /\ (Seen => Seen')
  BY ServeCases DEF server, GhostUp
<1>5. CASE ~CardCall(c)
  <2>1. \A e \in calls' : CardCall(e) => e \in calls
    BY <1>3, <1>5 DEF CardCall
  <2> QED
    BY <1>4, <2>1 DEF DeathSeen, CardCall
<1>6. CASE CardCall(c)
  <2>1. \A e \in calls' : CardCall(e) => e = d
    BY <1>3, <1>6 DEF DeathSeen
  <2>2. d.kind = "probe" /\ (d.ans = Lost \/ d.ans.is = "denied") => Seen'
    BY <1>1, <1>3, <1>4 DEF DeathSeen
  <2>3. d.kind = "restart" /\ d.ans \notin {Wait, Lost} => up
    BY <1>1, <1>3
  <2> QED
    BY <1>3, <1>4, <2>1, <2>2, <2>3 DEF DeathSeen, CardCall
<1> QED
  BY <1>5, <1>6

LEMMA UpgradeCardKeepsDeathSeen ==
  ASSUME TypeOK, DeathSeen,
         \/ \E c \in calls : Loaded(c) \/ StartAnswered(c) \/ PollAnswered(c) \/ JudgeAnswered(c)
         \/ ConfirmUpgrade \/ \E t \in Task : Tick(t)
  PROVE  DeathSeen'
<1>1. UNCHANGED <<up, rst, verdict>>
  BY DEF Loaded, StartAnswered, PollAnswered, JudgeAnswered, ConfirmUpgrade, Tick, server, card
<1>2. /\ Call("load", 0).kind = "load" /\ Call("start", 0).kind = "start"
      /\ \A t : Call("poll", t).kind = "poll"
  BY DEF Call
<1>3. \A c \in calls : /\ [c EXCEPT !.live = FALSE].kind = c.kind
                       /\ [c EXCEPT !.kind = "judge", !.ans = Wait].kind = "judge"
                       /\ CardCall(c) => [c EXCEPT !.live = FALSE] = c
  BY DEF TypeOK, IsCall, CardCall
<1>4. \A c \in calls : \A t : Attach(c, t) => \A d \in calls' : CardCall(d) => d \in calls
  <2> SUFFICES ASSUME NEW c \in calls, NEW t, Attach(c, t), NEW d \in calls', CardCall(d)
               PROVE  d \in calls
    OBVIOUS
  <2>1. d # Call("poll", t)
    BY <1>2 DEF CardCall
  <2>2. PICK e \in calls : d = [e EXCEPT !.live = FALSE]
    BY <2>1 DEF Attach, Stopped
  <2> QED
    BY <1>3, <2>2 DEF CardCall
<1>5. ASSUME NEW c \in calls, Loaded(c) \/ StartAnswered(c)
      PROVE  DeathSeen'
  <2>1. \/ \E t : Attach(c, t)
        \/ calls' = calls \ {c} \/ calls' = (calls \ {c}) \cup {Call("load", 0)}
    BY <1>5 DEF Loaded, StartAnswered, Drop
  <2> QED
    BY <1>1, <1>2, <1>4, <2>1, OthersKeepDeathSeen DEF CardCall
<1>6. ASSUME NEW c \in calls, PollAnswered(c) \/ JudgeAnswered(c)
      PROVE  DeathSeen'
  <2>1. calls' = calls \ {c} \/ calls' = (calls \ {c}) \cup {[c EXCEPT !.kind = "judge", !.ans = Wait]}
    BY <1>6, PollCases, JudgeCases
  <2> QED
    BY <1>1, <1>3, <2>1, OthersKeepDeathSeen DEF CardCall
<1>7. CASE ConfirmUpgrade \/ \E t \in Task : Tick(t)
  BY <1>1, <1>2, <1>7, OthersKeepDeathSeen DEF ConfirmUpgrade, Tick, CardCall
<1> QED
  BY <1>5, <1>6, <1>7

\* No call of the card is under way while it is idle or waits for a timer.
LEMMA NoCardCall ==
  ASSUME DeathSeen, rst.at \in {"idle", "timer"}
  PROVE  \A c \in calls : ~CardCall(c)
BY DEF DeathSeen, CardCall

LEMMA RestartCardKeepsDeathSeen ==
  ASSUME TypeOK, DeathSeen,
         Probe \/ ConfirmRestart \/ Leave \/ \E c \in calls : RestartAnswered(c) \/ ProbeAnswered(c)
  PROVE  DeathSeen'
<1>0. /\ Call("probe", 0).kind = "probe" /\ Call("restart", 0).kind = "restart"
      /\ Call("probe", 0).ans = Wait /\ Call("restart", 0).ans = Wait
      /\ Wait.is = "wait" /\ Wait # Lost
  BY DEF Call, Wait, Lost
<1>a. CardType
  BY TypeParts
<1>1. CASE Probe
  <2>1. /\ rst.at = "timer" /\ rst'.at = "probing" /\ Seen' = Seen /\ rst'.saw = rst.saw
        /\ calls' = calls \cup {Call("probe", 0)} /\ UNCHANGED <<up, verdict>>
    BY <1>1, <1>a DEF Probe, server, CardType, Seen
  <2>2. \A c \in calls' : CardCall(c) => c = Call("probe", 0)
    BY <2>1, NoCardCall
  <2> QED
    BY <1>0, <2>1, <2>2 DEF DeathSeen, CardCall
<1>2. CASE ConfirmRestart
  <2>1. /\ rst.at = "idle" /\ rst'.at = "posting" /\ Seen' = FALSE /\ rst'.saw = FALSE
        /\ calls' = calls \cup {Call("restart", 0)} /\ up' = up /\ verdict' = "none"
    BY <1>2, <1>a DEF ConfirmRestart, server, CardType, Quiet, Seen
  <2>2. \A c \in calls' : CardCall(c) => c = Call("restart", 0)
    BY <2>1, NoCardCall
  <2> QED
    BY <1>0, <2>1, <2>2 DEF DeathSeen, CardCall
<1>3. CASE Leave
  <2>1. calls' \subseteq calls /\ up' = up /\ verdict' = verdict
    BY <1>3 DEF Leave, server
  <2>2. CASE rst' = rst
    BY <2>1, <2>2 DEF DeathSeen, CardCall, Seen
  <2>3. CASE rst.at = "timer" /\ rst' = Quiet
    <3>1. \A c \in calls' : ~CardCall(c)
      BY <2>1, <2>3, NoCardCall
    <3> QED
      BY <2>1, <2>3, <3>1 DEF DeathSeen, CardCall, Quiet, Seen
  <2> QED
    BY <1>3, <2>2, <2>3 DEF Leave
<1>4. ASSUME NEW c \in calls, RestartAnswered(c)
      PROVE  DeathSeen'
  <2>1. /\ c.kind = "restart" /\ c.ans # Wait /\ calls' = calls \ {c} /\ up' = up /\ rst.at = "posting"
    BY <1>4 DEF RestartAnswered, server, DeathSeen
  <2>2. \A d \in calls' : ~CardCall(d)
    BY <2>1 DEF DeathSeen, CardCall
  <2>3. CASE c.ans = Lost
    <3>1. rst' = Quiet /\ verdict' = "refused"
      BY <1>4, <2>3 DEF RestartAnswered
    <3> QED
      BY <2>2, <3>1 DEF DeathSeen, CardCall, Quiet, Seen
  <2>4. CASE c.ans # Lost
    <3>1. rst'.at = "timer" /\ Seen' = Seen /\ rst'.saw = rst.saw /\ verdict' = verdict
      BY <1>4, <1>a, <2>4 DEF RestartAnswered, CardType, Seen
    <3>2. ~up => Seen
      BY <2>1, <2>4 DEF DeathSeen
    <3> QED
      BY <2>1, <2>2, <3>1, <3>2 DEF DeathSeen, CardCall
  <2> QED
    BY <2>3, <2>4
<1>5. ASSUME NEW c \in calls, ProbeAnswered(c)
      PROVE  DeathSeen'
  <2>1. c.kind = "probe" /\ calls' = calls \ {c} /\ up' = up /\ rst.at = "probing"
    BY <1>5 DEF ProbeAnswered, server, DeathSeen
  <2>2. \A d \in calls' : ~CardCall(d)
    BY <2>1 DEF DeathSeen, CardCall
  <2>3. CASE Restarted(c)
    <3>1. rst' = Concluded /\ verdict' = "restarted"
      BY <1>5, <2>3 DEF ProbeAnswered
    <3>2. rst'.at = "idle" /\ rst'.saw = FALSE /\ Seen' = Seen
      BY <3>1 DEF Quiet, Concluded, Seen
    <3>3. Seen
      BY <2>1, <2>3 DEF Restarted, DeathSeen
    <3> QED
      BY <2>2, <3>1, <3>2, <3>3 DEF DeathSeen, CardCall
  <2>4. CASE ~Restarted(c) /\ Again(c)
    <3>1. /\ rst' = [rst EXCEPT !.at = "timer", !.left = rst.left - 1,
                                !.saw = rst.saw \/ c.ans = Lost, !.held = c.ans = Lost]
          /\ verdict' = verdict
      BY <1>5, <2>4 DEF ProbeAnswered
    <3>2. /\ rst'.at = "timer" /\ Seen' = Seen
          /\ rst'.saw => rst.saw \/ c.ans = Lost
      BY <1>a, <3>1 DEF CardType, Seen
    <3> QED
      BY <2>1, <2>2, <3>1, <3>2 DEF DeathSeen, CardCall
  <2>5. CASE ~Restarted(c) /\ ~Again(c)
    <3>1. rst' = Quiet /\ verdict' = "unseen"
      BY <1>5, <2>5 DEF ProbeAnswered
    <3> QED
      BY <2>2, <3>1 DEF DeathSeen, CardCall, Quiet, Seen
  <2> QED
    BY <2>3, <2>4, <2>5
<1> QED
  BY <1>1, <1>2, <1>3, <1>4, <1>5

LEMMA ServerKeepsDeathSeen ==
  ASSUME TypeOK, DeathSeen, FinishSome \/ Die \/ Boot \/ \E t \in Task : StartElsewhere(t)
  PROVE  DeathSeen'
<1>1. CASE FinishSome \/ \E t \in Task : StartElsewhere(t)
  <2>1. UNCHANGED <<up, rst, verdict, calls>>
    BY <1>1 DEF FinishSome, Finish, StartElsewhere, panel, card
  <2> QED
    BY <2>1, OthersKeepDeathSeen
<1>2. CASE Die
  <2>1. /\ calls' = calls /\ verdict' = verdict /\ rst'.at = rst.at /\ rst'.saw = rst.saw
        /\ rst' = [rst EXCEPT !.died = rst.at # "idle" \/ rst.died]
    BY <1>2, TypeParts DEF Die, panel, CardType
  <2>2. Seen' <=> rst.at # "idle" \/ Seen
    BY <2>1, TypeParts DEF CardType, Seen
  <2> QED
    BY <2>1, <2>2 DEF DeathSeen, CardCall
<1>3. CASE Boot
  <2>1. up' = TRUE /\ UNCHANGED <<calls, rst, verdict>>
    BY <1>3 DEF Boot, panel, card
  <2> QED
    BY <2>1 DEF DeathSeen, CardCall, Seen
<1> QED
  BY <1>1, <1>2, <1>3

\* The card never takes a server that just goes on answering for a restarted
\* one, however long it is kept up and whatever the other card does meanwhile.
THEOREM RestartIsReal == Spec => []RestartWasReal
<1>1. Init => DeathSeen
  <2> SUFFICES ASSUME Init PROVE DeathSeen
    OBVIOUS
  <2>1. Call("load", 0).kind = "load"
    BY DEF Call
  <2> QED
    BY <2>1 DEF Init, DeathSeen, CardCall, Quiet
<1>2. TypeOK /\ DeathSeen /\ [Next]_vars => DeathSeen'
  <2> SUFFICES ASSUME TypeOK, DeathSeen, [Next]_vars PROVE DeathSeen'
    OBVIOUS
  <2>1. CASE UNCHANGED vars
    BY <2>1, OthersKeepDeathSeen DEF vars, panel, server, card
  <2>2. CASE Next
    BY <2>2, NextCases, ServeKeepsDeathSeen, UpgradeCardKeepsDeathSeen,
       RestartCardKeepsDeathSeen, ServerKeepsDeathSeen
  <2> QED
    BY <2>1, <2>2
<1>3. DeathSeen => RestartWasReal
  BY DEF DeathSeen, RestartWasReal, Seen
<1> QED
  BY <1>1, <1>2, <1>3, TypeCorrect, PTL DEF Spec
=============================================================================
