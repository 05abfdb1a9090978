--------------------------- MODULE AcmePanelProofs ---------------------------
(***************************************************************************)
(* Theorems about AcmePanel, for any domains, tasks, slots, histories and  *)
(* deadlines.                                                              *)
(***************************************************************************)
EXTENDS AcmePanel, TLAPS, FiniteSetTheorems

USE AcmeAssumption DEF Task

-----------------------------------------------------------------------------
(* Type correctness.                                                       *)

\* A call that is given an answer stays the call it was.
LEMMA GiveEffect ==
  ASSUME calls \subseteq Call, NEW c \in calls, NEW a \in Answers, Give(c, a)
  PROVE  /\ calls' \subseteq Call
         /\ \A d \in calls' : d \in calls \/
              /\ d.at = c.at /\ d.key = c.key /\ d.id = c.id
              /\ d.held = c.held /\ d.ans = a
         /\ \E d \in calls' : d.at = c.at /\ d.id = c.id
<1>1. c \in Call
  OBVIOUS
<1>2. [c EXCEPT !.ans = a] \in Call
  BY <1>1 DEF Call
<1>3. /\ [c EXCEPT !.ans = a].at = c.at /\ [c EXCEPT !.ans = a].key = c.key
      /\ [c EXCEPT !.ans = a].id = c.id /\ [c EXCEPT !.ans = a].held = c.held
      /\ [c EXCEPT !.ans = a].ans = a
  BY <1>1 DEF Call
<1> QED
  BY <1>2, <1>3 DEF Give

\* The request r makes task t, in state st.
Makes(k, r, t, st) ==
  /\ tasks[t].st = "none" /\ (st = "success" => k \in cached)
  /\ r.ans = [is |-> st, id |-> t]
  /\ r.ts = [tasks EXCEPT ![t] = [key |-> k, st |-> st]]

\* A request finds the issuing under way, is refused, or makes a task of its own
\* for a domain that had none under way.
LEMMA RequestCases ==
  ASSUME NEW k \in Keys, NEW r \in Request(k)
  PROVE  \/ r.ts = tasks /\ r.ans = Refused
         \/ r.ts = tasks /\ \E t \in Inflight(k) : r.ans = [is |-> tasks[t].st, id |-> t]
         \/ /\ Inflight(k) = {}
            /\ \E t \in Task, st \in {"success", "pending"} : Makes(k, r, t, st)
<1>1. CASE Inflight(k) # {}
  BY <1>1 DEF Request
<1>2. CASE Inflight(k) = {} /\ k \in cooling
  BY <1>2 DEF Request
<1>3. CASE Inflight(k) = {} /\ k \notin cooling
  <2>1. PICK st \in {"success", "pending"} : (st = "success" => k \in cached) /\ r \in Added(k, st)
    BY <1>3 DEF Request
  <2>2. PICK t \in Task : /\ Fresh(t)
                          /\ r = [ans |-> [is |-> st, id |-> t],
                                  ts |-> [tasks EXCEPT ![t] = [key |-> k, st |-> st]]]
    BY <2>1 DEF Added
  <2> QED
    BY <1>3, <2>1, <2>2 DEF Fresh, Makes
<1> QED
  BY <1>1, <1>2, <1>3

\* What the service answers is an answer, and the table stays a table: no task
\* that was made is forgotten or turned to another domain.
LEMMA RequestEffect ==
  ASSUME TypeOK, NEW k \in Keys, NEW r \in Request(k)
  PROVE  /\ r.ans \in Answers
         /\ r.ts \in [Task -> [key : Keys \cup {NoKey},
                               st : {"none", "pending", "running", "success", "failed", "gone"}]]
         /\ \A t \in Task : r.ts[t].st # "none" => r.ts[t].key \in Keys
         /\ \A t \in Task : tasks[t].st # "none" => r.ts[t] = tasks[t]
<1>1. CASE r.ts = tasks /\ r.ans = Refused
  BY <1>1 DEF Answers, TypeOK
<1>2. CASE r.ts = tasks /\ \E t \in Inflight(k) : r.ans = [is |-> tasks[t].st, id |-> t]
  BY <1>2 DEF Inflight, Busy, Answers, TypeOK
<1>3. ASSUME NEW t \in Task, NEW st \in {"success", "pending"}, Makes(k, r, t, st)
      PROVE  /\ r.ans \in Answers
             /\ r.ts \in [Task -> [key : Keys \cup {NoKey},
                                   st : {"none", "pending", "running", "success", "failed", "gone"}]]
             /\ \A u \in Task : r.ts[u].st # "none" => r.ts[u].key \in Keys
             /\ \A u \in Task : tasks[u].st # "none" => r.ts[u] = tasks[u]
  BY <1>3 DEF Makes, Answers, TypeOK
<1> QED
  BY <1>1, <1>2, <1>3, RequestCases

\* The next round of a chain is a call; so are the calls it lets go of.
LEMMA NextRoundEffect ==
  ASSUME calls \subseteq Call, NEW c \in calls, c.at = "poll", c.id \in Task,
         LeftAfter(c) > 0
  PROVE  /\ NextRound(c) \subseteq Call
         /\ \A d \in NextRound(c) :
              \/ d.at = "timer" /\ d.id = c.id /\ d.ans = Wait
              \/ \E e \in calls \ {c} : d.at = e.at /\ d.key = e.key /\ d.id = e.id /\ d.ans = e.ans
         /\ \E d \in NextRound(c) : d.at = "timer" /\ d.id = c.id
<1> DEFINE n == [Poll(c.id, LeftAfter(c)) EXCEPT !.at = "timer", !.held = TRUE]
<1>1. c.left \in 0..MaxPoll /\ LeftAfter(c) \in 0..MaxPoll
  BY DEF Call, LeftAfter
<1>2. n \in Call /\ n.at = "timer" /\ n.id = c.id /\ n.ans = Wait
  BY <1>1 DEF Call, Poll
<1>3. \A e \in calls \ {c} :
        /\ [e EXCEPT !.held = FALSE] \in Call
        /\ [e EXCEPT !.held = FALSE].at = e.at /\ [e EXCEPT !.held = FALSE].key = e.key
        /\ [e EXCEPT !.held = FALSE].id = e.id /\ [e EXCEPT !.held = FALSE].ans = e.ans
  BY DEF Call
<1>4. NextRound(c) = {[e EXCEPT !.held = FALSE] : e \in calls \ {c}} \cup {n}
  BY DEF NextRound
<1>5. NextRound(c) \subseteq Call
  BY <1>2, <1>3, <1>4
<1>6. ASSUME NEW d \in NextRound(c)
      PROVE  \/ d.at = "timer" /\ d.id = c.id /\ d.ans = Wait
             \/ \E e \in calls \ {c} :
                  d.at = e.at /\ d.key = e.key /\ d.id = e.id /\ d.ans = e.ans
  <2>1. CASE d = n
    BY <1>2, <2>1
  <2>2. CASE d # n
    <3>1. PICK e \in calls \ {c} : d = [e EXCEPT !.held = FALSE]
      BY <1>4, <2>2
    <3> QED
      BY <1>3, <3>1
  <2> QED
    BY <2>1, <2>2
<1>7. n \in NextRound(c)
  BY <1>4
<1> QED
  BY <1>2, <1>5, <1>6, <1>7

LEMMA InitType == Init => TypeOK
<1> SUFFICES ASSUME Init PROVE TypeOK
  OBVIOUS
<1>1. \A t \in Task : tasks[t] = [key |-> NoKey, st |-> "none"]
  BY DEF Init, Unused
<1>2. tasks \in [Task -> [key : Keys \cup {NoKey},
                         st : {"none", "pending", "running", "success", "failed", "gone"}]]
  BY DEF Init, Unused
<1>3. calls = {} /\ cooling = {} /\ cached = {} /\ issued = {} /\ boots = 0 /\ shown = 0
  BY DEF Init
<1>4. phase \in Phases /\ open \in BOOLEAN /\ mounted \in BOOLEAN
  BY DEF Init, Phases
<1> QED
  BY <1>1, <1>2, <1>3, <1>4 DEF TypeOK

\* The parts of the type invariant a step of the page alone may disturb.
LEMMA PageType ==
  ASSUME TypeOK, UNCHANGED server, calls' \subseteq Call,
         \A c \in calls' : c.at = "post" => c.key \in Keys,
         \A c \in calls' : c.at # "post" => c.id \in Task,
         phase' \in Phases, shown' \in 0..MaxTask, open' \in BOOLEAN, mounted' \in BOOLEAN
  PROVE  TypeOK'
BY DEF TypeOK, Made, server

\* Every answer a call is given keeps the types.
LEMMA GiveType ==
  ASSUME TypeOK, NEW c \in calls, NEW a \in Answers, Give(c, a),
         UNCHANGED <<server, dialog, mounted>>
  PROVE  TypeOK'
<1>1. /\ calls' \subseteq Call
      /\ \A d \in calls' : d \in calls \/ (d.at = c.at /\ d.key = c.key /\ d.id = c.id)
  BY GiveEffect DEF TypeOK
<1>2. /\ \A d \in calls' : d.at = "post" => d.key \in Keys
      /\ \A d \in calls' : d.at # "post" => d.id \in Task
  BY <1>1 DEF TypeOK
<1> QED
  BY <1>1, <1>2, PageType DEF TypeOK, dialog

\* The chain's steps, one by one.
LEMMA ChainType ==
  ASSUME TypeOK, ChainStep
  PROVE  TypeOK'
<1> PICK c \in Chains : ServePoll(c) \/ LoseCall(c) \/ Polled(c) \/ Tick(c)
  BY DEF ChainStep
<1>0. c \in calls /\ c \in Call /\ c.id \in Task /\ calls \subseteq Call
  BY DEF Chains, TypeOK
<1>1. CASE ServePoll(c)
  <2> DEFINE a == IF Known(c.id) THEN [is |-> tasks[c.id].st, id |-> c.id] ELSE Refused
  <2>1. a \in Answers
    <3>1. ASSUME Known(c.id)
          PROVE  [is |-> tasks[c.id].st, id |-> c.id] \in Answers
      BY <1>0, <3>1 DEF Known, Answers, TypeOK
    <3> QED
      BY <3>1 DEF Answers
  <2> QED
    BY <1>0, <1>1, <2>1, GiveType DEF ServePoll
<1>2. CASE LoseCall(c)
  BY <1>0, <1>2, GiveType DEF LoseCall, Answers
<1>3. CASE Polled(c)
  <2>1. c.at = "poll" /\ shown' = c.id /\ UNCHANGED <<server, open, mounted>>
    BY <1>3 DEF Polled
  <2>2. phase' \in Phases
    BY <1>3 DEF Polled, Phases, VerdictOf, TypeOK
  <2>3. CASE calls' = calls \ {c}
    BY <1>0, <2>1, <2>2, <2>3, PageType DEF TypeOK
  <2>4. CASE LeftAfter(c) > 0 /\ calls' = NextRound(c)
    <3>1. /\ calls' \subseteq Call
          /\ \A d \in calls' :
               \/ d.at = "timer" /\ d.id = c.id
               \/ \E e \in calls \ {c} : d.at = e.at /\ d.key = e.key /\ d.id = e.id
      BY <1>0, <2>1, <2>4, NextRoundEffect
    <3>2. /\ \A d \in calls' : d.at = "post" => d.key \in Keys
          /\ \A d \in calls' : d.at # "post" => d.id \in Task
      BY <1>0, <3>1 DEF TypeOK
    <3> QED
      BY <1>0, <2>1, <2>2, <3>1, <3>2, PageType DEF TypeOK
  <2> QED
    BY <1>3, <2>3, <2>4 DEF Polled
<1>4. CASE Tick(c)
  <2>1. Poll(c.id, c.left) \in Call /\ Poll(c.id, c.left).at = "poll" /\ Poll(c.id, c.left).id = c.id
    BY <1>0 DEF Poll, Call
  <2>2. /\ calls' \subseteq Call
        /\ \A d \in calls' : d.at = "post" => d.key \in Keys
        /\ \A d \in calls' : d.at # "post" => d.id \in Task
    BY <1>0, <1>4, <2>1 DEF Tick, TypeOK
  <2> QED
    BY <1>4, <2>2, PageType DEF Tick, TypeOK, dialog
<1> QED
  BY <1>1, <1>2, <1>3, <1>4

\* A submission's steps, one by one.
LEMMA PostType ==
  ASSUME TypeOK, PostStep
  PROVE  TypeOK'
<1> PICK c \in calls \ Chains : ServeSubmit(c) \/ LoseCall(c) \/ Submitted(c)
  BY DEF PostStep
<1>0. c \in calls /\ c \in Call /\ c.at = "post" /\ c.key \in Keys /\ calls \subseteq Call
  BY DEF Chains, TypeOK
<1>1. CASE ServeSubmit(c)
  <2>1. PICK r \in Request(c.key) : tasks' = r.ts /\ Give(c, r.ans)
    BY <1>1 DEF ServeSubmit
  <2>2. /\ r.ans \in Answers
        /\ tasks' \in [Task -> [key : Keys \cup {NoKey},
                               st : {"none", "pending", "running", "success", "failed", "gone"}]]
        /\ \A t \in Task : tasks'[t].st # "none" => tasks'[t].key \in Keys
    BY <1>0, <2>1, RequestEffect
  <2>3. /\ calls' \subseteq Call
        /\ \A d \in calls' : d \in calls \/ (d.at = c.at /\ d.key = c.key /\ d.id = c.id)
    BY <1>0, <2>1, <2>2, GiveEffect
  <2>4. /\ \A d \in calls' : d.at = "post" => d.key \in Keys
        /\ \A d \in calls' : d.at # "post" => d.id \in Task
    BY <1>0, <2>3 DEF TypeOK
  <2>5. \A t \in Task : tasks[t].st # "none" => tasks'[t] = tasks[t]
    BY <1>0, <2>1, RequestEffect
  <2>6. issued' \subseteq Made'
    BY <1>1, <2>5 DEF ServeSubmit, Made, TypeOK
  <2> QED
    BY <1>1, <2>2, <2>3, <2>4, <2>6 DEF ServeSubmit, TypeOK, dialog
<1>2. CASE LoseCall(c)
  BY <1>0, <1>2, GiveType DEF LoseCall, Answers
<1>3. CASE Submitted(c)
  <2>1. c.ans \in Answers /\ UNCHANGED <<server, open, mounted>>
    BY <1>0, <1>3 DEF Submitted, Call
  <2>2. CASE c.ans = Refused
    <3>1. calls' = calls \ {c} /\ UNCHANGED <<phase, shown>>
      BY <1>3, <2>2 DEF Submitted, Refused
    <3> QED
      BY <2>1, <3>1, PageType DEF TypeOK
  <2>3. CASE c.ans # Refused
    <3>1. c.ans.id \in Task
      BY <2>1, <2>3 DEF Answers
    <3>2. Poll(c.ans.id, MaxPoll) \in Call /\ Poll(c.ans.id, MaxPoll).at = "poll"
          /\ Poll(c.ans.id, MaxPoll).id = c.ans.id
      BY <3>1 DEF Poll, Call
    <3>3. calls' \subseteq calls \cup {Poll(c.ans.id, MaxPoll)}
          /\ phase' \in Phases /\ shown' = c.ans.id
      BY <1>3, <2>3 DEF Submitted, Stopped, Phases
    <3>4. /\ calls' \subseteq Call
          /\ \A d \in calls' : d.at = "post" => d.key \in Keys
          /\ \A d \in calls' : d.at # "post" => d.id \in Task
      BY <1>0, <3>1, <3>2, <3>3 DEF TypeOK
    <3> QED
      BY <2>1, <3>1, <3>3, <3>4, PageType DEF TypeOK
  <2> QED
    BY <2>2, <2>3
<1> QED
  BY <1>1, <1>2, <1>3

\* What changes the service alone.
LEMMA ServiceType ==
  ASSUME TypeOK,
         \/ RequestElsewhere \/ Restart
         \/ \E t \in Task : RunTask(t) \/ Obtain(t) \/ EndTask(t)
         \/ \E k \in Keys : CooldownOver(k)
  PROVE  TypeOK'
<1>1. CASE RequestElsewhere
  <2>1. PICK k \in Keys : \E r \in Request(k) : tasks' = r.ts
    BY <1>1 DEF RequestElsewhere
  <2>2. PICK r \in Request(k) : tasks' = r.ts
    BY <2>1
  <2>3. \A t \in Task : tasks[t].st # "none" => tasks'[t] = tasks[t]
    BY <2>2, RequestEffect
  <2>4. issued' \subseteq Made'
    BY <1>1, <2>3 DEF RequestElsewhere, Made, TypeOK
  <2> QED
    BY <1>1, <2>2, <2>4, RequestEffect DEF RequestElsewhere, TypeOK, dialog
<1>2. CASE Restart
  BY <1>2 DEF Restart, TypeOK, Made, Unused, dialog
<1>3. ASSUME NEW t \in Task, RunTask(t) \/ Obtain(t) \/ EndTask(t)
      PROVE  TypeOK'
  <2>1. CASE RunTask(t)
    BY <2>1 DEF RunTask, Made, TypeOK, dialog
  <2>3. CASE Obtain(t)
    BY <2>3 DEF Obtain, Made, TypeOK, dialog
  <2>2. CASE EndTask(t)
    <3>1. /\ tasks[t].key \in Keys /\ tasks' \in [Task -> [key : Keys \cup {NoKey},
              st : {"none", "pending", "running", "success", "failed", "gone"}]]
          /\ \A u \in Task : tasks'[u].key = tasks[u].key
          /\ \A u \in Task : (tasks'[u].st # "none") <=> (tasks[u].st # "none")
      <4>1. PICK st \in {"success", "failed"} : tasks' = [tasks EXCEPT ![t].st = st]
        BY <2>2 DEF EndTask
      <4> QED
        BY <2>2, <4>1 DEF EndTask, TypeOK
    <3>2. cooling' \subseteq Keys /\ cached' \subseteq Keys /\ issued' \subseteq Made'
      BY <2>2, <3>1 DEF EndTask, Made, TypeOK
    <3> QED
      BY <2>2, <3>1, <3>2 DEF EndTask, TypeOK, dialog
  <2> QED
    BY <1>3, <2>1, <2>2, <2>3
<1>4. ASSUME NEW k \in Keys, CooldownOver(k)
      PROVE  TypeOK'
  BY <1>4 DEF CooldownOver, Made, TypeOK, dialog
<1> QED
  BY <1>1, <1>2, <1>3, <1>4

\* What the user does.
LEMMA UserType ==
  ASSUME TypeOK, OpenRequest \/ Close \/ Back \/ Leave \/ \E k \in Keys : Submit(k)
  PROVE  TypeOK'
<1>1. CASE OpenRequest
  BY <1>1, PageType DEF OpenRequest, Reopened, Stopped, Phases, TypeOK
<1>2. CASE Close \/ Back
  BY <1>2, PageType DEF Close, Back, Phases, TypeOK
<1>3. CASE Leave
  BY <1>3, PageType DEF Leave, Stopped, dialog, TypeOK
<1>4. ASSUME NEW k \in Keys, Submit(k)
      PROVE  TypeOK'
  <2>1. Submission(k) \in Call /\ Submission(k).at = "post" /\ Submission(k).key = k
    BY DEF Submission, Call
  <2> QED
    BY <1>4, <2>1, PageType DEF Submit, dialog, TypeOK
<1> QED
  BY <1>1, <1>2, <1>3, <1>4

\* Every variable of the page and the service keeps its type: in particular
\* every answer names a task there is, or none.
THEOREM TypeCorrect == Spec => []TypeOK
<1>1. TypeOK /\ [Next]_vars => TypeOK'
  <2>1. TypeOK /\ UNCHANGED vars => TypeOK'
    BY DEF TypeOK, Made, vars, server, dialog
  <2> QED
    BY <2>1, ChainType, PostType, ServiceType, UserType DEF Next
<1> QED
  BY InitType, <1>1, PTL DEF Spec

-----------------------------------------------------------------------------
(* One issuing per domain.                                                 *)

\* No two tasks under way are for one domain.
OneEach == \A t, u \in Busy : tasks[t].key = tasks[u].key => t = u

Issuing == {t \in Task : tasks[t].st = "running"}

\* A request never puts a second task of its domain under way, nor any into a
\* slot: that is for RunTask.
LEMMA RequestKeepsOneEach ==
  ASSUME TypeOK, OneEach, NEW k \in Keys, NEW r \in Request(k), tasks' = r.ts
  PROVE  OneEach' /\ Issuing' = Issuing
<1>1. CASE tasks' = tasks
  BY <1>1 DEF OneEach, Busy, Issuing
<1>2. ASSUME Inflight(k) = {}, NEW t \in Task, NEW st \in {"success", "pending"},
             Makes(k, r, t, st)
      PROVE  OneEach' /\ Issuing' = Issuing
  <2>1. /\ tasks'[t] = [key |-> k, st |-> st]
        /\ \A u \in Task \ {t} : tasks'[u] = tasks[u]
    BY <1>2 DEF Makes, TypeOK
  <2>2. \A u \in Busy : tasks[u].key # k
    BY <1>2 DEF Inflight
  <2>3. Busy' \subseteq Busy \cup {t}
    BY <2>1 DEF Busy
  <2>4. OneEach'
    BY <2>1, <2>2, <2>3 DEF OneEach, Busy
  <2>5. Issuing' = Issuing
    BY <1>2, <2>1 DEF Makes, Issuing
  <2> QED
    BY <2>4, <2>5
<1> QED
  BY <1>1, <1>2, RequestCases

\* The slots: a task enters one only while there is one.
LEMMA IssuingIsFinite == IsFiniteSet(Issuing)
<1>1. IsFiniteSet(1..MaxTask)
  BY FS_Interval
<1>2. Issuing \in SUBSET (1..MaxTask)
  BY DEF Issuing
<1> QED
  BY <1>1, <1>2, FS_Subset

LEMMA SlotsStep ==
  ASSUME TypeOK, Cardinality(Issuing) <= Slots, OneEach, [Next]_vars
  PROVE  Cardinality(Issuing') <= Slots /\ OneEach'
<1>1. CASE UNCHANGED tasks
  BY <1>1 DEF OneEach, Busy, Issuing
<1>2. ASSUME NEW k \in Keys, NEW r \in Request(k), tasks' = r.ts
      PROVE  Cardinality(Issuing') <= Slots /\ OneEach'
  BY <1>2, RequestKeepsOneEach
<1>3. ASSUME NEW t \in Task, RunTask(t)
      PROVE  Cardinality(Issuing') <= Slots /\ OneEach'
  <2>1. /\ tasks' = [tasks EXCEPT ![t].st = "running"] /\ tasks[t].st = "pending"
        /\ Cardinality(Issuing) < Slots
    BY <1>3 DEF RunTask, Issuing
  <2>2. /\ tasks'[t].st = "running" /\ tasks'[t].key = tasks[t].key
        /\ \A u \in Task \ {t} : tasks'[u] = tasks[u]
    BY <2>1 DEF TypeOK
  <2>3. Issuing' = Issuing \cup {t} /\ Busy' = Busy
    BY <2>1, <2>2 DEF Issuing, Busy
  <2>4. Cardinality(Issuing') \in {Cardinality(Issuing), Cardinality(Issuing) + 1}
        /\ Cardinality(Issuing) \in Nat
    BY <2>3, IssuingIsFinite, FS_AddElement, FS_CardinalityType
  <2>5. OneEach'
    BY <2>2, <2>3 DEF OneEach, Busy
  <2> QED
    BY <2>1, <2>4, <2>5
<1>4. ASSUME NEW t \in Task, EndTask(t)
      PROVE  Cardinality(Issuing') <= Slots /\ OneEach'
  <2>1. /\ tasks'[t].st \in {"success", "failed"}
        /\ \A u \in Task \ {t} : tasks'[u] = tasks[u]
    BY <1>4 DEF EndTask, TypeOK
  <2>2. Issuing' \subseteq Issuing /\ Busy' \subseteq Busy \ {t}
    BY <2>1 DEF Issuing, Busy
  <2>3. Cardinality(Issuing') <= Cardinality(Issuing) /\ Cardinality(Issuing) \in Nat
        /\ Cardinality(Issuing') \in Nat
    BY <2>2, IssuingIsFinite, FS_Subset, FS_CardinalityType
  <2>4. OneEach'
    BY <2>1, <2>2 DEF OneEach, Busy
  <2> QED
    BY <2>3, <2>4
<1>5. CASE Restart
  <2>1. \A t \in Task : tasks'[t].st \in {"none", "gone"}
    BY <1>5 DEF Restart, Made, Unused, TypeOK
  <2>2. Issuing' = {} /\ Busy' = {}
    BY <2>1 DEF Issuing, Busy
  <2> QED
    BY <2>2, FS_EmptySet DEF OneEach
<1>6. CASE ChainStep
  BY <1>1, <1>6 DEF ChainStep, ServePoll, LoseCall, Polled, Tick, server
<1>7. CASE PostStep
  <2>1. PICK c \in calls \ Chains : ServeSubmit(c) \/ LoseCall(c) \/ Submitted(c)
    BY <1>7 DEF PostStep
  <2>2. CASE ServeSubmit(c)
    <3>1. c.key \in Keys /\ \E r \in Request(c.key) : tasks' = r.ts
      BY <2>2 DEF ServeSubmit, TypeOK
    <3> QED
      BY <1>2, <3>1
  <2> QED
    BY <1>1, <2>1, <2>2 DEF LoseCall, Submitted, server
<1>8. CASE RequestElsewhere
  BY <1>2, <1>8 DEF RequestElsewhere
<1> QED
  BY <1>1, <1>3, <1>4, <1>5, <1>6, <1>7, <1>8
  DEF Next, Obtain, CooldownOver, Submit, OpenRequest, Close, Back, Leave, server, vars

\* However many administrators ask, whatever fails, is lost or starts again: one
\* issuing per domain, and no more at once than there are slots.
THEOREM OneIssuingAtATime == Spec => []OneIssuing
<1>1. Init => OneEach /\ Cardinality(Issuing) <= Slots
  <2> SUFFICES ASSUME Init PROVE OneEach /\ Cardinality(Issuing) <= Slots
    OBVIOUS
  <2>1. Issuing = {} /\ Busy = {}
    BY DEF Init, Unused, Issuing, Busy
  <2> QED
    BY <2>1, FS_EmptySet DEF OneEach
<1>2. TypeOK /\ OneEach /\ Cardinality(Issuing) <= Slots => OneIssuing
  <2> SUFFICES ASSUME TypeOK, OneEach, Cardinality(Issuing) <= Slots PROVE OneIssuing
    OBVIOUS
  <2>1. ASSUME NEW k \in Keys
        PROVE  Cardinality(Inflight(k)) <= 1
    <3>1. CASE Inflight(k) = {}
      BY <3>1, FS_EmptySet
    <3>2. ASSUME NEW t \in Inflight(k)
          PROVE  Cardinality(Inflight(k)) <= 1
      <4>1. Inflight(k) = {t}
        BY <3>2 DEF OneEach, Inflight
      <4>2. Cardinality({t}) = 1
        BY FS_Singleton
      <4> QED
        BY <4>1, <4>2
    <3> QED
      BY <3>1, <3>2
  <2> QED
    BY <2>1 DEF OneIssuing, Issuing
<1>3. TypeOK /\ OneEach /\ Cardinality(Issuing) <= Slots /\ [Next]_vars
        => (OneEach /\ Cardinality(Issuing) <= Slots)'
  BY SlotsStep
<1> QED
  BY <1>1, <1>2, <1>3, TypeCorrect, PTL DEF Spec

-----------------------------------------------------------------------------
(* One chain of polls, where a request is submitted with the button only.  *)

\* The page has one call or timer at most: a submission only in the form, a
\* chain only of the request that is shown as being issued, and one whenever a
\* request is shown so and the page is open.
OneCall ==
  /\ \A c, d \in calls : c = d
  /\ \A c \in calls : IF c.at = "post" THEN phase = "form"
                                       ELSE phase = "issuing" /\ c.id = shown
  /\ mounted /\ phase = "issuing" => calls # {}

\* The call there is takes another form: OneCall needs to know no more of it.
LEMMA CallReplaced ==
  ASSUME NEW d, calls' = {d},
         IF d.at = "post" THEN phase' = "form" ELSE phase' = "issuing" /\ d.id = shown'
  PROVE  OneCall'
BY DEF OneCall

LEMMA GiveReplaces ==
  ASSUME TypeOK, OneCall, NEW c \in calls, NEW a, Give(c, a), UNCHANGED <<phase, shown>>
  PROVE  OneCall'
<1>1. calls' = {[c EXCEPT !.ans = a]}
  BY DEF OneCall, Give
<1>2. c \in Call
  BY DEF TypeOK
<1>3. [c EXCEPT !.ans = a].at = c.at /\ [c EXCEPT !.ans = a].id = c.id
  BY <1>2 DEF Call
<1> QED
  BY <1>1, <1>3, CallReplaced DEF OneCall

LEMMA ChainKeepsOneCall ==
  ASSUME TypeOK, OneCall, NEW c \in Chains, ServePoll(c) \/ LoseCall(c) \/ Polled(c) \/ Tick(c)
  PROVE  OneCall'
<1>0. c \in calls /\ calls = {c} /\ c \in Call /\ phase = "issuing" /\ c.id = shown
  BY DEF Chains, OneCall, TypeOK
<1>1. CASE ServePoll(c) \/ LoseCall(c)
  BY <1>0, <1>1, GiveReplaces DEF ServePoll, LoseCall, dialog
<1>2. CASE Polled(c)
  <2>1. CASE phase' # "issuing" /\ calls' = {}
    BY <2>1 DEF OneCall
  <2>2. CASE calls' = NextRound(c) /\ phase' = phase
    <3> DEFINE n == [Poll(c.id, LeftAfter(c)) EXCEPT !.at = "timer", !.held = TRUE]
    <3>1. calls' = {n}
      BY <1>0, <2>2 DEF NextRound
    <3>2. n.at = "timer" /\ n.id = c.id
      BY DEF Poll
    <3> HIDE DEF n
    <3> QED
      BY <1>0, <1>2, <2>2, <3>1, <3>2, CallReplaced DEF Polled
  <2>3. \/ phase' = VerdictOf(c.ans) /\ calls' = calls \ {c}
        \/ phase' = "timeout" /\ calls' = calls \ {c}
        \/ phase' = phase /\ calls' = NextRound(c)
    BY <1>2 DEF Polled
  <2> QED
    BY <1>0, <2>1, <2>2, <2>3 DEF VerdictOf
<1>3. CASE Tick(c)
  <2>1. calls' = {Poll(c.id, c.left)} /\ UNCHANGED <<phase, shown>>
    BY <1>0, <1>3 DEF Tick, dialog
  <2>2. Poll(c.id, c.left).at = "poll" /\ Poll(c.id, c.left).id = c.id
    BY DEF Poll
  <2> QED
    BY <1>0, <2>1, <2>2, CallReplaced
<1> QED
  BY <1>1, <1>2, <1>3

LEMMA PostKeepsOneCall ==
  ASSUME TypeOK, OneCall, NEW c \in calls \ Chains,
         ServeSubmit(c) \/ LoseCall(c) \/ Submitted(c)
  PROVE  OneCall'
<1>0. c \in calls /\ calls = {c} /\ c \in Call /\ c.at = "post" /\ phase = "form"
  BY DEF Chains, OneCall, TypeOK
<1>1. CASE ServeSubmit(c)
  <2>1. PICK r \in Request(c.key) : Give(c, r.ans)
    BY <1>1 DEF ServeSubmit
  <2> QED
    BY <1>0, <1>1, <2>1, GiveReplaces DEF ServeSubmit, dialog
<1>2. CASE LoseCall(c)
  BY <1>0, <1>2, GiveReplaces DEF LoseCall, dialog
<1>3. CASE Submitted(c)
  <2>1. CASE calls' = {} /\ phase' # "issuing"
    BY <2>1 DEF OneCall
  <2>2. CASE /\ calls' = Stopped(calls \ {c}) \cup {Poll(c.ans.id, MaxPoll)}
             /\ phase' = "issuing" /\ shown' = c.ans.id
    <3>1. calls' = {Poll(c.ans.id, MaxPoll)}
      BY <1>0, <2>2 DEF Stopped
    <3>2. Poll(c.ans.id, MaxPoll).at = "poll" /\ Poll(c.ans.id, MaxPoll).id = c.ans.id
      BY DEF Poll
    <3> QED
      BY <2>2, <3>1, <3>2, CallReplaced
  <2>3. \/ calls' = calls \ {c} /\ phase' = phase
        \/ calls' = calls \ {c} /\ phase' = "success"
        \/ /\ calls' = Stopped(calls \ {c}) \cup {Poll(c.ans.id, MaxPoll)}
           /\ phase' = "issuing" /\ shown' = c.ans.id
    BY <1>3 DEF Submitted, Refused
  <2> QED
    BY <1>0, <2>1, <2>2, <2>3
<1> QED
  BY <1>1, <1>2, <1>3

LEMMA UserKeepsOneCall ==
  ASSUME SingleSubmit, OneCall,
         OpenRequest \/ Close \/ Back \/ Leave \/ \E k \in Keys : Submit(k)
  PROVE  OneCall'
<1>1. CASE OpenRequest
  BY <1>1 DEF OpenRequest, Reopened, Stopped, OneCall
<1>2. CASE Close
  BY <1>2 DEF Close, OneCall
<1>3. CASE Back
  BY <1>3 DEF Back, OneCall
<1>4. CASE Leave
  BY <1>4 DEF Leave, Stopped, dialog, OneCall
<1>5. ASSUME NEW k \in Keys, Submit(k)
      PROVE  OneCall'
  <2>1. calls = {} /\ phase = "form" /\ UNCHANGED <<phase, shown>>
    BY <1>5 DEF Submit, dialog, OneCall
  <2>2. calls' = {Submission(k)} /\ Submission(k).at = "post"
    BY <1>5, <2>1 DEF Submit, Submission
  <2> QED
    BY <2>1, <2>2, CallReplaced
<1> QED
  BY <1>1, <1>2, <1>3, <1>4, <1>5

LEMMA OneCallStep ==
  ASSUME SingleSubmit, TypeOK, OneCall, [Next]_vars
  PROVE  OneCall'
<1>1. CASE UNCHANGED <<calls, dialog, mounted>>
  BY <1>1 DEF OneCall, dialog
<1>2. CASE ChainStep
  BY <1>2, ChainKeepsOneCall DEF ChainStep
<1>3. CASE PostStep
  BY <1>3, PostKeepsOneCall DEF PostStep
<1> QED
  BY <1>1, <1>2, <1>3, UserKeepsOneCall
  DEF Next, RequestElsewhere, Restart, RunTask, Obtain, EndTask, CooldownOver, vars

\* While no request is submitted twice, what is shown as being issued is followed
\* by one chain of polls, of that task, and nothing else is followed.
THEOREM ShownIsFollowed == SingleSubmit => (Spec => []ShownIsFollowedOnce)
<1> SUFFICES ASSUME SingleSubmit PROVE Spec => []ShownIsFollowedOnce
  OBVIOUS
<1>1. Init => OneCall
  BY DEF Init, OneCall
<1>2. TypeOK /\ OneCall /\ [Next]_vars => OneCall'
  BY OneCallStep
<1>3. OneCall => ShownIsFollowedOnce
  BY DEF OneCall, ShownIsFollowedOnce, Chains
<1> QED
  BY <1>1, <1>2, <1>3, TypeCorrect, PTL DEF Spec

-----------------------------------------------------------------------------
(* A success has its certificate.                                          *)

\* Task t was made, and a certificate obtained for its domain.
Backed(t) == tasks[t].st # "none" /\ \E u \in issued : tasks[u].key = tasks[t].key

\* The cache holds what was obtained.  A task that succeeded has obtained its
\* certificate or found it there; an answer of success comes from such a task,
\* to a poll from the task it asks for; so does the verdict.
Honest ==
  /\ \A k \in cached : \E u \in issued : tasks[u].key = k
  /\ \A t \in Task : tasks[t].st = "success" => Backed(t)
  /\ \A c \in calls : c.ans.is = "success" => Backed(c.ans.id)
  /\ \A c \in calls : c.at # "post" /\ c.ans.is = "success" => c.ans.id = c.id
  /\ phase = "success" => shown # 0 /\ Backed(shown)

\* A table in which made tasks stay what they are, and no certificate goes.
TableGrows ==
  /\ \A k \in cached' : \E u \in issued' : tasks'[u].key = k
  /\ \A t \in Task : tasks[t].st # "none" => tasks'[t].st # "none" /\ tasks'[t].key = tasks[t].key
  /\ issued \subseteq issued'
  /\ \A t \in Task : tasks'[t].st = "success" => Backed(t)'

\* A request makes a task that has succeeded only for a domain in the cache, and
\* answers with the task's state.
LEMMA RequestIsBacked ==
  ASSUME TypeOK, Honest, NEW k \in Keys, NEW r \in Request(k), tasks' = r.ts, UNCHANGED <<cached, issued>>
  PROVE  TableGrows /\ (r.ans.is = "success" => Backed(r.ans.id)')
<1>1. CASE r.ts = tasks /\ r.ans = Refused
  BY <1>1 DEF Honest, TableGrows, Backed, Refused
<1>2. ASSUME r.ts = tasks, NEW t \in Inflight(k), r.ans = [is |-> tasks[t].st, id |-> t]
      PROVE  TableGrows /\ (r.ans.is = "success" => Backed(r.ans.id)')
  BY <1>2 DEF Inflight, Busy, Honest, TableGrows, Backed
<1>3. ASSUME NEW t \in Task, NEW st \in {"success", "pending"}, Makes(k, r, t, st)
      PROVE  TableGrows /\ (r.ans.is = "success" => Backed(r.ans.id)')
  <2>1. /\ tasks'[t] = [key |-> k, st |-> st] /\ tasks[t].st = "none"
        /\ \A u \in Task \ {t} : tasks'[u] = tasks[u]
        /\ st = "success" => k \in cached
    BY <1>3 DEF Makes, TypeOK
  <2>2. issued \subseteq Task \ {t} /\ issued' = issued /\ cached' = cached
    BY <2>1 DEF TypeOK, Made
  <2>3. \A l \in cached' : \E u \in issued' : tasks'[u].key = l
    BY <2>1, <2>2 DEF Honest
  <2>4. st = "success" => Backed(t)'
    BY <2>1, <2>2, <2>3 DEF Backed
  <2>5. TableGrows
    BY <2>1, <2>2, <2>3, <2>4 DEF TableGrows, Backed, Honest
  <2>6. r.ans.id = t /\ r.ans.is = st
    BY <1>3 DEF Makes
  <2> QED
    BY <2>4, <2>5, <2>6
<1> QED
  BY <1>1, <1>2, <1>3, RequestCases

LEMMA SameTableGrows ==
  ASSUME Honest, UNCHANGED <<tasks, cached, issued>>
  PROVE  TableGrows
BY DEF Honest, TableGrows, Backed

\* What holds of the table still holds of a table that grew.
LEMMA BackedStays ==
  ASSUME TypeOK, TableGrows, NEW t \in Task, Backed(t)
  PROVE  Backed(t)'
BY DEF TableGrows, Backed, TypeOK, Made

\* The page's calls and verdict are left alone while the table grows.
LEMMA TableKeepsHonest ==
  ASSUME TypeOK, Honest, TableGrows, UNCHANGED <<calls, phase, shown>>
  PROVE  Honest'
<1>1. \A c \in calls : c.ans.is = "success" => c.ans.id \in Task
  BY DEF TypeOK, Call, Answers, Refused, Wait
<1>2. phase = "success" => shown \in Task
  BY DEF TypeOK, Honest
<1> QED
  BY <1>1, <1>2, BackedStays DEF Honest, TableGrows

\* A call is answered: with a success only from a task that is backed, and a
\* chain only with its own task's.
LEMMA AnswerKeepsHonest ==
  ASSUME TypeOK, Honest, TableGrows, UNCHANGED <<phase, shown>>,
         NEW c \in calls, NEW a \in Answers, Give(c, a),
         a.is = "success" => Backed(a.id)' /\ (c.at # "post" => a.id = c.id)
  PROVE  Honest'
<1>1. \A d \in calls' : d \in calls \/ (d.at = c.at /\ d.id = c.id /\ d.ans = a)
  BY GiveEffect DEF TypeOK
<1>2. \A d \in calls : d.ans.is = "success" => d.ans.id \in Task
  BY DEF TypeOK, Call, Answers, Refused, Wait
<1>3. phase = "success" => shown \in Task
  BY DEF TypeOK, Honest
<1> QED
  BY <1>1, <1>2, <1>3, BackedStays DEF Honest, TableGrows

LEMMA ServiceKeepsHonest ==
  ASSUME TypeOK, Honest,
         \/ RequestElsewhere \/ Restart
         \/ \E t \in Task : RunTask(t) \/ Obtain(t) \/ EndTask(t)
         \/ \E k \in Keys : CooldownOver(k)
  PROVE  Honest'
<1>1. CASE RequestElsewhere
  <2>1. PICK k \in Keys : \E r \in Request(k) : tasks' = r.ts
    BY <1>1 DEF RequestElsewhere
  <2>2. TableGrows
    BY <1>1, <2>1, RequestIsBacked DEF RequestElsewhere
  <2> QED
    BY <1>1, <2>2, TableKeepsHonest DEF RequestElsewhere, dialog
<1>2. CASE Restart
  <2>1. \A t \in Task : /\ tasks'[t].st \in {"none", "gone"}
                        /\ tasks[t].st # "none" => tasks'[t].st # "none"
                                                   /\ tasks'[t].key = tasks[t].key
    BY <1>2 DEF Restart, Made, Unused, TypeOK
  <2>2. TableGrows
    BY <1>2, <2>1 DEF Restart, TableGrows, Honest, TypeOK, Made
  <2> QED
    BY <1>2, <2>2, TableKeepsHonest DEF Restart, dialog
<1>3. ASSUME NEW t \in Task, RunTask(t)
      PROVE  Honest'
  <2>1. /\ tasks'[t].st = "running" /\ tasks'[t].key = tasks[t].key
        /\ \A u \in Task \ {t} : tasks'[u] = tasks[u]
    BY <1>3 DEF RunTask, TypeOK
  <2>2. TableGrows
    BY <1>3, <2>1 DEF RunTask, TableGrows, Honest, Backed, TypeOK, Made
  <2> QED
    BY <1>3, <2>2, TableKeepsHonest DEF RunTask, dialog
<1>4. ASSUME NEW t \in Task, EndTask(t)
      PROVE  Honest'
  <2>1. /\ tasks'[t].st \in {"success", "failed"} /\ tasks'[t].key = tasks[t].key
        /\ \A u \in Task \ {t} : tasks'[u] = tasks[u]
        /\ UNCHANGED <<cached, issued>>
        /\ tasks'[t].st = "success" => t \in issued
    BY <1>4 DEF EndTask, TypeOK
  <2>2. TableGrows
    BY <2>1 DEF TableGrows, Honest, Backed, TypeOK, Made
  <2> QED
    BY <1>4, <2>2, TableKeepsHonest DEF EndTask, dialog
<1>5. ASSUME NEW k \in Keys, CooldownOver(k)
      PROVE  Honest'
  BY <1>5, SameTableGrows, TableKeepsHonest DEF CooldownOver, dialog
<1>6. ASSUME NEW t \in Task, Obtain(t)
      PROVE  Honest'
  <2>1. /\ tasks' = tasks /\ issued' = issued \cup {t}
        /\ cached' \subseteq cached \cup {tasks[t].key}
    BY <1>6 DEF Obtain
  <2>2. TableGrows
    BY <2>1 DEF TableGrows, Honest, Backed
  <2> QED
    BY <1>6, <2>2, TableKeepsHonest DEF Obtain, dialog
<1> QED
  BY <1>1, <1>2, <1>3, <1>4, <1>5, <1>6

LEMMA ChainKeepsHonest ==
  ASSUME TypeOK, Honest, OneCall, NEW c \in Chains,
         ServePoll(c) \/ LoseCall(c) \/ Polled(c) \/ Tick(c)
  PROVE  Honest'
<1>0. /\ c \in calls /\ c \in Call /\ calls = {c} /\ c.at # "post" /\ c.id \in Task
      /\ phase = "issuing" /\ TableGrows
  BY SameTableGrows DEF Chains, OneCall, TypeOK, ServePoll, LoseCall, Polled, Tick, server
<1>1. CASE ServePoll(c)
  <2> DEFINE a == IF Known(c.id) THEN [is |-> tasks[c.id].st, id |-> c.id] ELSE Refused
  <2>1. CASE Known(c.id)
    <3>1. a = [is |-> tasks[c.id].st, id |-> c.id] /\ a \in Answers
      BY <1>0, <2>1 DEF Known, Answers, TypeOK
    <3>2. tasks[c.id].st = "success" => Backed(c.id)'
      BY <1>0, <1>1 DEF ServePoll, server, Honest, Backed
    <3>3. a.is = tasks[c.id].st /\ a.id = c.id
      BY <3>1
    <3>4. Give(c, a) /\ UNCHANGED <<phase, shown>>
      BY <1>1 DEF ServePoll, dialog
    <3> HIDE DEF a
    <3> QED
      BY <1>0, <3>1, <3>2, <3>3, <3>4, AnswerKeepsHonest
  <2>2. CASE ~Known(c.id)
    BY <1>0, <1>1, <2>2, AnswerKeepsHonest DEF ServePoll, dialog, Answers, Refused
  <2> QED
    BY <2>1, <2>2
<1>2. CASE LoseCall(c)
  BY <1>0, <1>2, AnswerKeepsHonest DEF LoseCall, dialog, Answers, Refused
<1>3. CASE Polled(c)
  <2>1. shown' = c.id /\ UNCHANGED <<tasks, cached, issued>>
    BY <1>3 DEF Polled, server
  <2>2. CASE calls' = {} /\ (phase' = "success" => c.ans.is = "success")
    BY <1>0, <2>1, <2>2 DEF Honest, Backed
  <2>3. CASE LeftAfter(c) > 0 /\ calls' = NextRound(c) /\ phase' = phase
    <3>1. \A d \in calls' : d.ans = Wait
      BY <1>0, <1>3, <2>3, NextRoundEffect DEF Polled
    <3> QED
      BY <1>0, <2>1, <2>3, <3>1 DEF Honest, Backed, Wait
  <2> QED
    BY <1>0, <1>3, <2>2, <2>3 DEF Polled, VerdictOf
<1>4. CASE Tick(c)
  <2>1. calls' = {Poll(c.id, c.left)} /\ UNCHANGED <<tasks, cached, issued, phase, shown>>
    BY <1>0, <1>4 DEF Tick, server, dialog
  <2>2. Poll(c.id, c.left).ans.is = "wait"
    BY DEF Poll, Wait
  <2> QED
    BY <2>1, <2>2 DEF Honest, Backed
<1> QED
  BY <1>1, <1>2, <1>3, <1>4

LEMMA PostKeepsHonest ==
  ASSUME TypeOK, Honest, NEW c \in calls \ Chains,
         ServeSubmit(c) \/ LoseCall(c) \/ Submitted(c)
  PROVE  Honest'
<1>0. c \in calls /\ c \in Call /\ c.at = "post" /\ c.key \in Keys
  BY DEF Chains, TypeOK
<1>1. CASE ServeSubmit(c)
  <2>1. PICK r \in Request(c.key) : tasks' = r.ts /\ Give(c, r.ans)
    BY <1>1 DEF ServeSubmit
  <2>2. TableGrows /\ (r.ans.is = "success" => Backed(r.ans.id)')
    BY <1>0, <1>1, <2>1, RequestIsBacked DEF ServeSubmit
  <2>3. r.ans \in Answers
    BY <1>0, <2>1, RequestEffect
  <2> QED
    BY <1>0, <1>1, <2>1, <2>2, <2>3, AnswerKeepsHonest DEF ServeSubmit, dialog
<1>2. CASE LoseCall(c)
  BY <1>0, <1>2, SameTableGrows, AnswerKeepsHonest
  DEF LoseCall, server, dialog, Answers, Refused
<1>3. CASE Submitted(c)
  <2>1. UNCHANGED <<tasks, cached, issued>>
    BY <1>3 DEF Submitted, server
  <2>2. CASE calls' = calls \ {c} /\ UNCHANGED <<phase, shown>>
    BY <2>1, <2>2 DEF Honest, Backed
  <2>3. CASE calls' = calls \ {c} /\ phase' = "success" /\ shown' = c.ans.id /\ c.ans.is = "success"
    <3>1. c.ans.id # 0 /\ Backed(c.ans.id)
      BY <1>0, <2>3 DEF Call, Answers, Refused, Wait, Honest
    <3> QED
      BY <2>1, <2>3, <3>1 DEF Honest, Backed
  <2>4. CASE /\ calls' = Stopped(calls \ {c}) \cup {Poll(c.ans.id, MaxPoll)}
             /\ phase' = "issuing"
    <3>1. Poll(c.ans.id, MaxPoll).ans.is = "wait"
      BY DEF Poll, Wait
    <3> QED
      BY <2>1, <2>4, <3>1 DEF Stopped, Honest, Backed
  <2> QED
    BY <1>3, <2>2, <2>3, <2>4 DEF Submitted, Refused
<1> QED
  BY <1>1, <1>2, <1>3

LEMMA UserKeepsHonest ==
  ASSUME TypeOK, Honest, OpenRequest \/ Close \/ Back \/ Leave \/ \E k \in Keys : Submit(k)
  PROVE  Honest'
<1>1. UNCHANGED <<tasks, cached, issued>>
  BY DEF OpenRequest, Close, Back, Leave, Submit, server
<1>2. phase' = "success" => phase = "success" /\ shown' = shown
  BY DEF OpenRequest, Reopened, Close, Back, Leave, Submit, dialog
<1>3. ASSUME NEW c \in calls'
      PROVE  c \in calls \/ c.ans.is = "wait"
  <2>1. \A k \in Keys : Submission(k).ans.is = "wait"
    BY DEF Submission, Wait
  <2> QED
    BY <1>3, <2>1 DEF OpenRequest, Reopened, Close, Back, Leave, Submit, dialog, Stopped
<1> QED
  BY <1>1, <1>2, <1>3 DEF Honest, Backed

LEMMA HonestStep ==
  ASSUME TypeOK, OneCall, Honest, [Next]_vars
  PROVE  Honest'
<1>1. CASE UNCHANGED vars
  BY <1>1 DEF vars, server, dialog, Honest, Backed
<1>2. CASE ChainStep
  BY <1>2, ChainKeepsHonest DEF ChainStep
<1>3. CASE PostStep
  BY <1>3, PostKeepsHonest DEF PostStep
<1> QED
  BY <1>1, <1>2, <1>3, ServiceKeepsHonest, UserKeepsHonest DEF Next

\* While no request is submitted twice, the dialog calls a request a success only
\* if a certificate was obtained for it.
THEOREM SuccessHasItsCertificate == SingleSubmit => (Spec => []SuccessWasIssued)
<1> SUFFICES ASSUME SingleSubmit PROVE Spec => []SuccessWasIssued
  OBVIOUS
<1>1. Init => OneCall /\ Honest
  <2> SUFFICES ASSUME Init PROVE OneCall /\ Honest
    OBVIOUS
  <2>1. \A t \in Task : tasks[t].st = "none"
    BY DEF Init, Unused
  <2>2. calls = {} /\ phase = "form" /\ cached = {}
    BY DEF Init
  <2> QED
    BY <2>1, <2>2 DEF OneCall, Honest
<1>2. TypeOK /\ OneCall /\ Honest /\ [Next]_vars => OneCall' /\ Honest'
  BY OneCallStep, HonestStep
<1>3. Honest => SuccessWasIssued
  BY DEF Honest, Backed, SuccessWasIssued
<1> QED
  BY <1>1, <1>2, <1>3, TypeCorrect, PTL DEF Spec
=============================================================================
