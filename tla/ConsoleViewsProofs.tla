------------------------- MODULE ConsoleViewsProofs --------------------------
(***************************************************************************)
(* Theorems about ConsoleViews, ConsoleSession and SitesPage: any number   *)
(* of versions, of steps and losses, of calls under way, of sessions of    *)
(* the chat, of users, cookies, restarts, sites and revisions.             *)
(*                                                                         *)
(* The second and the third module are instances, over variables declared  *)
(* in their sections; what their constants must be is a hypothesis of each *)
(* theorem.                                                                *)
(***************************************************************************)
EXTENDS ConsoleViews, ConsoleSession, SitesPage, FiniteSetTheorems, TLAPS

USE ViewsAssumption

-----------------------------------------------------------------------------
(* The invariant.                                                          *)

\* Nothing of the conversation is on its way.
Untouched(c) == c.picked = {} /\ c.del = 0 /\ ~c.on /\ c.msgs = c.active

\* At most one thing of it is on its way, and the conversation shown is the active
\* session's unless a history or a deletion is.
Calm(c) ==
  /\ c.at # "ready" => Untouched(c) /\ c.active = 0
  /\ c.picked = {} /\ c.del = 0 => c.msgs = c.active
  /\ c.on => c.to = c.active /\ c.picked = {} /\ c.del = 0
  /\ c.del # 0 => c.picked = {}
  /\ \A s, t \in c.picked : s = t

OneAtATime == CalmChat => Calm(chat)

\* A question is named after the step it was asked at; while it waits in the storage
\* nobody has sent it.
Handed ==
  /\ seed <= steps
  /\ \A n \in 1..MaxStep : asked[n] <= 1 /\ (n > steps \/ n = seed => asked[n] = 0)

-----------------------------------------------------------------------------
(* Types.                                                                  *)

Shown == [q : Queries, ver : 0..MaxVer]

DataType == ver \in 1..MaxVer /\ steps \in 0..MaxStep /\ page \in Pages
ListType == want \in Queries /\ due \in BOOLEAN /\ calls \subseteq Calls /\ shown \in [Lists -> Shown]
ChatType == made \in 1..MaxSession /\ sess \subseteq 1..made /\ dead \in Nat /\ chat \in Chats
SeedType == seed \in 0..MaxStep /\ asked \in [1..MaxStep -> Nat]

LEMMA TypeParts == TypeOK <=> DataType /\ ListType /\ ChatType /\ SeedType
BY DEF TypeOK, DataType, ListType, ChatType, SeedType, Shown

LEMMA JoinParts == DataType' /\ ListType' /\ ChatType' /\ SeedType' => TypeOK'
BY DEF TypeOK, DataType, ListType, ChatType, SeedType, Shown

LEMMA Bounds ==
  /\ MaxVer \in Nat /\ MaxVer > 0 /\ MaxStep \in Nat /\ MaxSession \in Nat /\ MaxSession > 0
OBVIOUS

LEMMA QueryType ==
  /\ First \in Queries
  /\ \A l \in Lists : \A w \in Queries : Query(l, w) \in Queries
<1>1. First \in Queries
  BY DEF First, Queries
<1>2. ASSUME NEW w \in Queries PROVE [w EXCEPT !.p = 1] \in Queries
  BY DEF Queries
<1> QED
  BY <1>1, <1>2 DEF Query

LEMMA LoadType ==
  /\ \A l \in Lists : \A w \in Queries : Load(l, w) \in Calls
  /\ \A ls \in SUBSET Lists : \A w \in Queries : Loads(ls, w) \subseteq Calls
  /\ \A k \in Deeds : Action(k) \in Calls
  /\ \A p \in Pages : ListsOf(p) \subseteq Lists
<1>0. 0 \in 0..MaxVer
  BY Bounds
<1>1. ASSUME NEW l \in Lists, NEW w \in Queries PROVE Load(l, w) \in Calls
  <2>1. Query(l, w) \in Queries
    BY QueryType
  <2> QED
    BY <1>0, <2>1 DEF Load, Calls
<1>2. ASSUME NEW k \in Deeds PROVE Action(k) \in Calls
  BY <1>0, QueryType DEF Action, Calls
<1>3. \A p \in Pages : ListsOf(p) \subseteq Lists
  BY DEF Lists
<1> QED
  BY <1>1, <1>2, <1>3 DEF Loads

-----------------------------------------------------------------------------
(* The lists.                                                              *)

\* A step of the lists leaves the chat and its question alone.
LEMMA TalkKept ==
  ASSUME TypeOK, OneAtATime, Handed, UNCHANGED talk, DataType', ListType', steps' >= steps
  PROVE  TypeOK' /\ OneAtATime' /\ Handed'
<1>1. ChatType /\ SeedType /\ steps \in Nat /\ steps' \in Nat
  BY TypeParts, Bounds DEF DataType
<1>2. /\ made' = made /\ sess' = sess /\ chat' = chat /\ dead' = dead /\ seed' = seed /\ asked' = asked
  BY DEF talk
<1>3. ChatType' /\ SeedType'
  BY <1>1, <1>2 DEF ChatType, SeedType
<1>4. OneAtATime'
  BY <1>2 DEF OneAtATime
<1>5. Handed'
  <2>1. seed \in Nat
    BY <1>1 DEF SeedType
  <2>2. seed <= steps'
    BY <1>1, <2>1 DEF Handed
  <2>3. \A n \in 1..MaxStep : n > steps' => n > steps
    BY <1>1, Bounds
  <2> QED
    BY <1>2, <2>2, <2>3 DEF Handed
<1> QED
  BY <1>3, <1>4, <1>5, JoinParts

LEMMA SpentStep ==
  ASSUME DataType, Spent \/ UNCHANGED steps
  PROVE  steps' \in 0..MaxStep /\ steps' >= steps /\ (Spent => steps' = steps + 1)
BY Bounds DEF DataType, Spent

LEMMA CallSteps ==
  ASSUME TypeOK, NEW c \in calls, Serve(c) \/ Arrive(c) \/ Lose(c)
  PROVE  DataType' /\ ListType' /\ steps' >= steps /\ UNCHANGED talk
<1>1. DataType /\ ListType /\ c \in Calls /\ page \in Pages /\ want \in Queries
  BY TypeParts DEF ListType, DataType
<1>2. c.l \in Lists \cup Deeds /\ c.q \in Queries /\ c.ver \in 0..MaxVer
  BY <1>1 DEF Calls
<1>3. CASE Serve(c)
  <2> DEFINE v == IF c.l \in Deeds /\ ver < MaxVer THEN ver + 1 ELSE ver
  <2>1. v \in 1..MaxVer /\ v \in 0..MaxVer
    BY <1>1, Bounds DEF DataType
  <2>2. /\ ver' = v /\ calls' = (calls \ {c}) \cup {[c EXCEPT !.ver = ver']}
        /\ UNCHANGED <<steps, page, want, due, shown, talk>>
    BY <1>3 DEF Serve
  <2> HIDE DEF v
  <2>3. [c EXCEPT !.ver = v] \in Calls
    BY <1>1, <2>1 DEF Calls
  <2> QED
    BY <1>1, <2>1, <2>2, <2>3, Bounds DEF DataType, ListType
<1>4. CASE Arrive(c)
  <2>1. UNCHANGED <<ver, steps, page, want, due, talk>>
    BY <1>4 DEF Arrive
  <2>2. CASE c.l \in Deeds
    <3>1. Loads(ListsOf(page) \ {"entries"}, want) \subseteq Calls
      BY <1>1, LoadType
    <3>2. calls' = (calls \ {c}) \cup Loads(ListsOf(page) \ {"entries"}, want) /\ shown' = shown
      BY <1>4, <2>2 DEF Arrive
    <3>3. calls' \subseteq Calls
      BY <1>1, <3>1, <3>2 DEF ListType
    <3> QED
      BY <1>1, <2>1, <3>2, <3>3, Bounds DEF DataType, ListType
  <2>3. CASE c.l \notin Deeds
    <3>1. [q |-> c.q, ver |-> c.ver] \in Shown
      BY <1>2 DEF Shown
    <3>2. shown' = [shown EXCEPT ![c.l] = [q |-> c.q, ver |-> c.ver]] /\ calls' = calls \ {c}
      BY <1>4, <2>3 DEF Arrive
    <3> QED
      BY <1>1, <2>1, <3>1, <3>2, SpentStep DEF DataType, ListType
  <2> QED
    BY <2>2, <2>3
<1>5. CASE Lose(c)
  <2>1. Nothing \in Shown
    BY QueryType, Bounds DEF Nothing, Shown
  <2>2. /\ Spent /\ calls' = calls \ {c} /\ UNCHANGED <<ver, page, want, due, talk>>
        /\ shown' = shown \/ shown' = [shown EXCEPT ![c.l] = Nothing]
    BY <1>5 DEF Lose
  <2> QED
    BY <1>1, <2>1, <2>2, SpentStep DEF DataType, ListType
<1> QED
  BY <1>3, <1>4, <1>5

LEMMA PageSteps ==
  ASSUME TypeOK,
         \/ Change \/ Debounced \/ TurnPage \/ RowStep \/ (\E l \in Lists : Interval(l))
         \/ \E f \in 0..1 : FilterLogs(f) \/ Select(f)
  PROVE  DataType' /\ ListType' /\ steps' >= steps /\ UNCHANGED talk
<1>1. DataType /\ ListType /\ page \in Pages /\ want \in Queries /\ ListsOf(page) \subseteq Lists
  BY TypeParts, LoadType DEF ListType, DataType
<1>2. \A f \in 0..1, w \in Queries : [w EXCEPT !.f = f] \in Queries /\ [f |-> f, p |-> 1] \in Queries
  BY DEF Queries
<1>3. [want EXCEPT !.p = 3 - @] \in Queries
  BY <1>1 DEF Queries
<1>4. CASE Change
  BY <1>1, <1>4, Bounds DEF Change, DataType, ListType, lists
<1>5. CASE Debounced
  <2>1. Loads(ListsOf(page), want) \subseteq Calls
    BY <1>1, LoadType
  <2>2. calls' \subseteq Calls
    BY <1>1, <1>5, <2>1 DEF Debounced, ListType
  <2> QED
    BY <1>1, <1>5, <2>2, SpentStep DEF Debounced, DataType, ListType
<1>6. CASE TurnPage
  <2> DEFINE w == [want EXCEPT !.p = 3 - @]
  <2> HIDE DEF w
  <2>1. Spent /\ want' = w /\ calls' = calls \cup {Load("logs", w)}
        /\ UNCHANGED <<ver, page, due, shown, talk>> /\ page = "logs"
    BY <1>6 DEF TurnPage, w
  <2>2. "logs" \in Lists
    BY <1>1, <2>1 DEF ListsOf, LogLists
  <2>3. Load("logs", w) \in Calls /\ w \in Queries
    BY <1>3, <2>2, LoadType DEF w
  <2> QED
    BY <1>1, <2>1, <2>3, SpentStep DEF DataType, ListType
<1>7. CASE RowStep
  <2>1. ASSUME NEW p, NEW k \in Deeds, Does(p, k)
        PROVE  DataType' /\ ListType' /\ steps' >= steps /\ UNCHANGED talk
    <3>1. Action(k) \in Calls
      BY LoadType
    <3> QED
      BY <1>1, <2>1, <3>1, SpentStep DEF Does, DataType, ListType
  <2>2. \E p : \E k \in Deeds : Does(p, k)
    BY <1>7 DEF RowStep, SaveWhitelist, Scan, SetStatus, Ignore, SaveUser, RemoveUser, GenApiKey,
         RevokeApiKey, MfaConfirm, MfaDisable, RemoveCert, Upload, SignCert, Deeds
  <2> QED
    BY <2>1, <2>2
<1>8. CASE \E l \in Lists : Interval(l)
  <2>1. PICK l \in Lists : Interval(l)
    BY <1>8
  <2>2. Load(l, want) \in Calls
    BY <1>1, LoadType
  <2> QED
    BY <1>1, <2>1, <2>2, Bounds DEF Interval, DataType, ListType
<1>9. ASSUME NEW f \in 0..1, FilterLogs(f)
      PROVE  DataType' /\ ListType' /\ steps' >= steps /\ UNCHANGED talk
  BY <1>1, <1>2, <1>9, SpentStep DEF FilterLogs, DataType, ListType
<1>10. ASSUME NEW f \in 0..1, Select(f)
       PROVE  DataType' /\ ListType' /\ steps' >= steps /\ UNCHANGED talk
  <2> DEFINE w == [want EXCEPT !.f = f]
  <2> HIDE DEF w
  <2>1. w \in Queries
    BY <1>1, <1>2 DEF w
  <2>2. Loads(ListsOf(page) \cap Filtered, w) \subseteq Calls
    BY <1>1, <2>1, LoadType
  <2>3. /\ Spent /\ want' = w /\ calls' = calls \cup Loads(ListsOf(page) \cap Filtered, w)
        /\ UNCHANGED <<ver, page, due, shown, talk>>
    BY <1>10 DEF Select, w
  <2> QED
    BY <1>1, <2>1, <2>2, <2>3, SpentStep DEF DataType, ListType
<1> QED
  BY <1>4, <1>5, <1>6, <1>7, <1>8, <1>9, <1>10

-----------------------------------------------------------------------------
(* The chat.                                                               *)

LEMMA ChatForms ==
  /\ NoChat \in Chats /\ NewChat \in Chats /\ Calm(NoChat) /\ Calm(NewChat)
  /\ \A c \in Chats : Cleared(c) \in Chats /\ [Cleared(c) EXCEPT !.del = 0] \in Chats
  /\ \A c \in Chats : \A s \in 0..MaxSession : WithHistory(c, s) \in Chats
  /\ \A c \in Chats : [c EXCEPT !.at = "ready"] \in Chats /\ Sent(c) \in Chats
<1>0. 0 \in 0..MaxSession /\ {} \subseteq 1..MaxSession
  BY Bounds
<1>1. NoChat \in Chats /\ NewChat \in Chats
  BY <1>0 DEF NoChat, NewChat, Chats
<1>2. Calm(NoChat) /\ Calm(NewChat)
  BY DEF NoChat, NewChat, Calm, Untouched
<1>3. ASSUME NEW c \in Chats
      PROVE  /\ Cleared(c) \in Chats /\ [Cleared(c) EXCEPT !.del = 0] \in Chats
             /\ \A s \in 0..MaxSession : WithHistory(c, s) \in Chats
             /\ [c EXCEPT !.at = "ready"] \in Chats
  BY <1>0 DEF Cleared, WithHistory, Chats
<1>4. ASSUME NEW c \in Chats PROVE Sent(c) \in Chats
  <2>1. c.active \in 0..MaxSession
    BY DEF Chats
  <2> DEFINE n == [c EXCEPT !.on = TRUE, !.to = c.active]
  <2>2. n \in Chats
    BY <2>1 DEF Chats
  <2>3. Sent(c) = c \/ Sent(c) = n
    BY DEF Sent
  <2> QED
    BY <2>2, <2>3
<1> QED
  BY <1>1, <1>2, <1>3, <1>4

\* A question taken out of the storage was never sent before.
LEMMA QuestionTaken ==
  ASSUME TypeOK, Handed, seed # 0, NEW c, SeedTaken(c), steps' \in 0..MaxStep, steps' >= steps
  PROVE  SeedType' /\ Handed'
<1>1. /\ seed \in 1..MaxStep /\ asked \in [1..MaxStep -> Nat] /\ steps \in Nat /\ steps' \in Nat /\ MaxStep \in Nat
      /\ seed <= steps
  BY TypeParts, Bounds DEF DataType, SeedType, Handed
<1>2. asked[seed] = 0
  BY <1>1 DEF Handed
<1>3. asked' = [asked EXCEPT ![seed] = IF c.on THEN @ ELSE @ + 1] /\ seed' = 0
  BY DEF SeedTaken
<1>4. asked' \in [1..MaxStep -> Nat] /\ asked'[seed] \in {0, 1}
      /\ \A n \in 1..MaxStep : n # seed => asked'[n] = asked[n]
  BY <1>1, <1>2, <1>3
<1>5. SeedType'
  BY <1>1, <1>3, <1>4 DEF SeedType
<1>6. ASSUME NEW n \in 1..MaxStep
      PROVE  asked'[n] <= 1 /\ (n > steps' \/ n = seed' => asked'[n] = 0)
  <2>1. CASE n = seed
    BY <1>1, <1>3, <1>4, <2>1
  <2>2. CASE n # seed
    <3>1. asked'[n] = asked[n] /\ n # seed' /\ (n > steps' => n > steps)
      BY <1>1, <1>3, <1>4, <2>2
    <3> QED
      BY <3>1 DEF Handed
  <2> QED
    BY <2>1, <2>2
<1> QED
  BY <1>1, <1>3, <1>5, <1>6 DEF Handed

LEMMA QuestionKept ==
  ASSUME TypeOK, Handed, UNCHANGED <<seed, asked>>, steps' \in 0..MaxStep, steps' >= steps
  PROVE  SeedType' /\ Handed'
<1>1. SeedType /\ steps \in Nat /\ steps' \in Nat /\ seed \in Nat
  BY TypeParts, Bounds DEF DataType, SeedType
<1>2. SeedType'
  BY <1>1 DEF SeedType
<1>3. seed <= steps' /\ \A n \in 1..MaxStep : n > steps' => n > steps
  BY <1>1, Bounds DEF Handed
<1> QED
  BY <1>2, <1>3 DEF Handed

\* The chat starts, or a session's history is shown.
LEMMA StartedShape ==
  ASSUME TypeOK, Handed, NEW c \in Chats, Started(c), steps' \in 0..MaxStep, steps' >= steps
  PROVE  /\ chat' \in Chats /\ (Untouched(c) => Calm(chat'))
         /\ SeedType' /\ Handed'
<1> DEFINE r == [c EXCEPT !.at = "ready"]
<1>1. r \in Chats /\ Sent(r) \in Chats
  BY ChatForms
<1>2. /\ r.at = "ready" /\ r.active = c.active /\ r.msgs = c.msgs /\ r.picked = c.picked /\ r.del = c.del
      /\ r.on = c.on /\ r.to = c.to
  BY DEF Chats
<1> HIDE DEF r
<1>3. Untouched(c) => Calm(r) /\ Calm(Sent(r))
  <2> SUFFICES ASSUME Untouched(c) PROVE Calm(r) /\ Calm(Sent(r))
    OBVIOUS
  <2>1. /\ ~r.on /\ r.picked = {} /\ r.del = 0 /\ r.msgs = r.active
    BY <1>2 DEF Untouched
  <2>2. Calm(r)
    BY <1>2, <2>1 DEF Calm
  <2>3. Sent(r) = [r EXCEPT !.on = TRUE, !.to = r.active]
    BY <2>1 DEF Sent
  <2>4. /\ Sent(r).at = "ready" /\ Sent(r).picked = {} /\ Sent(r).del = 0 /\ Sent(r).msgs = Sent(r).active
        /\ Sent(r).to = Sent(r).active
    BY <1>1, <1>2, <2>1, <2>3 DEF Chats
  <2>5. Calm(Sent(r))
    BY <2>4 DEF Calm
  <2> QED
    BY <2>2, <2>5
<1>4. CASE seed # 0 /\ c.enabled
  <2>1. SeedTaken(c) /\ chat' = Sent(r)
    BY <1>4 DEF Started, r
  <2> QED
    BY <1>1, <1>3, <1>4, <2>1, QuestionTaken
<1>5. CASE ~(seed # 0 /\ c.enabled)
  <2>1. chat' = r /\ UNCHANGED <<seed, asked>>
    BY <1>5 DEF Started, r
  <2> QED
    BY <1>1, <1>3, <2>1, QuestionKept
<1> QED
  BY <1>4, <1>5

-----------------------------------------------------------------------------
(* Pages that open.                                                        *)

\* A session is made for a question whose page is gone.
LEMMA OrphanedType ==
  ASSUME ChatType, Orphaned \/ UNCHANGED <<made, sess>>
  PROVE  made' \in 1..MaxSession /\ sess' \subseteq 1..made'
<1>1. made \in Nat /\ made >= 1 /\ made <= MaxSession /\ sess \subseteq 1..made
  BY Bounds DEF ChatType
<1>2. CASE made' = made + 1 /\ made < MaxSession /\ sess' = sess \cup {made'}
  <2>1. 1..made \subseteq 1..made' /\ made' \in 1..made' /\ made' \in 1..MaxSession
    BY <1>1, <1>2, Bounds
  <2> QED
    BY <1>1, <1>2, <2>1
<1>3. CASE UNCHANGED <<made, sess>>
  BY <1>3 DEF ChatType
<1> QED
  BY <1>2, <1>3 DEF Orphaned

LEMMA OpenSafe ==
  ASSUME TypeOK, OneAtATime, NEW p \in Pages, NEW f \in 0..1, Open(p, f)
  PROVE  page' = p /\ ListType' /\ ChatType' /\ OneAtATime'
<1>1. ListType /\ ChatType
  BY TypeParts
<1> DEFINE w == [f |-> f, p |-> 1]
<1>2. w \in Queries
  BY DEF Queries
<1>3. /\ page' = p /\ want' = w /\ due' = (f # 0)
      /\ calls' = Loads(ListsOf(p), w) /\ shown' = [l \in Lists |-> Nothing]
      /\ chat' = NewChat \/ chat' = NoChat
      /\ dead' = dead \/ dead' = dead + 1
      /\ Orphaned \/ UNCHANGED <<made, sess>>
  BY DEF Open
<1> HIDE DEF w
<1>4. Loads(ListsOf(p), w) \subseteq Calls
  BY <1>2, LoadType
<1>5. Nothing \in Shown
  BY QueryType, Bounds DEF Nothing, Shown
<1>6. shown' \in [Lists -> Shown]
  BY <1>3, <1>5
<1>7. ListType'
  BY <1>2, <1>3, <1>4, <1>6 DEF ListType
<1>8. made' \in 1..MaxSession /\ sess' \subseteq 1..made'
  BY <1>1, <1>3, OrphanedType
<1>9. chat' \in Chats /\ Calm(chat')
  BY <1>3, ChatForms
<1>10. dead' \in Nat
  BY <1>1, <1>3 DEF ChatType
<1> QED
  BY <1>3, <1>7, <1>8, <1>9, <1>10 DEF ChatType, OneAtATime

LEMMA OpenSteps ==
  ASSUME TypeOK, OneAtATime, Handed, AskAI \/ \E p \in Pages : Go(p)
  PROVE  TypeOK' /\ OneAtATime' /\ Handed'
<1>1. DataType /\ SeedType
  BY TypeParts
<1>2. CASE AskAI
  <2>1. Spent /\ Open("ai", 0) /\ seed' = steps' /\ ver' = ver /\ asked' = asked
    BY <1>2 DEF AskAI
  <2>2. page' \in Pages /\ ListType' /\ ChatType' /\ OneAtATime'
    BY <2>1, OpenSafe DEF Pages
  <2>3. steps' \in 0..MaxStep /\ steps' = steps + 1 /\ steps \in Nat
    BY <1>1, <2>1, SpentStep, Bounds DEF DataType
  <2>4. DataType' /\ SeedType'
    BY <1>1, <2>1, <2>2, <2>3 DEF DataType, SeedType
  <2>5. seed' <= steps'
    BY <2>1, <2>3
  <2>6. \A n \in 1..MaxStep : n > steps' \/ n = seed' => n > steps
    BY <2>1, <2>3, Bounds
  <2>7. Handed'
    BY <2>1, <2>5, <2>6 DEF Handed
  <2> QED
    BY <2>2, <2>4, <2>7, JoinParts
<1>3. ASSUME NEW p \in Pages, Go(p) PROVE TypeOK' /\ OneAtATime' /\ Handed'
  <2>1. Spent /\ UNCHANGED <<ver, seed, asked>> /\ (Open(p, 0) \/ Open(p, 1))
    BY <1>3 DEF Go
  <2>2. page' \in Pages /\ ListType' /\ ChatType' /\ OneAtATime'
    BY <2>1, OpenSafe
  <2>3. steps' \in 0..MaxStep /\ steps' >= steps
    BY <1>1, <2>1, SpentStep
  <2>4. DataType'
    BY <1>1, <2>1, <2>2, <2>3 DEF DataType
  <2>5. SeedType' /\ Handed'
    BY <2>1, <2>3, QuestionKept
  <2> QED
    BY <2>2, <2>4, <2>5, JoinParts
<1> QED
  BY <1>2, <1>3

-----------------------------------------------------------------------------
(* The conversation.                                                       *)

\* What a step of the chat leaves alone, and what is left to show of it.
LEMMA ChatKept ==
  ASSUME TypeOK, UNCHANGED <<ver, page, lists>>, steps' \in 0..MaxStep,
         made' \in 1..MaxSession, sess' \subseteq 1..made', dead' \in Nat, chat' \in Chats,
         CalmChat => Calm(chat'), SeedType', Handed'
  PROVE  TypeOK' /\ OneAtATime' /\ Handed'
<1>1. DataType /\ ListType
  BY TypeParts
<1>2. /\ want' = want /\ due' = due /\ calls' = calls /\ shown' = shown /\ ver' = ver /\ page' = page
  BY DEF lists
<1>3. DataType' /\ ListType' /\ ChatType'
  BY <1>1, <1>2 DEF DataType, ListType, ChatType
<1> QED
  BY <1>3, JoinParts DEF OneAtATime

\* The chat starts, with the page or without it.
LEMMA StartSteps ==
  ASSUME TypeOK, OneAtATime, Handed, ConfigArrives \/ SessionsArrive \/ FirstHistory \/ DeadStarts
  PROVE  TypeOK' /\ OneAtATime' /\ Handed'
<1>1. /\ DataType /\ ChatType /\ chat \in Chats /\ sess \subseteq 1..made
      /\ made \in 1..MaxSession /\ dead \in Nat
  BY TypeParts DEF ChatType
<1>2. sess \subseteq 0..MaxSession /\ chat.first \in 0..MaxSession
  BY <1>1, Bounds DEF Chats
<1>3. ASSUME chat.at # "ready", CalmChat PROVE Untouched(chat) /\ chat.active = 0
  BY <1>3 DEF OneAtATime, Calm
<1>4. CASE ConfigArrives
  <2>1. PICK e \in BOOLEAN : chat' = [chat EXCEPT !.at = "list", !.enabled = e]
    BY <1>4 DEF ConfigArrives
  <2>2. /\ chat.at = "config" /\ UNCHANGED <<ver, page, lists, dead, steps, made, sess, seed, asked>>
    BY <1>4 DEF ConfigArrives, Free, ChatOnly
  <2>3. chat' \in Chats
    BY <1>1, <2>1 DEF Chats
  <2>4. /\ chat'.active = chat.active /\ chat'.msgs = chat.msgs /\ chat'.picked = chat.picked
        /\ chat'.del = chat.del /\ chat'.on = chat.on
    BY <1>1, <2>1 DEF Chats
  <2>5. CalmChat => Calm(chat')
    BY <1>3, <2>2, <2>4 DEF Calm, Untouched
  <2>6. steps' \in 0..MaxStep /\ steps' >= steps
    BY <1>1, <2>2, SpentStep
  <2>7. SeedType' /\ Handed'
    BY <2>2, <2>6, QuestionKept
  <2> QED
    BY <1>1, <2>2, <2>3, <2>5, <2>6, <2>7, ChatKept
<1>5. CASE SessionsArrive
  <2>1. /\ chat.at = "list" /\ UNCHANGED <<ver, page, lists, dead, steps, made, sess>>
    BY <1>5 DEF SessionsArrive, Free, ChatOnly
  <2>2. steps' \in 0..MaxStep /\ steps' >= steps
    BY <1>1, <2>1, SpentStep
  <2>3. CASE Started(chat)
    <3>1. chat' \in Chats /\ (Untouched(chat) => Calm(chat')) /\ SeedType' /\ Handed'
      BY <1>1, <2>2, <2>3, StartedShape
    <3> QED
      BY <1>1, <1>3, <2>1, <2>2, <3>1, ChatKept
  <2>4. ASSUME NEW s \in sess, chat' = [chat EXCEPT !.at = "history", !.first = s], UNCHANGED <<seed, asked>>
        PROVE  TypeOK' /\ OneAtATime' /\ Handed'
    <3>1. chat' \in Chats
      BY <1>1, <1>2, <2>4 DEF Chats
    <3>2. /\ chat'.active = chat.active /\ chat'.msgs = chat.msgs /\ chat'.picked = chat.picked
          /\ chat'.del = chat.del /\ chat'.on = chat.on
      BY <1>1, <2>4 DEF Chats
    <3>3. CalmChat => Calm(chat')
      BY <1>3, <2>1, <3>2 DEF Calm, Untouched
    <3>4. SeedType' /\ Handed'
      BY <2>2, <2>4, QuestionKept
    <3> QED
      BY <1>1, <2>1, <2>2, <3>1, <3>3, <3>4, ChatKept
  <2> QED
    BY <1>5, <2>3, <2>4 DEF SessionsArrive
<1>6. CASE FirstHistory
  <2> DEFINE h == WithHistory(chat, chat.first)
  <2>1. /\ chat.at = "history" /\ UNCHANGED <<ver, page, lists, dead, made, sess>>
        /\ steps' = steps \/ Spent
        /\ Started(h) \/ Started(chat)
    BY <1>6 DEF FirstHistory, ChatOnly
  <2>2. steps' \in 0..MaxStep /\ steps' >= steps
    BY <1>1, <2>1, SpentStep
  <2>3. h \in Chats
    BY <1>1, <1>2, ChatForms
  <2>4. Untouched(chat) => Untouched(h)
    BY <1>1 DEF WithHistory, Untouched, Chats
  <2> HIDE DEF h
  <2>5. chat' \in Chats /\ (Untouched(chat) => Calm(chat')) /\ SeedType' /\ Handed'
    <3>1. CASE Started(h)
      BY <2>2, <2>3, <2>4, <3>1, StartedShape
    <3>2. CASE Started(chat)
      BY <1>1, <2>2, <3>2, StartedShape
    <3> QED
      BY <2>1, <3>1, <3>2
  <2> QED
    BY <1>1, <1>3, <2>1, <2>2, <2>5, ChatKept
<1>7. CASE DeadStarts
  <2>1. /\ dead > 0 /\ dead' = dead - 1 /\ UNCHANGED <<ver, steps, page, lists, chat>>
        /\ Orphaned \/ UNCHANGED <<made, sess>>
        /\ (seed # 0 /\ SeedTaken(NoChat)) \/ UNCHANGED <<seed, asked>>
    BY <1>7 DEF DeadStarts
  <2>2. steps' \in 0..MaxStep /\ steps' >= steps
    BY <1>1, <2>1, SpentStep
  <2>3. SeedType' /\ Handed'
    BY <2>1, <2>2, QuestionTaken, QuestionKept
  <2>4. made' \in 1..MaxSession /\ sess' \subseteq 1..made'
    BY <1>1, <2>1, OrphanedType
  <2>5. dead' \in Nat /\ chat' \in Chats /\ (CalmChat => Calm(chat'))
    BY <1>1, <2>1 DEF OneAtATime
  <2> QED
    BY <2>1, <2>2, <2>3, <2>4, <2>5, ChatKept
<1> QED
  BY <1>4, <1>5, <1>6, <1>7

\* What the user does to the conversation, and what the server answers.
LEMMA TouchSteps ==
  ASSUME TypeOK, OneAtATime, Handed,
         \/ NewSession \/ Delete \/ Deleted \/ Send \/ StreamEnds
         \/ \E s \in 1..MaxSession : Pick(s) \/ PickedArrives(s)
  PROVE  TypeOK' /\ OneAtATime' /\ Handed'
<1> DEFINE c == chat
<1>1. /\ DataType /\ c \in Chats /\ sess \subseteq 1..made /\ made \in 1..MaxSession /\ dead \in Nat
  BY TypeParts DEF ChatType
<1>2. /\ c.active \in 0..MaxSession /\ c.msgs \in 0..MaxSession /\ c.picked \subseteq 1..MaxSession
      /\ c.del \in 0..MaxSession /\ c.to \in 0..MaxSession /\ c.on \in BOOLEAN
  BY <1>1 DEF Chats
<1>3. 0 \in 0..MaxSession /\ 1..MaxSession \subseteq 0..MaxSession
  BY Bounds
<1>4. UNCHANGED <<ver, page, lists, dead, seed, asked>> /\ (Spent \/ UNCHANGED steps)
  BY DEF NewSession, Delete, Deleted, Send, StreamEnds, Pick, PickedArrives, MayTouch, ChatOnly, Free
<1>5. steps' \in 0..MaxStep /\ steps' >= steps
  BY <1>1, <1>4, SpentStep
<1>6. SeedType' /\ Handed'
  BY <1>4, <1>5, QuestionKept
<1>7. SUFFICES /\ made' \in 1..MaxSession /\ sess' \subseteq 1..made' /\ chat' \in Chats
               /\ CalmChat => Calm(chat')
  BY <1>1, <1>4, <1>5, <1>6, ChatKept
<1>8. CalmChat => Calm(c)
  BY DEF OneAtATime
<1>9. ASSUME MayTouch, CalmChat
      PROVE  /\ c.at = "ready" /\ c.picked = {} /\ c.del = 0 /\ ~c.on /\ c.msgs = c.active
  BY <1>8, <1>9 DEF MayTouch, Still, Calm
<1>10. CASE NewSession
  <2>1. MayTouch /\ chat' = Cleared(c) /\ UNCHANGED <<made, sess>>
    BY <1>10 DEF NewSession
  <2>2. chat' \in Chats
    BY <1>1, <2>1, ChatForms
  <2>3. /\ chat'.at = c.at /\ chat'.active = 0 /\ chat'.msgs = 0 /\ chat'.picked = c.picked
        /\ chat'.del = c.del /\ chat'.on = c.on
    BY <1>1, <2>1 DEF Cleared, Chats
  <2>4. CalmChat => Calm(chat')
    BY <1>9, <2>1, <2>3 DEF Calm
  <2> QED
    BY <1>1, <2>1, <2>2, <2>4
<1>11. CASE Delete
  <2>1. MayTouch /\ chat' = [c EXCEPT !.del = c.active] /\ sess' = sess \ {c.active} /\ made' = made
        /\ c.active # 0
    BY <1>11 DEF Delete
  <2>2. chat' \in Chats
    BY <1>1, <1>2, <2>1 DEF Chats
  <2>3. /\ chat'.at = c.at /\ chat'.active = c.active /\ chat'.msgs = c.msgs /\ chat'.picked = c.picked
        /\ chat'.del = c.active /\ chat'.on = c.on
    BY <1>1, <2>1 DEF Chats
  <2>4. CalmChat => Calm(chat')
    BY <1>9, <2>1, <2>3 DEF Calm
  <2> QED
    BY <1>1, <2>1, <2>2, <2>4
<1>12. CASE Deleted
  <2>1. c.del # 0 /\ chat' = [Cleared(c) EXCEPT !.del = 0] /\ UNCHANGED <<made, sess>>
    BY <1>12 DEF Deleted
  <2>2. chat' \in Chats
    BY <1>1, <2>1, ChatForms
  <2>3. /\ chat'.at = c.at /\ chat'.active = 0 /\ chat'.msgs = 0 /\ chat'.picked = c.picked
        /\ chat'.del = 0 /\ chat'.on = c.on
    BY <1>1, <2>1 DEF Cleared, Chats
  <2>4. CalmChat => Calm(chat')
    BY <1>8, <2>1, <2>3 DEF Calm, Untouched
  <2> QED
    BY <1>1, <2>1, <2>2, <2>4
<1>13. CASE Send
  <2>1. MayTouch /\ ~c.on /\ chat' = Sent(c) /\ UNCHANGED <<made, sess>>
    BY <1>13 DEF Send
  <2>2. chat' \in Chats /\ chat' = [c EXCEPT !.on = TRUE, !.to = c.active]
    BY <1>1, <2>1, ChatForms DEF Sent
  <2>3. /\ chat'.at = c.at /\ chat'.active = c.active /\ chat'.msgs = c.msgs /\ chat'.picked = c.picked
        /\ chat'.del = c.del /\ chat'.to = c.active
    BY <1>1, <2>2 DEF Chats
  <2>4. CalmChat => Calm(chat')
    BY <1>9, <2>1, <2>3 DEF Calm
  <2> QED
    BY <1>1, <2>1, <2>2, <2>4
<1>14. CASE StreamEnds
  <2>1. PICK n \in IF c.to # 0 THEN {c.to} ELSE {made + 1} \cap 1..MaxSession :
          /\ sess' = sess \cup {n} /\ made' = IF n > made THEN n ELSE made
          /\ \/ chat' = [c EXCEPT !.on = FALSE, !.active = n, !.msgs = IF @ = c.to THEN n ELSE @]
             \/ chat' = [c EXCEPT !.on = FALSE]
    BY <1>14 DEF StreamEnds
  <2>2. n \in 1..MaxSession /\ n \in 0..MaxSession
    BY <1>2, <1>3, <2>1, Bounds
  <2>3. made' \in 1..MaxSession /\ sess' \subseteq 1..made'
    BY <1>1, <2>1, <2>2, Bounds
  <2>4. c.on
    BY <1>14 DEF StreamEnds
  <2>5. CalmChat => c.to = c.active /\ c.picked = {} /\ c.del = 0 /\ c.msgs = c.active /\ c.at = "ready"
    BY <1>8, <2>4 DEF Calm, Untouched
  <2>6. CASE chat' = [c EXCEPT !.on = FALSE]
    <3>1. chat' \in Chats
      BY <1>1, <2>6 DEF Chats
    <3>2. /\ chat'.at = c.at /\ chat'.active = c.active /\ chat'.msgs = c.msgs /\ chat'.picked = c.picked
          /\ chat'.del = c.del /\ ~chat'.on
      BY <1>1, <2>6 DEF Chats
    <3> QED
      BY <2>3, <2>5, <3>1, <3>2 DEF Calm
  <2>7. CASE chat' = [c EXCEPT !.on = FALSE, !.active = n, !.msgs = IF @ = c.to THEN n ELSE @]
    <3>1. chat' \in Chats
      BY <1>1, <2>2, <2>7 DEF Chats
    <3>2. /\ chat'.at = c.at /\ chat'.active = n /\ chat'.msgs = (IF c.msgs = c.to THEN n ELSE c.msgs)
          /\ chat'.picked = c.picked /\ chat'.del = c.del /\ ~chat'.on
      BY <1>1, <2>7 DEF Chats
    <3> QED
      BY <2>3, <2>5, <3>1, <3>2 DEF Calm
  <2> QED
    BY <2>1, <2>6, <2>7
<1>15. ASSUME NEW s \in 1..MaxSession, Pick(s)
       PROVE  /\ made' \in 1..MaxSession /\ sess' \subseteq 1..made' /\ chat' \in Chats
              /\ CalmChat => Calm(chat')
  <2>1. MayTouch /\ chat' = [c EXCEPT !.active = s, !.picked = c.picked \cup {s}] /\ UNCHANGED <<made, sess>>
    BY <1>15 DEF Pick
  <2>2. chat' \in Chats
    BY <1>1, <1>2, <1>3, <2>1 DEF Chats
  <2>3. /\ chat'.at = c.at /\ chat'.picked = c.picked \cup {s} /\ chat'.del = c.del /\ chat'.on = c.on
    BY <1>1, <2>1 DEF Chats
  <2>4. CalmChat => Calm(chat')
    BY <1>9, <2>1, <2>3 DEF Calm
  <2> QED
    BY <1>1, <2>1, <2>2, <2>4
<1>16. ASSUME NEW s \in 1..MaxSession, PickedArrives(s)
       PROVE  /\ made' \in 1..MaxSession /\ sess' \subseteq 1..made' /\ chat' \in Chats
              /\ CalmChat => Calm(chat')
  <2> DEFINE d == [c EXCEPT !.picked = c.picked \ {s}]
  <2>1. /\ s \in c.picked /\ UNCHANGED <<made, sess>>
        /\ chat' = WithHistory(d, s) \/ (~CalmChat /\ chat' = d)
    BY <1>16, Zenon DEF PickedArrives
  <2>2. d \in Chats
    BY <1>1, <1>2 DEF Chats
  <2>3. d.at = c.at /\ d.picked = c.picked \ {s} /\ d.del = c.del /\ d.on = c.on
    BY <1>1 DEF Chats
  <2> HIDE DEF d
  <2>4. chat' \in Chats
    BY <1>3, <2>1, <2>2, ChatForms
  <2>5. ASSUME CalmChat PROVE Calm(chat')
    <3>1. c.at = "ready" /\ c.del = 0 /\ ~c.on /\ c.picked = {s}
      BY <1>8, <2>1, <2>5 DEF Calm, Untouched
    <3>2. chat' = WithHistory(d, s)
      BY <2>1, <2>5
    <3>3. /\ chat'.at = d.at /\ chat'.active = s /\ chat'.msgs = s /\ chat'.picked = d.picked
          /\ chat'.del = d.del /\ chat'.on = d.on
      BY <2>2, <3>2 DEF WithHistory, Chats
    <3> QED
      BY <2>3, <3>1, <3>3 DEF Calm
  <2> QED
    BY <1>1, <2>1, <2>4, <2>5
<1> QED
  BY <1>10, <1>11, <1>12, <1>13, <1>14, <1>15, <1>16

-----------------------------------------------------------------------------
(* The theorems.                                                           *)

LEMMA InitSafe == Init => TypeOK /\ OneAtATime /\ Handed
<1> SUFFICES ASSUME Init PROVE TypeOK /\ OneAtATime /\ Handed
  OBVIOUS
<1>1. DataType
  BY Bounds DEF Init, DataType, Pages
<1>2. Nothing \in Shown /\ First \in Queries
  BY QueryType, Bounds DEF Nothing, Shown
<1>3. Loads({"logs"}, First) \subseteq Calls
  <2>1. ListsOf("logs") = {"logs"} /\ "logs" \in Pages
    BY DEF ListsOf, LogLists, Pages
  <2> QED
    BY <1>2, <2>1, LoadType
<1>4. ListType
  BY <1>2, <1>3 DEF Init, ListType
<1>5. ChatType
  BY ChatForms, Bounds DEF Init, ChatType
<1>6. SeedType /\ Handed
  BY Bounds DEF Init, SeedType, Handed
<1>7. OneAtATime
  BY ChatForms DEF Init, OneAtATime
<1> QED
  BY <1>1, <1>4, <1>5, <1>6, <1>7, TypeParts

LEMMA NextSafe == TypeOK /\ OneAtATime /\ Handed /\ [Next]_vars => TypeOK' /\ OneAtATime' /\ Handed'
<1> SUFFICES ASSUME TypeOK, OneAtATime, Handed, [Next]_vars PROVE TypeOK' /\ OneAtATime' /\ Handed'
  OBVIOUS
<1>1. CASE \E c \in calls : Serve(c) \/ Arrive(c) \/ Lose(c)
  BY <1>1, CallSteps, TalkKept
<1>2. CASE \/ Change \/ Debounced \/ TurnPage \/ RowStep \/ (\E l \in Lists : Interval(l))
           \/ \E f \in 0..1 : FilterLogs(f) \/ Select(f)
  BY <1>2, PageSteps, TalkKept
<1>3. CASE AskAI \/ \E p \in Pages : Go(p)
  BY <1>3, OpenSteps
<1>4. CASE ChatStep
  BY <1>4, StartSteps, TouchSteps DEF ChatStep
<1>5. CASE UNCHANGED vars
  <2>1. UNCHANGED <<ver, steps, page, lists, talk>>
    BY <1>5 DEF vars
  <2>2. DataType /\ ListType /\ steps \in Nat
    BY TypeParts, Bounds DEF DataType
  <2>3. DataType' /\ ListType' /\ steps' >= steps
    BY <2>1, <2>2 DEF DataType, ListType, lists
  <2> QED
    BY <2>1, <2>3, TalkKept
<1> QED
  BY <1>1, <1>2, <1>3, <1>4, <1>5 DEF Next, ListStep

LEMMA SoundAlways == Spec => [](TypeOK /\ OneAtATime /\ Handed)
BY InitSafe, NextSafe, PTL DEF Spec

\* Every variable has its type: in particular the server knows no session that was
\* not made, and no call is for a list or an action there is not.
THEOREM TypeCorrect == Spec => []TypeOK
BY SoundAlways, PTL

\* A user who waits for the chat before touching it sees, whenever nothing is on its
\* way, the conversation the next question goes to, whatever streams broke, sessions
\* were deleted or pages were left (AIChat.vue:148-172, 255-279).
THEOREM ChatIsItsSessions == CalmChat => (Spec => []ChatShowsItsSession)
<1>1. CalmChat /\ OneAtATime => ChatShowsItsSession
  BY DEF OneAtATime, Calm, Still, ChatShowsItsSession
<1>2. CASE CalmChat
  <2>1. TypeOK /\ OneAtATime /\ Handed => ChatShowsItsSession
    BY <1>1, <1>2
  <2> QED
    BY <2>1, SoundAlways, PTL
<1> QED
  BY <1>2

\* A question handed over by the log page is sent at most once, however many chat
\* pages were opened and left before they had started (AIChat.vue:223-229).
THEOREM SeedIsAskedOnce == Spec => []SeedAskedOnce
<1>1. Handed => SeedAskedOnce
  BY DEF Handed, SeedAskedOnce
<1> QED
  BY <1>1, SoundAlways, PTL

-----------------------------------------------------------------------------
(* The session (ConsoleSession).                                           *)

HIDE ViewsAssumption

\* The server's side of a session, which no tab can change otherwise.
ServerType ==
  /\ clock \in 1..MaxClock /\ invalidBefore \in 0..clock /\ key \in 0..MaxRestart

\* What a step may do to what cookies are judged by.
Judging ==
  \/ clock' \in clock..MaxClock /\ invalidBefore' = invalidBefore /\ key' = key
  \/ clock' = clock /\ invalidBefore' = clock /\ key' = key
  \/ clock' = clock /\ invalidBefore' = 0 /\ key < MaxRestart
     /\ key' = IF Anchored THEN key ELSE key + 1

LEMMA SessionSteps ==
  ASSUME ServerType, [SessionNext]_sessionVars
  PROVE  Judging
<1> USE DEF server, browser, Revoke, ServerType
<1>1. CASE Tick
  BY <1>1, SessionAssumption DEF Tick, Judging
<1>2. CASE Restart
  BY <1>2 DEF Restart, Judging
<1>3. CASE OtherSignsOut
  BY <1>3 DEF OtherSignsOut, Judging
<1>4. CASE \E u \in User : ResetPassword(u) \/ OtherSignsIn(u)
  BY <1>4 DEF ResetPassword, OtherSignsIn, Judging
<1>5. CASE Acts
  <2>1. CASE Logout
    BY <2>1 DEF Logout, Ask, Judging
  <2>2. CASE ChangePassword
    BY <2>2 DEF ChangePassword, Ask, Judging
  <2>3. CASE Refresh \/ (\E to \in Page : Goto(to)) \/ \E u \in User : Login(u)
    BY <2>3 DEF Refresh, Goto, Login, Ask, Judging
  <2> QED
    BY <1>5, <2>1, <2>2, <2>3 DEF Acts
<1>6. CASE Navigate \/ Poll
  BY <1>6 DEF Navigate, Poll, Judging
<1>7. CASE Answered
  BY <1>7 DEF Answered, PollAnswered, PollLost, LoginAnswered,
     LogoutDone, PasswordChanged, ChangedAnswered, PasswordDenied,
     CallFailed, Judging
<1>8. CASE UNCHANGED sessionVars
  BY <1>8 DEF sessionVars, Judging
<1> QED
  BY <1>1, <1>2, <1>3, <1>4, <1>5, <1>6, <1>7, <1>8 DEF SessionNext

LEMMA ServerStep ==
  ASSUME ServerType, [SessionNext]_sessionVars
  PROVE  ServerType'
<1>1. MaxRestart \in Nat /\ MaxClock \in Nat
  BY SessionAssumption
<1> QED
  BY <1>1, SessionSteps DEF Judging, ServerType

\* What the browser and the tab hold.  A cookie in a login's answer is no newer than now.
TabType ==
  /\ must \subseteq User
  /\ jar = None \/ (jar \in Cookie /\ jar.iat <= clock)
  /\ {store, mem, pending} \subseteq User \cup {None}
  /\ {hash, view} \subseteq Page
  /\ poll \in {"quiet", "ok", "401", "403"}
  /\ call \in Asked
  /\ call.kind = "login" => call.cookie \in Cookie /\ call.cookie.iat <= clock

LEMMA CallShape ==
  /\ Quiet \in Asked /\ Quiet.kind = "none"
  /\ \A k \in {"none", "login", "logout", "passwd", "mypw", "changed", "message"},
        a \in {"none", "ok", "must", "401", "lost"}, c \in Cookie \cup {None} :
       LET r == [kind |-> k, answer |-> a, cookie |-> c]
       IN  r \in Asked /\ r.kind = k /\ r.cookie = c
  /\ \A u \in User :
       LET c == [user |-> u, iat |-> clock, key |-> key]
       IN  ServerType => c \in Cookie /\ c.iat = clock /\ c.user = u
BY DEF Quiet, Asked, Cookie, ServerType

LEMMA Guards ==
  ASSUME NEW to \in Page, NEW who
  PROVE  Guarded(to, who) \in Page
BY DEF Guarded, Page, Console

\* What the user does.
LEMMA ActsType ==
  ASSUME ServerType, TabType, Acts \/ Navigate \/ Poll
  PROVE  TabType'
<1>0. clock' = clock
  BY DEF Acts, Navigate, Poll, Goto, Refresh, Logout, ChangePassword, Login, Revoke, server
<1>1. CASE Acts
  <2>1. CASE \E u \in User : Login(u)
    <3>1. PICK u \in User : Login(u)
      BY <2>1
    <3>2. PICK c \in Cookie : c = [user |-> u, iat |-> clock, key |-> key] /\ c.iat = clock
      <4>1. [user |-> u, iat |-> clock, key |-> key] \in Cookie
        BY CallShape
      <4> QED
        BY <4>1
    <3>3. /\ call' \in Asked
          /\ call'.kind = "login" => call'.cookie \in Cookie /\ call'.cookie.iat <= clock
      <4>1. \/ call' = [kind |-> "message", answer |-> "ok", cookie |-> None]
            \/ call' = [kind |-> "login", answer |-> "must", cookie |-> c]
            \/ call' = [kind |-> "login", answer |-> "ok", cookie |-> c]
        BY <3>1, <3>2 DEF Login, Ask
      <4>2. c.iat <= clock
        BY <3>2 DEF ServerType
      <4> QED
        BY <4>1, <4>2, CallShape
    <3>4. UNCHANGED <<must, jar, store, mem, pending, hash, view, poll>>
      BY <3>1 DEF Login, Ask, browser, server
    <3> QED
      BY <1>0, <3>3, <3>4 DEF TabType
  <2>2. CASE Logout \/ ChangePassword
    <3>1. PICK k \in {"logout", "passwd", "mypw", "message"}, a \in {"ok", "lost", "401"} :
            call' = [kind |-> k, answer |-> a, cookie |-> None]
      BY <2>2 DEF Logout, ChangePassword, Ask
    <3>2. call' \in Asked /\ call'.kind # "login"
      BY <3>1, CallShape
    <3>3. UNCHANGED <<jar, store, mem, pending, hash, view, poll>>
      BY <2>2 DEF Logout, ChangePassword, Ask, browser
    <3>4. must' \subseteq User
      BY <2>2 DEF TabType, Logout, ChangePassword, Revoke, server
    <3> QED
      BY <1>0, <3>2, <3>3, <3>4 DEF TabType
  <2>3. CASE Refresh
    <3>1. hash' \in Page /\ view' \in Page
      BY <2>3, Guards DEF Refresh, TabType, Page
    <3> QED
      BY <1>0, <2>3, <3>1, CallShape DEF Refresh, TabType, server, browser
  <2>4. CASE \E to \in Page : Goto(to)
    BY <1>0, <2>4 DEF Goto, TabType, server, browser
  <2> QED
    BY <1>1, <2>1, <2>2, <2>3, <2>4 DEF Acts
<1>2. CASE Navigate
  <2>1. hash' \in Page /\ view' \in Page
    BY <1>2, Guards DEF Navigate, TabType, Page
  <2> QED
    BY <1>0, <1>2, <2>1 DEF Navigate, TabType, server, browser
<1>3. CASE Poll
  BY <1>0, <1>3 DEF Poll, Verdict, TabType, server, browser
<1> QED
  BY <1>1, <1>2, <1>3

\* The answers.
LEMMA AnswersType ==
  ASSUME ServerType, TabType, Answered
  PROVE  TabType'
<1>0. clock' = clock /\ must' = must /\ view' = view
  BY DEF Answered, PollAnswered, PollLost, LoginAnswered, LogoutDone, PasswordChanged,
     ChangedAnswered, PasswordDenied, CallFailed, Revoke, server
<1>1. /\ hash' \in Page
      /\ {store', mem', pending'} \subseteq User \cup {None}
  <2>1. {"login", "change", "home"} \subseteq Page
    BY DEF Page, Console
  <2>2. CASE LoginAnswered
    <3>1. call.cookie \in Cookie /\ call.cookie.user \in User
      BY <2>2 DEF LoginAnswered, Got, TabType, Cookie
    <3> QED
      BY <2>1, <2>2, <3>1 DEF LoginAnswered, TabType
  <2>3. CASE PollAnswered \/ PollLost
    BY <2>1, <2>3 DEF PollAnswered, PollLost, SignedOut, SentToChange, TabType, browser
  <2>4. CASE LogoutDone \/ PasswordChanged \/ ChangedAnswered \/ PasswordDenied \/ CallFailed
    BY <2>1, <2>4 DEF LogoutDone, PasswordChanged, ChangedAnswered, PasswordDenied,
       CallFailed, SignedOut, TabType, browser
  <2> QED
    BY <2>2, <2>3, <2>4 DEF Answered
<1>2. poll' \in {"quiet", "ok", "401", "403"}
  BY DEF Answered, PollAnswered, PollLost, LoginAnswered, LogoutDone, PasswordChanged,
     ChangedAnswered, PasswordDenied, CallFailed, TabType
<1>3. jar' = None \/ (jar' \in Cookie /\ jar'.iat <= clock)
  BY DEF Answered, PollAnswered, PollLost, LoginAnswered, LogoutDone, PasswordChanged,
     ChangedAnswered, PasswordDenied, CallFailed, Got, browser, TabType
<1>4. call' \in Asked /\ (call'.kind = "login" => call' = call)
  <2>1. CASE PasswordChanged
    <3>1. call' \in Asked /\ call'.kind = "changed"
      BY <2>1 DEF PasswordChanged, Asked, TabType
    <3> QED
      BY <3>1
  <2>2. CASE ~PasswordChanged
    <3>1. call' = call \/ call' = Quiet
      BY <2>2 DEF Answered, PollAnswered, PollLost, LoginAnswered, LogoutDone,
         ChangedAnswered, PasswordDenied, CallFailed, Done
    <3> QED
      BY <3>1, CallShape DEF TabType
  <2> QED
    BY <2>1, <2>2
<1> QED
  BY <1>0, <1>1, <1>2, <1>3, <1>4 DEF TabType

\* The server's events and the other tabs.
LEMMA OthersType ==
  ASSUME ServerType, TabType,
         \/ Tick \/ Restart \/ OtherSignsOut
         \/ \E u \in User : ResetPassword(u) \/ OtherSignsIn(u)
  PROVE  TabType'
<1>1. CASE Tick
  <2>1. clock' = clock + 1 /\ clock \in Nat
    BY <1>1 DEF Tick, ServerType
  <2>2. \A c \in Cookie : c.iat \in Nat
    BY DEF Cookie
  <2>3. UNCHANGED <<must, jar, store, mem, pending, hash, view, poll, call>>
    BY <1>1 DEF Tick, browser
  <2>4. jar' = None \/ (jar' \in Cookie /\ jar'.iat <= clock')
    BY <2>1, <2>2, <2>3 DEF TabType
  <2>5. call'.kind = "login" => call'.cookie \in Cookie /\ call'.cookie.iat <= clock'
    BY <2>1, <2>2, <2>3 DEF TabType
  <2> QED
    BY <2>3, <2>4, <2>5 DEF TabType
<1>2. CASE Restart \/ OtherSignsOut \/ \E u \in User : ResetPassword(u)
  <2>1. /\ clock' = clock /\ must' \subseteq User
        /\ jar' = jar \/ jar' = None
        /\ store' = store \/ store' = None
        /\ UNCHANGED <<mem, pending, hash, view, poll, call>>
    BY <1>2 DEF Restart, OtherSignsOut, ResetPassword, Revoke, server, browser, TabType
  <2> QED
    BY <2>1 DEF TabType
<1>3. CASE \E u \in User : OtherSignsIn(u)
  <2>1. PICK u \in User : OtherSignsIn(u)
    BY <1>3
  <2>2. /\ clock' = clock /\ must' = must /\ store' = u
        /\ UNCHANGED <<mem, pending, hash, view, poll, call>>
    BY <2>1 DEF OtherSignsIn, server
  <2>3. jar' \in Cookie /\ jar'.iat = clock
    BY <2>1, CallShape DEF OtherSignsIn
  <2>4. jar'.iat <= clock
    BY <2>3 DEF ServerType
  <2> QED
    BY <2>2, <2>3, <2>4 DEF TabType
<1> QED
  BY <1>1, <1>2, <1>3

\* Every variable keeps its type, and no cookie that is kept was issued after now.
THEOREM SessionTypeCorrect == SessionSpec => []SessionTypeOK
<1>0. MaxRestart \in Nat /\ MaxClock \in Nat /\ MaxClock > 0
  BY SessionAssumption
<1>1. SessionInit => ServerType /\ TabType
  <2> SUFFICES ASSUME SessionInit PROVE ServerType /\ TabType
    OBVIOUS
  <2>1. ServerType
    BY <1>0 DEF SessionInit, ServerType
  <2>2. call = Quiet /\ "login" \in Page
    BY DEF SessionInit, Page
  <2> QED
    BY <2>1, <2>2, CallShape DEF SessionInit, TabType
<1>2. ServerType /\ TabType /\ [SessionNext]_sessionVars => (ServerType /\ TabType)'
  <2> SUFFICES ASSUME ServerType, TabType, [SessionNext]_sessionVars PROVE ServerType' /\ TabType'
    OBVIOUS
  <2>1. ServerType'
    BY ServerStep
  <2>2. CASE UNCHANGED sessionVars
    <3>1. UNCHANGED <<clock, must, jar, store, mem, pending, hash, view, poll, call>>
      BY <2>2 DEF sessionVars, server, browser
    <3> QED
      BY <2>1, <3>1 DEF TabType
  <2> QED
    BY <2>1, <2>2, ActsType, AnswersType, OthersType DEF SessionNext
<1>3. ServerType /\ TabType => SessionTypeOK
  BY DEF ServerType, TabType, SessionTypeOK
<1> QED
  BY <1>1, <1>2, <1>3, PTL DEF SessionSpec

\* A cookie that was refused once, and every cookie of a moment at which sessions were
\* revoked, is refused from then on, restarts included, if the server draws a new key
\* when it starts.
THEOREM LogoutIsFinal ==
  ~Anchored => (SessionSpec => LogoutIsForGood)
<1> SUFFICES ASSUME ~Anchored PROVE SessionSpec => LogoutIsForGood
  OBVIOUS
<1>0. MaxRestart \in Nat /\ MaxClock \in Nat /\ MaxClock > 0
  BY SessionAssumption
<1>1. SessionInit => ServerType
  BY <1>0 DEF SessionInit, ServerType
<1>2. ServerType /\ [SessionNext]_sessionVars => ServerType'
  BY ServerStep
<1>3. ServerType /\ [SessionNext]_sessionVars =>
        \A c \in Cookie : Issued(c) =>
           /\ ~Accepted(c) => ~(Accepted(c))'
           /\ invalidBefore' = clock => ~(Accepted(c))'
  <2> SUFFICES ASSUME ServerType, Judging, NEW c \in Cookie, Issued(c)
               PROVE  /\ ~Accepted(c) => ~(Accepted(c))'
                      /\ invalidBefore' = clock => ~(Accepted(c))'
    BY SessionSteps
  <2>1. c.iat \in Nat /\ c.key \in Nat /\ TTL \in Nat
    BY SessionAssumption DEF Cookie
  <2> QED
    BY <1>0, <2>1 DEF ServerType, Judging, Issued, Accepted
<1> QED
  BY <1>1, <1>2, <1>3, PTL DEF SessionSpec, LogoutIsForGood

-----------------------------------------------------------------------------
(* The sites page (SitesPage).                                             *)

Sites == Seq(Site)
Doc == [sites : Sites, mail : BOOLEAN]

\* A save under way.
Save == [kind : {"none", "all", "apply", "site", "toggle", "rollback"},
         at : {"idle", "check", "post", "stored"},
         doc : Doc, site : SUBSET Site, before : Sites]

Distinct(d) == \A i, j \in DOMAIN d : d[i].dom = d[j].dom => i = j

Stored ==
  /\ revs \in Seq(Doc) /\ Len(revs) \in 1..MaxRev
  /\ \A r \in 1..Len(revs) : Distinct(revs[r].sites)
  /\ rev \in 0..Len(revs) /\ listed \in 0..Len(revs)

Drafted ==
  /\ form \in Doc /\ dirty \in BOOLEAN /\ drawer \in Nat /\ edit \subseteq Domain
  /\ reading \in Nat /\ listing \in Nat /\ reading + listing <= MaxLoads /\ edits \in 0..MaxEdits

Saved ==
  /\ op \in Save /\ (op.kind = "none" <=> op.at = "idle")
  /\ \A s, t \in op.site : s = t

SitesType == Stored /\ Drafted /\ Saved

LEMMA SitesConstants ==
  MaxRev \in Nat /\ MaxRev > 0 /\ MaxEdits \in Nat /\ MaxLoads \in Nat /\ MaxLoads > 0
BY SitesAssumption

LEMMA SiteShape ==
  /\ \A s \in Site : s.dom \in Domain
  /\ \A d \in Domain : Fresh(d) \in Site /\ Fresh(d).dom = d
  /\ \A s \in Site, b \in BOOLEAN :
       [s EXCEPT !.own = b] \in Site /\ [s EXCEPT !.off = b] \in Site
       /\ [s EXCEPT !.own = b].dom = s.dom
  /\ \A s \in Site : s.own \in BOOLEAN /\ s.off \in BOOLEAN
BY DEF Site, Fresh

LEMMA SitesShape ==
  ASSUME NEW d \in Sites
  PROVE  /\ Len(d) \in Nat /\ DOMAIN d = 1..Len(d) /\ \A i \in 1..Len(d) : d[i] \in Site
         /\ \A s \in Site : Append(d, s) \in Sites
         /\ \A i \in DOMAIN d, s \in Site : [d EXCEPT ![i] = s] \in Sites
         /\ \A i \in DOMAIN d : RemoveAt(d, i) \in Sites
<1>1. Len(d) \in Nat /\ DOMAIN d = 1..Len(d) /\ \A i \in 1..Len(d) : d[i] \in Site
  BY DEF Sites
<1>2. \A s \in Site : Append(d, s) \in Sites
  BY DEF Sites
<1>3. ASSUME NEW i \in DOMAIN d, NEW s \in Site PROVE [d EXCEPT ![i] = s] \in Sites
  BY DEF Sites
<1>4. ASSUME NEW i \in DOMAIN d PROVE RemoveAt(d, i) \in Sites
  <2>1. SubSeq(d, 1, i - 1) \in Sites
    <3>1. \A j \in 1..(i - 1) : d[j] \in Site
      BY <1>1
    <3> QED
      BY <1>1, <3>1 DEF Sites
  <2>2. SubSeq(d, i + 1, Len(d)) \in Sites
    <3>1. \A j \in (i + 1)..Len(d) : d[j] \in Site
      BY <1>1
    <3> QED
      BY <1>1, <3>1 DEF Sites
  <2>3. SubSeq(d, 1, i - 1) \o SubSeq(d, i + 1, Len(d)) \in Sites
    BY <2>1, <2>2 DEF Sites
  <2> QED
    BY <2>3 DEF RemoveAt
<1> QED
  BY <1>1, <1>2, <1>3, <1>4

LEMMA DocShape ==
  ASSUME NEW d \in Doc
  PROVE  /\ d.sites \in Sites /\ d.mail \in BOOLEAN
         /\ \A t \in Sites : [d EXCEPT !.sites = t] \in Doc
         /\ \A b \in BOOLEAN : [d EXCEPT !.mail = b] \in Doc
BY DEF Doc

LEMMA NoSites == <<>> \in Sites /\ Empty \in Doc
BY DEF Sites, Doc, Empty

LEMMA NeighboursType ==
  ASSUME NEW d \in Sites
  PROVE  Neighbours(d) \subseteq Sites
<1>1. \A i \in DOMAIN d : [d EXCEPT ![i].own = ~@] \in Sites
  <2> TAKE i \in DOMAIN d
  <2>1. [d[i] EXCEPT !.own = ~@] \in Site
    BY SiteShape, SitesShape
  <2>2. [d EXCEPT ![i].own = ~@] = [d EXCEPT ![i] = [d[i] EXCEPT !.own = ~@]]
    OBVIOUS
  <2> QED
    BY <2>1, <2>2, SitesShape
<1>2. \A e \in Domain : Append(d, Fresh(e)) \in Sites
  BY SiteShape, SitesShape
<1> QED
  BY <1>1, <1>2, SitesShape DEF Neighbours

LEMMA ElsewhereType ==
  ASSUME NEW d \in Doc
  PROVE  Elsewhere(d) \subseteq Doc
<1>1. \A t \in Neighbours(d.sites) : [d EXCEPT !.sites = t] \in Doc
  BY DocShape, NeighboursType
<1>2. [d EXCEPT !.mail = ~@] \in Doc
  BY DocShape
<1> QED
  BY <1>1, <1>2 DEF Elsewhere

\* The list of sites with one replaced or added.
Put(t, s) ==
  IF s.dom \in Doms(t) THEN [i \in DOMAIN t |-> IF t[i].dom = s.dom THEN s ELSE t[i]]
  ELSE Append(t, s)

LEMMA PutType ==
  ASSUME NEW t \in Sites, NEW s \in Site
  PROVE  Put(t, s) \in Sites
<1>1. CASE s.dom \in Doms(t)
  <2> DEFINE e == [i \in DOMAIN t |-> IF t[i].dom = s.dom THEN s ELSE t[i]]
  <2>1. e \in [1..Len(t) -> Site] /\ Len(t) \in Nat
    BY SitesShape
  <2>2. e \in Sites
    BY <2>1 DEF Sites
  <2> QED
    BY <1>1, <2>2 DEF Put
<1>2. CASE s.dom \notin Doms(t)
  BY <1>2, SitesShape DEF Put
<1> QED
  BY <1>1, <1>2

LEMMA UpsertShape ==
  ASSUME NEW d \in Doc, NEW s \in Site
  PROVE  /\ Upsert(d, s) \in Doc /\ Upsert(d, s).sites = Put(d.sites, s)
         /\ Upsert(d, s).mail = d.mail
<1>1. Upsert(d, s) = [d EXCEPT !.sites = Put(d.sites, s)]
  BY DEF Upsert, Put
<1>2. Put(d.sites, s) \in Sites
  BY PutType, DocShape
<1> QED
  BY <1>1, <1>2 DEF Doc

LEMMA PostedType ==
  ASSUME Stored, Saved
  PROVE  Posted \in Doc /\ doc \in Doc /\ doc = revs[Len(revs)] /\ Len(revs) \in Nat
<1>1. doc \in Doc /\ doc = revs[Len(revs)] /\ Len(revs) \in Nat
  BY DEF Stored, doc
<1>2. op.doc \in Doc /\ op.site \subseteq Site
  BY DEF Saved, Save
<1>3. op.site # {} => (CHOOSE s \in op.site : TRUE) \in op.site
  OBVIOUS
<1> QED
  BY <1>1, <1>2, <1>3, UpsertShape DEF Posted

\* The server refuses a document with a domain twice.
LEMMA ValidIsDistinct ==
  ASSUME NEW e \in Doc, NEW d \in Sites, d = e.sites, Valid(e)
  PROVE  Distinct(d)
<1> DEFINE S == 1..Len(d)
           f == [i \in S |-> d[i].dom]
           T == Doms(d)
<1>1. Len(d) \in Nat /\ DOMAIN d = S
  BY SitesShape
<1>2. IsFiniteSet(S) /\ Cardinality(S) = Len(d)
  <2>1. PICK n \in Nat : n = Len(d)
    BY <1>1
  <2>2. 1 \in Int /\ n \in Int /\ (IF 1 > n THEN 0 ELSE n - 1 + 1) = n
    OBVIOUS
  <2>3. IsFiniteSet(1..n) /\ Cardinality(1..n) = n
    BY <2>2, FS_Interval
  <2> QED
    BY <2>1, <2>3
<1>3. T = {f[i] : i \in S}
  BY <1>1 DEF Doms
<1>4. f \in Surjection(S, T)
  BY <1>3 DEF Surjection
<1>5. Cardinality(T) = Cardinality(S)
  BY <1>2 DEF Valid
<1>6. f \in Injection(S, T)
  BY <1>2, <1>4, <1>5, FS_Surjection
<1>7. \A i, j \in S : f[i] = f[j] => i = j
  BY <1>6 DEF Injection, IsInjective
<1> QED
  BY <1>1, <1>7 DEF Distinct

\* Appending a distinct document keeps all that was stored.
LEMMA StoreAppends ==
  ASSUME Stored, NEW d \in Doc, Distinct(d.sites), Len(revs) < MaxRev,
         revs' = Append(revs, d), rev' = rev, listed' = listed
  PROVE  Stored' /\ Len(revs') = Len(revs) + 1 /\ revs'[Len(revs')] = d
<1>1. PICK n \in Nat : n = Len(revs) /\ n >= 1 /\ n < MaxRev
  BY SitesConstants DEF Stored
<1>2. /\ revs' \in Seq(Doc) /\ Len(revs') = n + 1 /\ revs'[n + 1] = d
      /\ \A r \in 1..n : revs'[r] = revs[r]
  BY <1>1 DEF Stored
<1>3. \A r \in 1..(n + 1) : Distinct(revs'[r].sites)
  <2> TAKE r \in 1..(n + 1)
  <2>1. CASE r = n + 1
    BY <1>2, <2>1
  <2>2. CASE r # n + 1
    <3>1. r \in 1..n
      BY <2>2
    <3> QED
      BY <1>1, <1>2, <3>1 DEF Stored
  <2> QED
    BY <2>1, <2>2
<1>4. n + 1 \in 1..MaxRev /\ rev \in 0..n /\ rev \in 0..(n + 1) /\ listed \in 0..(n + 1)
  BY <1>1, SitesConstants DEF Stored
<1> QED
  BY <1>1, <1>2, <1>3, <1>4 DEF Stored

LEMMA SameStored ==
  ASSUME Stored, revs' = revs, rev' = rev, listed' = listed
  PROVE  Stored'
BY DEF Stored

LEMMA SameDrafted ==
  ASSUME Drafted, UNCHANGED <<form, dirty, drawer, edit, reading, listing, edits>>
  PROVE  Drafted'
BY DEF Drafted

\* The answers of a load.
LEMMA LoadSteps ==
  ASSUME SitesType, ConfigAnswered \/ RevisionsAnswered \/ LoadFails
  PROVE  SitesType'
<1>1. PICK n \in Nat : n = Len(revs) /\ n >= 1 /\ n <= MaxRev
  BY SitesConstants DEF SitesType, Stored
<1>2. Saved' /\ revs' = revs
  BY DEF SitesType, Saved, ConfigAnswered, RevisionsAnswered, LoadFails
<1>3. reading' \in Nat /\ listing' \in Nat /\ reading' + listing' <= MaxLoads
  BY SitesConstants DEF SitesType, Drafted, ConfigAnswered, RevisionsAnswered, LoadFails
<1>4. CASE ConfigAnswered
  <2>1. form' = Merged(doc) /\ doc \in Doc /\ rev' = n /\ listed' = listed
    BY <1>1, <1>4, PostedType DEF ConfigAnswered, SitesType
  <2>2. form' \in Doc
    <3>1. (doc.mail \/ form.mail) \in BOOLEAN
      BY <2>1, DocShape DEF SitesType, Drafted
    <3> QED
      BY <2>1, <3>1, DocShape DEF Merged
  <2>3. Stored'
    BY <1>1, <1>2, <2>1 DEF SitesType, Stored
  <2>4. Drafted'
    BY <1>3, <1>4, <2>2 DEF ConfigAnswered, SitesType, Drafted
  <2> QED
    BY <1>2, <2>3, <2>4 DEF SitesType
<1>5. CASE RevisionsAnswered \/ LoadFails
  <2>1. /\ listed' \in {n, listed} /\ UNCHANGED <<form, rev, drawer, edit, edits>>
        /\ dirty' \in {FALSE, dirty}
    BY <1>1, <1>5 DEF RevisionsAnswered, LoadFails
  <2>2. Stored'
    BY <1>1, <1>2, <2>1 DEF SitesType, Stored
  <2>3. Drafted'
    BY <1>3, <2>1 DEF SitesType, Drafted
  <2> QED
    BY <1>2, <2>2, <2>3 DEF SitesType
<1> QED
  BY <1>4, <1>5

\* The steps that edit the draft or open and close the drawer.
LEMMA DraftSteps ==
  ASSUME SitesType,
         \/ \E i \in 1..Len(form.sites) : EditSite(i) \/ RemoveSite(i)
         \/ \E i \in 0..Len(form.sites), d \in Domain : OpenEdit(i, d)
         \/ EditMail \/ Cancel
  PROVE  SitesType'
<1>0. /\ form \in Doc /\ form.sites \in Sites /\ form.mail \in BOOLEAN
      /\ Len(form.sites) \in Nat /\ edits \in Nat /\ MaxEdits \in Nat
  BY SitesConstants, DocShape, SitesShape DEF SitesType, Drafted
<1>1. ASSUME NEW f \in Doc, Draft(f) PROVE SitesType'
  <2>1. edits' \in 0..MaxEdits
    BY <1>0, <1>1 DEF Draft, MayEdit
  <2>2. Drafted'
    BY <1>1, <2>1 DEF SitesType, Drafted, Draft
  <2> QED
    BY <1>1, <2>2, SameStored DEF SitesType, Saved, Draft
<1>2. ASSUME NEW i \in 1..Len(form.sites), EditSite(i) PROVE SitesType'
  <2>1. i \in DOMAIN form.sites /\ Draft([form EXCEPT !.sites[i] = Switched(@)])
    BY <1>2 DEF EditSite
  <2>2. Switched(form.sites[i]) \in Site
    BY <1>0, SitesShape, SiteShape DEF Switched
  <2>3. [form.sites EXCEPT ![i] = Switched(form.sites[i])] \in Sites
    BY <1>0, <2>1, <2>2, SitesShape
  <2>4. [form EXCEPT !.sites[i] = Switched(@)]
          = [form EXCEPT !.sites = [form.sites EXCEPT ![i] = Switched(form.sites[i])]]
    BY <1>0
  <2>5. [form EXCEPT !.sites[i] = Switched(@)] \in Doc
    BY <1>0, <2>3, <2>4, DocShape
  <2> QED
    BY <1>1, <2>1, <2>5
<1>3. ASSUME NEW i \in 1..Len(form.sites), RemoveSite(i) PROVE SitesType'
  <2>1. RemoveAt(form.sites, i) \in Sites
    BY <1>0, SitesShape
  <2>2. [form EXCEPT !.sites = RemoveAt(@, i)] \in Doc
    BY <1>0, <2>1, DocShape
  <2> QED
    BY <1>1, <1>3, <2>2 DEF RemoveSite
<1>4. CASE EditMail
  <2>1. [form EXCEPT !.mail = ~@] \in Doc
    BY <1>0, DocShape
  <2> QED
    BY <1>1, <1>4, <2>1 DEF EditMail
<1>5. CASE Cancel \/ \E i \in 0..Len(form.sites), d \in Domain : OpenEdit(i, d)
  <2>1. /\ UNCHANGED <<revs, form, rev, listed, dirty, op, reading, listing, edits>>
        /\ edit' \subseteq Domain /\ drawer' \in Nat
    BY <1>0, <1>5 DEF Cancel, OpenEdit, SitesType, Drafted
  <2>2. Drafted'
    BY <2>1 DEF SitesType, Drafted
  <2> QED
    BY <2>1, <2>2, SameStored DEF SitesType, Saved
<1> QED
  BY <1>2, <1>3, <1>4, <1>5

LEMMA SaveType ==
  ASSUME NEW k \in {"none", "all", "apply", "site", "toggle", "rollback"},
         NEW a \in {"idle", "check", "post", "stored"},
         NEW d \in Doc, NEW S \in SUBSET Site, NEW b \in Sites,
         \A s, t \in S : s = t, k = "none" <=> a = "idle",
         op' = [kind |-> k, at |-> a, doc |-> d, site |-> S, before |-> b]
  PROVE  Saved' /\ op'.kind = k /\ op'.at = a
<1>1. op' \in Save
  BY DEF Save
<1>2. op'.site = S
  OBVIOUS
<1> QED
  BY <1>1, <1>2 DEF Saved

LEMMA NoOpType ==
  ASSUME op' = NoOp
  PROVE  Saved'
BY NoSites, SaveType DEF NoOp

\* The drawer's saves, until the listeners are answered.
LEMMA DrawerSteps ==
  ASSUME SitesType,
         \/ \E d \in Domain : SaveDrawer("apply", d) \/ SaveDrawer("site", d) \/ DrawerChecked(d)
         \/ DrawerRefused
  PROVE  SitesType'
<1>0. /\ form \in Doc /\ form.sites \in Sites /\ op \in Save /\ drawer \in Nat
      /\ edits \in Nat /\ MaxEdits \in Nat
  BY SitesConstants, DocShape DEF SitesType, Drafted, Saved
<1>1. Stored'
  BY SameStored DEF SitesType, SaveDrawer, DrawerChecked, DrawerRefused
<1>2. ASSUME NEW d \in Domain, NEW k \in {"apply", "site"}, SaveDrawer(k, d) PROVE SitesType'
  <2>1. op' = [kind |-> k, at |-> "check", doc |-> Empty, site |-> {Fresh(d)}, before |-> form.sites]
    BY <1>2 DEF SaveDrawer, Begin, NoOp
  <2>2. Saved'
    BY <1>0, <2>1, NoSites, SiteShape, SaveType
  <2>3. edits' \in 0..MaxEdits
    <3>1. edits < MaxEdits /\ edits' = edits + 1
      BY <1>2 DEF SaveDrawer, MayEdit
    <3> QED
      BY <1>0, <3>1
  <2>4. Drafted'
    BY <1>2, <2>3 DEF SaveDrawer, SitesType, Drafted
  <2> QED
    BY <1>1, <2>2, <2>4 DEF SitesType
<1>3. ASSUME NEW d \in Domain, DrawerChecked(d) PROVE SitesType'
  <2>1. PICK b \in Site : b = Built(d)
    <3>1. (IF drawer \in DOMAIN form.sites THEN form.sites[drawer].own ELSE FALSE) \in BOOLEAN
      BY <1>0, SitesShape, SiteShape
    <3> QED
      BY <3>1, SiteShape DEF Built
  <2>2. form' = [form EXCEPT !.sites = IF drawer \in DOMAIN form.sites
                                       THEN [form.sites EXCEPT ![drawer] = b]
                                       ELSE Append(form.sites, b)]
    BY <1>3, <2>1 DEF DrawerChecked
  <2>3. form' \in Doc
    <3>1. CASE drawer \in DOMAIN form.sites
      <4>1. [form.sites EXCEPT ![drawer] = b] \in Sites
        BY <1>0, <3>1, SitesShape
      <4> QED
        BY <1>0, <2>2, <3>1, <4>1, DocShape
    <3>2. CASE drawer \notin DOMAIN form.sites
      <4>1. Append(form.sites, b) \in Sites
        BY <1>0, SitesShape
      <4> QED
        BY <1>0, <2>2, <3>2, <4>1, DocShape
    <3> QED
      BY <3>1, <3>2
  <2>4. Drafted'
    BY <1>3, <2>3 DEF DrawerChecked, SitesType, Drafted
  <2>5. Saved'
    <3>1. CASE op' = NoOp
      BY <3>1, NoOpType
    <3>2. CASE op' = [op EXCEPT !.at = "post", !.site = {b}]
      <4>1. op' \in Save
        BY <1>0, <3>2 DEF Save
      <4>2. op'.at = "post" /\ op'.kind = op.kind /\ op'.site = {b}
        BY <1>0, <3>2 DEF Save
      <4>3. op.kind # "none"
        BY <1>3 DEF DrawerChecked, SitesType, Saved
      <4> QED
        BY <4>1, <4>2, <4>3 DEF Saved
    <3> QED
      BY <1>3, <2>1, <3>1, <3>2 DEF DrawerChecked
  <2> QED
    BY <1>1, <2>4, <2>5 DEF SitesType
<1>4. CASE DrawerRefused
  BY <1>1, <1>4, NoOpType, SameDrafted DEF DrawerRefused, SitesType
<1> QED
  BY <1>2, <1>3, <1>4

\* The clicks that begin a save.
LEMMA BeginSteps ==
  ASSUME SitesType,
         \/ \E i \in 1..Len(form.sites) : ToggleSite(i)
         \/ Publish \/ (\E r \in 1..listed : Rollback(r))
  PROVE  SitesType'
<1>0. form \in Doc /\ form.sites \in Sites
  BY DocShape DEF SitesType, Drafted
<1>1. Stored' /\ Drafted'
  BY SameStored, SameDrafted DEF SitesType, ToggleSite, Publish, Rollback
<1>2. CASE Publish
  <2>1. PICK t \in {form.sites} \cup Neighbours(form.sites) :
          Begin([NoOp EXCEPT !.kind = "all", !.at = "post", !.doc = [form EXCEPT !.sites = t]])
    BY <1>2 DEF Publish
  <2>2. PICK d \in Doc : d = [form EXCEPT !.sites = t]
    BY <1>0, <2>1, NeighboursType, DocShape
  <2>3. op' = [kind |-> "all", at |-> "post", doc |-> d, site |-> {}, before |-> <<>>]
    BY <2>1, <2>2 DEF Begin, NoOp
  <2> QED
    BY <1>1, <2>3, NoSites, SaveType DEF SitesType
<1>3. ASSUME NEW i \in 1..Len(form.sites), ToggleSite(i) PROVE SitesType'
  <2>1. PICK s \in Site : s = [form.sites[i] EXCEPT !.off = ~@]
    BY <1>0, SitesShape, SiteShape
  <2>2. op' = [kind |-> "toggle", at |-> "post", doc |-> Empty,
               site |-> {[form.sites[i] EXCEPT !.off = ~@]}, before |-> <<>>]
    BY <1>3 DEF ToggleSite, Begin, NoOp
  <2>3. op' = [kind |-> "toggle", at |-> "post", doc |-> Empty, site |-> {s}, before |-> <<>>]
    BY <2>1, <2>2
  <2> QED
    BY <1>1, <2>3, NoSites, SaveType DEF SitesType
<1>4. ASSUME NEW r \in 1..listed, Rollback(r) PROVE SitesType'
  <2>1. PICK d \in Doc : d = revs[r]
    BY DEF SitesType, Stored
  <2>2. op' = [kind |-> "rollback", at |-> "post", doc |-> revs[r], site |-> {}, before |-> <<>>]
    BY <1>4 DEF Rollback, Begin, NoOp
  <2>3. op' = [kind |-> "rollback", at |-> "post", doc |-> d, site |-> {}, before |-> <<>>]
    BY <2>1, <2>2
  <2> QED
    BY <1>1, <2>3, NoSites, SaveType DEF SitesType
<1> QED
  BY <1>2, <1>3, <1>4

\* The server's answers, and what another administrator stores.
LEMMA SaveSteps ==
  ASSUME SitesType, Commit \/ SaveAnswered \/ NoChanges \/ Failed \/ PublishElsewhere
  PROVE  SitesType'
<1>0. UNCHANGED <<rev, listed, dirty, drawer, edit, edits>> /\ op \in Save
  BY DEF SitesType, Saved, Commit, SaveAnswered, NoChanges, Failed, PublishElsewhere
<1>1. CASE Commit
  <2>1. Posted \in Doc /\ Posted.sites \in Sites /\ Valid(Posted)
    BY <1>1, PostedType, DocShape DEF SitesType, Commit
  <2>2. Distinct(Posted.sites)
    BY <2>1, ValidIsDistinct
  <2>3. Stored'
    BY <1>0, <1>1, <2>1, <2>2, StoreAppends DEF SitesType, Commit
  <2>4. Saved'
    <3>1. /\ op' \in Save /\ op'.site = op.site /\ op'.kind = op.kind
          /\ op.at = "post" /\ op'.at = "stored"
      BY <1>0, <1>1 DEF Commit, Save
    <3> QED
      BY <3>1 DEF SitesType, Saved
  <2>5. Drafted'
    BY <1>1, SameDrafted DEF SitesType, Commit
  <2> QED
    BY <2>3, <2>4, <2>5 DEF SitesType
<1>2. CASE PublishElsewhere
  <2>1. doc \in Doc
    BY PostedType DEF SitesType
  <2>2. PICK d \in Doc : Valid(d) /\ revs' = Append(revs, d)
    BY <1>2, <2>1, ElsewhereType DEF PublishElsewhere
  <2>3. d.sites \in Sites
    BY DocShape
  <2>4. Distinct(d.sites)
    BY <2>2, <2>3, ValidIsDistinct
  <2>5. Stored'
    BY <1>0, <1>2, <2>2, <2>4, StoreAppends DEF SitesType, PublishElsewhere
  <2>6. Saved' /\ Drafted'
    BY <1>2, SameDrafted DEF SitesType, Saved, PublishElsewhere
  <2> QED
    BY <2>5, <2>6 DEF SitesType
<1>3. CASE SaveAnswered \/ NoChanges \/ Failed
  <2>1. op' = NoOp /\ revs' = revs
    BY <1>3 DEF SaveAnswered, NoChanges, Failed
  <2>2. Stored' /\ Saved'
    BY <1>0, <2>1, SameStored, NoOpType DEF SitesType
  <2>3. reading' \in Nat /\ listing' \in Nat /\ reading' + listing' <= MaxLoads
    BY <1>3, SitesConstants DEF SaveAnswered, NoChanges, Failed, StartLoad, SitesType, Drafted
  <2>4. form' \in Doc
    <3>1. op.before \in Sites
      BY <1>0 DEF Save
    <3>2. [form EXCEPT !.sites = op.before] \in Doc
      BY <3>1, DocShape DEF SitesType, Drafted
    <3> QED
      BY <1>3, <3>2 DEF SaveAnswered, NoChanges, Failed, SitesType, Drafted
  <2>5. Drafted'
    BY <1>0, <2>3, <2>4 DEF SitesType, Drafted
  <2> QED
    BY <2>2, <2>5 DEF SitesType
<1> QED
  BY <1>1, <1>2, <1>3

LEMMA SitesCases ==
  ASSUME SitesNext
  PROVE  \/ ConfigAnswered \/ RevisionsAnswered \/ LoadFails
         \/ \E i \in 1..Len(form.sites) : EditSite(i) \/ RemoveSite(i)
         \/ \E i \in 0..Len(form.sites), d \in Domain : OpenEdit(i, d)
         \/ EditMail \/ Cancel
         \/ \E d \in Domain : SaveDrawer("apply", d) \/ SaveDrawer("site", d) \/ DrawerChecked(d)
         \/ DrawerRefused
         \/ \E i \in 1..Len(form.sites) : ToggleSite(i)
         \/ Publish \/ (\E r \in 1..listed : Rollback(r))
         \/ Commit \/ SaveAnswered \/ NoChanges \/ Failed \/ PublishElsewhere
BY DEF SitesNext

LEMMA SitesStep == SitesType /\ [SitesNext]_sitesVars => SitesType'
<1> SUFFICES ASSUME SitesType, [SitesNext]_sitesVars PROVE SitesType'
  OBVIOUS
<1>1. CASE UNCHANGED sitesVars
  BY <1>1, SameStored, SameDrafted DEF sitesVars, SitesType, Saved
<1>2. CASE SitesNext
  BY <1>2, SitesCases, LoadSteps, DraftSteps, DrawerSteps, BeginSteps, SaveSteps
<1> QED
  BY <1>1, <1>2

LEMMA SitesStart == SitesInit => SitesType
<1> SUFFICES ASSUME SitesInit PROVE SitesType
  OBVIOUS
<1>1. PICK t \in Start : revs = <<[sites |-> t, mail |-> TRUE]>>
  BY DEF SitesInit
<1>2. t \in Sites /\ Distinct(t)
  <2>1. ASSUME NEW d \in Domain, t = <<Fresh(d)>> PROVE t \in Sites /\ Distinct(t)
    BY <2>1, SiteShape DEF Sites, Distinct
  <2>2. ASSUME NEW p \in Domain \X Domain, p[1] # p[2],
               t = <<Fresh(p[1]), [Fresh(p[2]) EXCEPT !.own = TRUE]>>
        PROVE  t \in Sites /\ Distinct(t)
    <3>1. PICK a \in Site : a = Fresh(p[1]) /\ a.dom = p[1]
      BY SiteShape
    <3>2. PICK b \in Site : b = [Fresh(p[2]) EXCEPT !.own = TRUE] /\ b.dom = p[2]
      <4>1. PICK c \in Site : c = Fresh(p[2]) /\ c.dom = p[2]
        BY SiteShape
      <4>2. [c EXCEPT !.own = TRUE] \in Site /\ [c EXCEPT !.own = TRUE].dom = c.dom
        BY SiteShape
      <4> QED
        BY <4>1, <4>2
    <3>3. t = <<a, b>>
      BY <2>2, <3>1, <3>2
    <3>4. t \in Sites /\ DOMAIN t = 1..2 /\ t[1] = a /\ t[2] = b
      BY <3>3 DEF Sites
    <3>5. t[1].dom # t[2].dom
      BY <2>2, <3>1, <3>2, <3>4
    <3>6. \A i \in 1..2 : i = 1 \/ i = 2
      OBVIOUS
    <3> QED
      BY <3>4, <3>5, <3>6 DEF Distinct
  <2> QED
    BY <1>1, <2>1, <2>2 DEF Start
<1>3. PICK e \in Doc : e = [sites |-> t, mail |-> TRUE] /\ e.sites = t
  <2>1. [sites |-> t, mail |-> TRUE] \in Doc
    BY <1>2 DEF Doc
  <2> QED
    BY <2>1
<1>4. revs \in Seq(Doc) /\ Len(revs) = 1 /\ revs[1] = e
  BY <1>1, <1>3
<1>5. Stored
  BY <1>2, <1>3, <1>4, SitesConstants DEF Stored, SitesInit
<1>6. Drafted
  <2>1. /\ form = Empty /\ dirty = FALSE /\ drawer = 0
        /\ edit = {} /\ reading = 1 /\ listing = 0 /\ edits = 0
    BY DEF SitesInit, New
  <2>2. 0 \in 0..MaxEdits /\ 1 \in Nat /\ 0 \in Nat /\ 1 + 0 <= MaxLoads
    BY SitesConstants
  <2> QED
    BY <2>1, <2>2, NoSites DEF Drafted
<1>7. Saved
  <2>1. op = [kind |-> "none", at |-> "idle", doc |-> Empty, site |-> {}, before |-> <<>>]
    BY DEF SitesInit, NoOp
  <2> QED
    BY <2>1, NoSites DEF Saved, Save
<1> QED
  BY <1>5, <1>6, <1>7 DEF SitesType

\* Every variable keeps its type; no stored document has a domain twice.
THEOREM SitesTypeCorrect ==
  SitesSpec => []SitesTypeOK
<1>1. SitesType => SitesTypeOK
  <2> SUFFICES ASSUME SitesType PROVE SitesTypeOK
    OBVIOUS
  <2>1. \A r \in 1..Len(revs) :
          revs[r].sites \in Seq(Site) /\ revs[r].mail \in BOOLEAN /\ Distinct(revs[r].sites)
    <3>1. \A r \in 1..Len(revs) : revs[r] \in Doc
      BY DEF SitesType, Stored
    <3> QED
      BY <3>1, DocShape DEF SitesType, Stored, Sites
  <2>2. /\ op.kind \in {"none", "all", "apply", "site", "toggle", "rollback"}
        /\ op.at \in {"idle", "check", "post", "stored"} /\ op.site \subseteq Site
    BY DEF SitesType, Saved, Save
  <2>3. reading + listing \in 0..MaxLoads
    BY SitesConstants DEF SitesType, Drafted
  <2>4. form.sites \in Seq(Site)
    BY DocShape DEF SitesType, Drafted, Sites
  <2> QED
    BY <2>1, <2>2, <2>3, <2>4 DEF SitesType, Stored, Drafted, Distinct, SitesTypeOK
<1> QED
  BY <1>1, SitesStart, SitesStep, PTL DEF SitesSpec

\* Replacing or adding a site leaves the others, and their order.
LEMMA UpsertSpares ==
  ASSUME NEW d \in Sites, NEW s \in Site
  PROVE  Others(Put(d, s), s) = Others(d, s)
<1> DEFINE u == Put(d, s)
           Rest(e) == {i \in DOMAIN e : e[i].dom # s.dom}
<1>1. Len(d) \in Nat /\ DOMAIN d = 1..Len(d)
  BY SitesShape
<1>2. Rest(u) = Rest(d) /\ \A i \in Rest(d) : u[i] = d[i]
  <2>1. CASE s.dom \in Doms(d)
    <3>1. DOMAIN u = DOMAIN d /\ \A i \in DOMAIN d : u[i] = IF d[i].dom = s.dom THEN s ELSE d[i]
      BY <2>1 DEF Put
    <3> HIDE DEF u
    <3> QED
      BY <3>1
  <2>2. CASE s.dom \notin Doms(d)
    <3>1. u = Append(d, s)
      BY <2>2 DEF Put
    <3>2. DOMAIN u = 1..(Len(d) + 1) /\ u[Len(d) + 1] = s /\ \A i \in 1..Len(d) : u[i] = d[i]
      BY <3>1, <1>1 DEF Sites
    <3> HIDE DEF u
    <3> QED
      BY <1>1, <3>2
  <2> QED
    BY <2>1, <2>2
<1> HIDE DEF u
<1>3. Others(u, s) = {<<u[p[1]], u[p[2]]>> : p \in {p \in Rest(u) \X Rest(u) : p[1] <= p[2]}}
  BY DEF Others
<1>4. Others(d, s) = {<<d[p[1]], d[p[2]]>> : p \in {p \in Rest(d) \X Rest(d) : p[1] <= p[2]}}
  BY DEF Others
<1> HIDE DEF Rest
<1>5. Others(u, s) = Others(d, s)
  BY <1>2, <1>3, <1>4
<1> QED
  BY <1>5 DEF u

\* A site's own publish leaves the other sites of the document as they were.
THEOREM SitePublishIsAlone ==
  SitesSpec => SitePublishSparesOthers
<1>1. SitesType /\ [SitesNext]_sitesVars =>
        \A s \in op.site :
          op.at = "post" /\ op'.at = "stored" =>
            /\ Others(doc.sites, s) = Others(doc'.sites, s)
            /\ doc.mail = doc'.mail
  <2> SUFFICES ASSUME SitesType, [SitesNext]_sitesVars, NEW s \in op.site,
                      op.at = "post", op'.at = "stored"
               PROVE  Others(doc.sites, s) = Others(doc'.sites, s) /\ doc.mail = doc'.mail
    OBVIOUS
  <2>1. Commit
    <3>1. op' # op /\ op'.at # "idle" /\ op.kind # "none"
      BY DEF SitesType, Saved, Save
    <3>2. ~(UNCHANGED sitesVars)
      BY <3>1 DEF sitesVars
    <3>3. /\ ~ConfigAnswered /\ ~RevisionsAnswered /\ ~LoadFails
          /\ \A i : ~EditSite(i) /\ ~RemoveSite(i)
          /\ \A i, d : ~OpenEdit(i, d)
          /\ ~EditMail /\ ~Cancel /\ ~PublishElsewhere
      BY <3>1 DEF ConfigAnswered, RevisionsAnswered, LoadFails,
         EditSite, RemoveSite, EditMail, Draft, OpenEdit, Cancel, PublishElsewhere
    <3>4. /\ \A k, d : ~SaveDrawer(k, d)
          /\ \A d : ~DrawerChecked(d)
          /\ ~DrawerRefused
      BY <3>1 DEF SaveDrawer, DrawerChecked, DrawerRefused, Begin, Idle
    <3>5. /\ \A i : ~ToggleSite(i)
          /\ ~Publish /\ \A r : ~Rollback(r)
      BY <3>1 DEF ToggleSite, Publish, Rollback, Begin, Idle
    <3>6. ~SaveAnswered /\ ~NoChanges /\ ~Failed
      BY <3>1 DEF SaveAnswered, NoChanges, Failed, NoOp
    <3> QED
      BY <3>2, <3>3, <3>4, <3>5, <3>6, SitesCases
  <2>2. s \in Site /\ (CHOOSE t \in op.site : TRUE) = s
    BY DEF SitesType, Saved, Save
  <2>3. Posted = Upsert(doc, s) /\ doc \in Doc /\ Posted \in Doc /\ doc.sites \in Sites
    BY <2>2, PostedType, DocShape DEF Posted, SitesType
  <2>4. revs' = Append(revs, Posted)
    BY <2>1 DEF Commit
  <2>5. doc' = Posted
    BY <2>3, <2>4 DEF SitesType, Stored, doc
  <2>6. doc'.sites = Put(doc.sites, s) /\ doc'.mail = doc.mail
    BY <2>2, <2>3, <2>5, UpsertShape
  <2> QED
    BY <2>2, <2>3, <2>6, UpsertSpares
<1>2. SitesInit => SitesType
  BY SitesStart
<1>3. SitesType /\ [SitesNext]_sitesVars => SitesType'
  BY SitesStep
<1> QED
  BY <1>1, <1>2, <1>3, PTL DEF SitesSpec, SitePublishSparesOthers

=============================================================================
