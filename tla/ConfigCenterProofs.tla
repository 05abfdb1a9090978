------------------------- MODULE ConfigCenterProofs -------------------------
(***************************************************************************)
(* Theorems about ConfigCenter, for every value of its constants.          *)
(***************************************************************************)
EXTENDS ConfigCenter, TLAPS

USE ConfigCenterAssumption

\* The seed is a document Config.Validate accepts and buildState can build.
LEMMA SeedType == Seed \in Config /\ Valid(Seed)
BY DEF Seed, Config, Valid

\* Section is not empty: the placeholder section is one of them.
LEMMA AnySectionType == AnySection \in Section
BY DEF AnySection

\* Appending a document keeps the revisions table a sequence of documents, one longer.
LEMMA AppendDoc ==
  ASSUME NEW s \in Seq(Config), NEW d \in Config
  PROVE  /\ Append(s, d) \in Seq(Config)
         /\ Len(Append(s, d)) = Len(s) + 1
         /\ \A r \in 1..Len(s) : Append(s, d)[r] = s[r]
         /\ Append(s, d)[Len(s) + 1] = d
OBVIOUS

\* The three ways a queue or a table changes.
LEMMA SeqAppend ==
  ASSUME NEW S, NEW s \in Seq(S), NEW x \in S
  PROVE  Append(s, x) \in Seq(S)
OBVIOUS

\* Receiving from a channel: the head is an event, the tail still a queue.
LEMMA SeqHeadTail ==
  ASSUME NEW S, NEW s \in Seq(S), s # <<>>
  PROVE  Head(s) \in S /\ Tail(s) \in Seq(S)
OBVIOUS

\* Editing one object in place keeps the heap as long and as typed as it was.
LEMMA SeqUpdate ==
  ASSUME NEW S, NEW s \in Seq(S), NEW i \in 1..Len(s), NEW x \in S
  PROVE  [s EXCEPT ![i] = x] \in Seq(S) /\ Len([s EXCEPT ![i] = x]) = Len(s)
OBVIOUS

\* What is in a queue is an event.
LEMMA SeqItem ==
  ASSUME NEW S, NEW s \in Seq(S)
  PROVE  \A i \in DOMAIN s : s[i] \in S
OBVIOUS

\* A queue of events below Len(store) is one below any larger bound.
LEMMA SeqWiden ==
  ASSUME NEW S, NEW T, S \subseteq T, NEW s \in Seq(S)
  PROVE  s \in Seq(T)
OBVIOUS

-----------------------------------------------------------------------------
(* Type correctness.                                                       *)

\* An idle publisher's request is a Request whatever it last reported.
LEMMA NoRequestType ==
  ASSUME NEW reply \in {"none", "rejected", "nochanges", "storeerror", "applied", "failed", "pending"},
         NEW r \in Rev \cup {0}
  PROVE  /\ NoRequest(reply, r) \in Request
         /\ NoRequest(reply, r).pc = "idle"
         /\ NoRequest(reply, r).obj = 0 /\ NoRequest(reply, r).rev = r
BY SeedType, AnySectionType DEF NoRequest, Request

\* A publisher going back to idle keeps the types of the requests.
LEMMA FinishType ==
  ASSUME TypeOK, NEW p \in Publisher, NEW r \in 0..Len(store), r \in Rev \cup {0},
         NEW reply \in {"none", "rejected", "nochanges", "storeerror", "applied", "failed", "pending"},
         Finish(p, reply, r)
  PROVE  /\ req' \in [Publisher -> Request]
         /\ \A q \in Publisher : /\ req'[q].obj \in 0..Len(store) /\ req'[q].rev \in 0..Len(store)
                                 /\ req'[q].pc \in {"install", "wait"} =>
                                      req'[q].obj # 0 /\ req'[q].rev # 0
                                 /\ PendingEdit(req'[q])
<1>1. NoRequest(reply, r) \in Request
  BY NoRequestType
<1>2. NoRequest(reply, r).obj = 0 /\ NoRequest(reply, r).rev = r /\ NoRequest(reply, r).pc = "idle"
  BY NoRequestType
<1>3. \A q \in Publisher : req'[q] = IF q = p THEN NoRequest(reply, r) ELSE req[q]
  BY DEF Finish, TypeOK
<1> QED
  BY <1>1, <1>2, <1>3 DEF Finish, TypeOK, PendingEdit

\* The no-changes check ends the request or lets it go on, whatever it could read.
LEMMA CompareEffect ==
  ASSUME NEW p \in Publisher, Compare(p)
  PROVE  Finish(p, "nochanges", 0) \/ req' = [req EXCEPT ![p].pc = "append"]
BY DEF Compare

\* What the builders leave: the new revision, or what a failed one kept.
LEMMA RebuiltType ==
  ASSUME NEW built, NEW old, NEW kept, NEW T, built \in T, \A c \in Builder : old[c] \in T
  PROVE  /\ Rebuilt(built, old, kept) \in [Builder -> T]
         /\ \A c \in Builder : Rebuilt(built, old, kept)[c] \in {built, old[c]}
         /\ \A c \in Builder \ kept : Rebuilt(built, old, kept)[c] = built
BY DEF Rebuilt

\* What a request is about to store is a document.
LEMMA SubmittedType ==
  ASSUME TypeOK, NEW p \in Publisher
  PROVE  Submitted(p) \in Config
BY DEF TypeOK, Submitted, Request

\* Right after Open and NewReloadable every variable has its type.
LEMMA InitType == Init => TypeOK
<1> SUFFICES ASSUME Init PROVE TypeOK
  OBVIOUS
<1>1. store \in Seq(Config) /\ heap \in Seq(Config) /\ Len(store) = 1 /\ Len(heap) = 1
  BY SeedType DEF Init
<1>2. 1 \in Rev
  BY DEF Rev
<1>3. req \in [Publisher -> Request]
  BY NoRequestType DEF Init
<1>4. \A p \in Publisher : req[p].pc = "idle" /\ req[p].obj = 0 /\ req[p].rev = 0
  BY NoRequestType DEF Init
<1>5. consumer \in Consumer /\ consumer.ev \in [rev : 1..1, obj : 1..1]
  BY <1>2 DEF Init, Consumer, Event, NoEvent
<1>6. plane \in [rev : 1..1, cfg : Config] /\ side \in [Builder -> [rev : 0..1, cfg : Config]]
  <2>1. plane \in [rev : 1..1, cfg : Config]
    BY SeedType DEF Init
  <2>2. NotBuilt \in [rev : 0..1, cfg : Config] /\ plane \in [rev : 0..1, cfg : Config]
    BY <2>1, SeedType DEF NotBuilt
  <2>3. PICK kept \in SUBSET Fallible : side = Rebuilt(plane, [c \in Builder |-> NotBuilt], kept)
    BY DEF Init
  <2> QED
    BY <2>1, <2>2, <2>3, RebuiltType
<1>7. /\ center \in [rev : 1..1, obj : 1..1]
      /\ crashes \in Nat /\ flaky \in Nat
  BY DEF Init
<1>11. subscribed \in BOOLEAN
  BY Zenon DEF Init
<1>8. /\ results \in [Rev -> {"none", "applied", "failed"}]
      /\ lastApply \in [rev : Rev \cup {0}, status : {"none", "applied", "failed"}]
  BY DEF Init
<1>9. \A p \in Publisher :
        /\ req[p].obj \in 0..1 /\ req[p].rev \in 0..1
        /\ req[p].pc \in {"install", "wait"} => req[p].obj # 0 /\ req[p].rev # 0
        /\ PendingEdit(req[p])
  BY <1>4 DEF PendingEdit
<1>10. queue \in Seq([rev : 1..1, obj : 1..1])
  <2>1. \A S : <<>> \in Seq(S)
    OBVIOUS
  <2> QED
    BY <2>1 DEF Init
<1> QED
  BY <1>1, <1>2, <1>3, <1>5, <1>6, <1>7, <1>8, <1>9, <1>10, <1>11 DEF TypeOK

\* A request starts, or its edit is made: everything but req and the edited object stays.
LEMMA BeginType ==
  ASSUME TypeOK, NEW p \in Publisher, NEW new \in Request, req' = [req EXCEPT ![p] = new],
         new.pc \notin {"install", "wait"}, new.obj \in 0..Len(store), new.rev \in 0..Len(store),
         PendingEdit(new), heap' \in Seq(Config), Len(heap') = Len(heap),
         UNCHANGED <<store, center, queue, subscribed, planeVars, consumer, crashes>>
  PROVE  TypeOK'
<1>1. req' \in [Publisher -> Request]
  BY DEF TypeOK
<1>2. \A q \in Publisher : req'[q] = IF q = p THEN new ELSE req[q]
  BY DEF TypeOK
<1>3. \A q \in Publisher :
        /\ req'[q].obj \in 0..Len(store) /\ req'[q].rev \in 0..Len(store)
        /\ req'[q].pc \in {"install", "wait"} => req'[q].obj # 0 /\ req'[q].rev # 0
        /\ PendingEdit(req'[q])
  BY <1>2 DEF TypeOK
<1> QED
  BY <1>1, <1>3 DEF TypeOK, planeVars

\* A step of the consumer alone.
LEMMA ConsumerType ==
  ASSUME TypeOK, consumer' \in Consumer,
         consumer'.ev \in [rev : 1..Len(store), obj : 1..Len(store)],
         queue' \in Seq([rev : 1..Len(store), obj : 1..Len(store)]),
         subscribed' \in BOOLEAN,
         UNCHANGED <<centerVars, planeVars, req, crashes>>
  PROVE  TypeOK'
BY DEF TypeOK, centerVars, planeVars

\* A request ends: nothing but req changes.
LEMMA EndType ==
  ASSUME TypeOK, NEW p \in Publisher, NEW r \in 0..Len(store), r \in Rev \cup {0},
         NEW reply \in {"none", "rejected", "nochanges", "storeerror", "applied", "failed", "pending"},
         Finish(p, reply, r),
         UNCHANGED <<centerVars, queue, subscribed, planeVars, consumer, crashes>>
  PROVE  TypeOK'
<1>1. /\ req' \in [Publisher -> Request]
      /\ \A q \in Publisher : req'[q].obj \in 0..Len(store) /\ req'[q].rev \in 0..Len(store)
      /\ \A q \in Publisher :
           /\ req'[q].pc \in {"install", "wait"} => req'[q].obj # 0 /\ req'[q].rev # 0
           /\ PendingEdit(req'[q])
  BY FinishType
<1> QED
  BY <1>1, SMTT(30) DEF TypeOK, centerVars, planeVars

\* A request moves on inside publishInternal: nothing but req changes.
LEMMA MoveType ==
  ASSUME TypeOK, NEW p \in Publisher, NEW new \in Request, req' = [req EXCEPT ![p] = new],
         new.obj \in 0..Len(store), new.rev \in 0..Len(store),
         new.pc \in {"install", "wait"} => new.obj # 0 /\ new.rev # 0, new.pc # "edit",
         UNCHANGED <<centerVars, queue, subscribed, planeVars, consumer, crashes>>
  PROVE  TypeOK'
<1>1. req' \in [Publisher -> Request]
  BY DEF TypeOK
<1>2. \A q \in Publisher : req'[q] = IF q = p THEN new ELSE req[q]
  BY DEF TypeOK
<1> QED
  BY <1>1, <1>2 DEF TypeOK, PendingEdit, centerVars, planeVars

\* Every step of a console request keeps the types.
LEMMA PublishingType ==
  ASSUME TypeOK, NEW p \in Publisher, Publishing(p)
  PROVE  TypeOK'
<1>0. /\ req[p] \in Request /\ req[p].obj \in 0..Len(store) /\ req[p].rev \in 0..Len(store)
      /\ req[p].rev \in Rev \cup {0}
      /\ center.obj \in 1..Len(store) /\ heap[center.obj] \in Config
  BY DEF TypeOK, Request
<1>a. 0 \in 0..Len(store) /\ 0 \in Rev \cup {0} /\ heap \in Seq(Config) /\ Len(store) \in Nat
  BY DEF TypeOK, Rev
<1>b. ASSUME NEW pc \in {"edit", "encode"}, NEW op \in {"publish", "site", "aikey", "rollback"},
             NEW sec \in Section, NEW obj \in 0..Len(store), NEW body \in Config,
             Begin(p, pc, op, sec, obj, body), UNCHANGED heap,
             pc = "edit" => /\ obj # 0 /\ sec \in InPlaceSection /\ op = "aikey"
                            /\ body[sec] \in Value \ (Invalid \cup Unbuildable)
      PROVE  TypeOK'
  <2> DEFINE new == [pc |-> pc, op |-> op, sec |-> sec, obj |-> obj,
                     body |-> body, rev |-> 0, reply |-> "none"]
  <2>1. new \in Request /\ PendingEdit(new)
    BY <1>a, <1>b DEF Request, PendingEdit, TypeOK, Rev
  <2>2. req' = [req EXCEPT ![p] = new]
        /\ UNCHANGED <<store, center, queue, subscribed, planeVars, consumer, crashes>>
    BY <1>b DEF Begin
  <2>3. /\ new.pc \notin {"install", "wait"} /\ new.obj \in 0..Len(store) /\ new.rev \in 0..Len(store)
        /\ heap' \in Seq(Config) /\ Len(heap') = Len(heap)
    BY <1>a, <1>b
  <2> HIDE DEF new
  <2> QED
    BY <2>1, <2>2, <2>3, BeginType
<1>1. CASE StartPublish(p)
  BY <1>1, <1>a, <1>b, AnySectionType DEF StartPublish
<1>2. CASE StartSite(p)
  <2>1. PICK s \in Section \ InPlaceSection, v \in Value :
          Begin(p, "encode", "site", s, 0, [heap[center.obj] EXCEPT ![s] = v])
    BY <1>2 DEF StartSite
  <2>2. [heap[center.obj] EXCEPT ![s] = v] \in Config /\ UNCHANGED heap
    BY <1>0, <1>2 DEF Config, StartSite
  <2> QED
    BY <1>a, <1>b, <2>1, <2>2
<1>3. CASE StartAIKey(p)
  <2>1. PICK s \in InPlaceSection, v \in Value \ (Invalid \cup Unbuildable) :
          Begin(p, "edit", "aikey", s, center.obj, [Seed EXCEPT ![s] = v])
    BY <1>3 DEF StartAIKey
  <2>2. [Seed EXCEPT ![s] = v] \in Config /\ [Seed EXCEPT ![s] = v][s] = v /\ UNCHANGED heap
    BY <1>3, SeedType DEF Config, StartAIKey
  <2>3. center.obj \in 0..Len(store) /\ center.obj # 0 /\ s \in Section
    BY <1>0, <1>a
  <2> QED
    BY <1>b, <2>1, <2>2, <2>3
<1>15. CASE EditAIKey(p)
  <2> DEFINE new == [req[p] EXCEPT !.pc = "encode"]
             cfg == [heap[req[p].obj] EXCEPT ![req[p].sec] = req[p].body[req[p].sec]]
  <2>1. new \in Request /\ new.pc = "encode" /\ new.obj = req[p].obj /\ new.rev = req[p].rev
    BY <1>0 DEF Request
  <2>2. /\ req[p].obj \in 1..Len(heap) /\ req[p].sec \in Section
        /\ req[p].body[req[p].sec] \in Value
    <3>1. PendingEdit(req[p]) /\ Len(heap) = Len(store)
      BY DEF TypeOK
    <3>2. req[p].pc = "edit" /\ req[p].sec \in Section
      BY <1>0, <1>15 DEF EditAIKey, Request
    <3>3. req[p].obj # 0 /\ req[p].body[req[p].sec] \in Value
      BY <3>1, <3>2 DEF PendingEdit
    <3> QED
      BY <1>0, <1>a, <3>1, <3>2, <3>3
  <2>3. cfg \in Config
    BY <1>a, <2>2 DEF Config
  <2>4. heap' = [heap EXCEPT ![req[p].obj] = cfg] /\ req' = [req EXCEPT ![p] = new]
        /\ UNCHANGED <<store, center, queue, subscribed, planeVars, consumer, crashes>>
    BY <1>15 DEF EditAIKey
  <2> HIDE DEF cfg
  <2>5. heap' \in Seq(Config) /\ Len(heap') = Len(heap)
    BY <1>a, <2>2, <2>3, <2>4, SeqUpdate
  <2>6. PendingEdit(new)
    BY <2>1 DEF PendingEdit
  <2> HIDE DEF new
  <2> QED
    BY <1>0, <2>1, <2>4, <2>5, <2>6, BeginType
<1>4. CASE StartRollback(p)
  <2>1. PICK id \in DOMAIN store : Begin(p, "encode", "rollback", AnySection, 0, store[id])
    BY <1>4 DEF StartRollback
  <2>2. store[id] \in Config /\ UNCHANGED heap
    BY <1>4 DEF TypeOK, StartRollback
  <2> QED
    BY <1>a, <1>b, <2>1, <2>2, AnySectionType
<1>5. CASE Encode(p)
  <2>1. CASE Accepts(Submitted(p))
    <3> DEFINE new == [req[p] EXCEPT !.pc = "compare", !.body = Submitted(p)]
    <3>1. new \in Request /\ new.obj = req[p].obj /\ new.rev = req[p].rev /\ new.pc = "compare"
      BY <1>0, SubmittedType DEF Request
    <3>2. req' = [req EXCEPT ![p] = new]
      BY <1>5, <2>1 DEF Encode
    <3> QED
      BY <1>0, <1>5, <3>1, <3>2, MoveType DEF Encode
  <2>2. CASE ~Accepts(Submitted(p))
    BY <1>a, <1>5, <2>2, EndType DEF Encode
  <2> QED
    BY <2>1, <2>2
<1>6. CASE Compare(p)
  <2>1. CASE Finish(p, "nochanges", 0)
    BY <1>a, <1>6, <2>1, EndType DEF Compare
  <2>2. CASE req' = [req EXCEPT ![p].pc = "append"]
    <3> DEFINE new == [req[p] EXCEPT !.pc = "append"]
    <3>1. new \in Request /\ new.obj = req[p].obj /\ new.rev = req[p].rev /\ new.pc = "append"
      BY <1>0 DEF Request
    <3>2. req' = [req EXCEPT ![p] = new]
      BY <1>6, <2>2 DEF Compare
    <3> QED
      BY <1>0, <1>6, <3>1, <3>2, MoveType DEF Compare
  <2> QED
    BY <1>6, <2>1, <2>2, CompareEffect
<1>7. CASE AppendOK(p)
  <2> DEFINE n == Len(store) + 1
             new == [req[p] EXCEPT !.pc = "install", !.rev = n, !.obj = IF @ = 0 THEN n ELSE @]
  <2>1. n \in Rev /\ Len(store) \in Nat
    BY <1>7 DEF AppendOK, TypeOK, Rev
  <2>2. /\ store' \in Seq(Config) /\ Len(store') = n
        /\ heap' \in Seq(Config) /\ Len(heap') = n
    BY <1>0, <1>7, AppendDoc DEF AppendOK, TypeOK, Request
  <2>3. new \in Request /\ new.obj \in 1..n /\ new.rev = n
    <3>1. new.obj \in 1..n /\ new.rev = n /\ new.pc = "install" /\ n \in 1..n
      BY <1>0, <2>1 DEF Request
    <3>2. 1..n \subseteq Rev
      BY <2>1 DEF Rev
    <3>3. new \in Request
      BY <1>0, <3>1, <3>2, <2>1 DEF Request
    <3> QED
      BY <3>1, <3>3
  <2>4. req' = [req EXCEPT ![p] = new]
    BY <1>7 DEF AppendOK, NextRev
  <2>5. req' \in [Publisher -> Request] /\ \A q \in Publisher : req'[q] = IF q = p THEN new ELSE req[q]
    BY <2>3, <2>4 DEF TypeOK
  <2>6. 1..Len(store) \subseteq 1..n /\ 0..Len(store) \subseteq 0..n
    BY <2>1
  <2>7. queue \in Seq([rev : 1..n, obj : 1..n])
    <3>1. queue \in Seq([rev : 1..Len(store), obj : 1..Len(store)])
      BY DEF TypeOK
    <3>2. [rev : 1..Len(store), obj : 1..Len(store)] \subseteq [rev : 1..n, obj : 1..n]
      BY <2>6
    <3> QED
      BY <3>1, <3>2, SeqWiden
  <2>8. /\ center \in [rev : 1..n, obj : 1..n]
        /\ plane \in [rev : 1..n, cfg : Config] /\ side \in [Builder -> [rev : 0..n, cfg : Config]]
        /\ consumer.ev \in [rev : 1..n, obj : 1..n]
    BY <2>6 DEF TypeOK
  <2>9. \A q \in Publisher :
          /\ req'[q].obj \in 0..n /\ req'[q].rev \in 0..n
          /\ req'[q].pc \in {"install", "wait"} => req'[q].obj # 0 /\ req'[q].rev # 0
          /\ PendingEdit(req'[q])
    <3>1. n \in 0..n /\ n # 0 /\ new.obj \in 0..n /\ new.obj # 0 /\ PendingEdit(new)
      BY <1>0, <2>1, <2>3 DEF PendingEdit, Request
    <3>2. \A q \in Publisher :
            /\ req[q].obj \in 0..n /\ req[q].rev \in 0..n
            /\ req[q].pc \in {"install", "wait"} => req[q].obj # 0 /\ req[q].rev # 0
            /\ PendingEdit(req[q])
      BY <2>6 DEF TypeOK
    <3> QED
      BY <2>3, <2>5, <3>1, <3>2
  <2> QED
    BY <1>7, <2>1, <2>2, <2>5, <2>7, <2>8, <2>9 DEF AppendOK, TypeOK, planeVars
<1>8. CASE AppendError(p)
  BY <1>a, <1>8, EndType DEF AppendError
<1>9. CASE Install(p)
  <2> DEFINE e == [rev |-> req[p].rev, obj |-> req[p].obj]
             new == [req[p] EXCEPT !.pc = "wait"]
  <2>0. req[p].pc = "install"
    BY <1>9 DEF Install
  <2>1. e \in [rev : 1..Len(store), obj : 1..Len(store)]
    <3>1. req[p].obj # 0 /\ req[p].rev # 0
      BY <2>0 DEF TypeOK
    <3> QED
      BY <1>0, <1>a, <3>1
  <2>2. queue' \in Seq([rev : 1..Len(store), obj : 1..Len(store)])
    <3>1. queue \in Seq([rev : 1..Len(store), obj : 1..Len(store)])
      BY DEF TypeOK
    <3>2. queue' = queue \/ queue' = Append(queue, e)
      BY <1>9 DEF Install
    <3> HIDE DEF e
    <3>3. Append(queue, e) \in Seq([rev : 1..Len(store), obj : 1..Len(store)])
      BY <2>1, <3>1, SeqAppend
    <3> QED
      BY <3>1, <3>2, <3>3
  <2>3. center' = e
    BY <1>9 DEF Install, Installed
  <2>4. new \in Request /\ new.obj = req[p].obj /\ new.rev = req[p].rev
    BY <1>0 DEF Request
  <2>5. req' \in [Publisher -> Request] /\ \A q \in Publisher : req'[q] = IF q = p THEN new ELSE req[q]
    BY <1>9, <2>4 DEF TypeOK, Install
  <2>6. \A q \in Publisher :
          /\ req'[q].obj \in 0..Len(store) /\ req'[q].rev \in 0..Len(store)
          /\ req'[q].pc \in {"install", "wait"} => req'[q].obj # 0 /\ req'[q].rev # 0
          /\ PendingEdit(req'[q])
    <3>1. new.pc = "wait"
      BY <1>0 DEF Request
    <3> QED
      BY <1>0, <1>9, <2>4, <2>5, <3>1 DEF TypeOK, Install, PendingEdit
  <2> QED
    BY <1>9, <2>1, <2>2, <2>3, <2>5, <2>6 DEF Install, TypeOK, planeVars
<1>10. CASE Settle(p)
  <2>1. PICK r \in Rev : Settles(req[p].rev, r) /\ Finish(p, results[r], req[p].rev)
    BY <1>10 DEF Settle
  <2>2. results[r] \in {"none", "applied", "failed"}
    BY DEF TypeOK
  <2> QED
    BY <1>0, <1>10, <2>1, <2>2, EndType DEF Settle
<1>11. CASE GiveUp(p)
  BY <1>0, <1>11, EndType DEF GiveUp
<1> QED
  BY <1>1, <1>15, <1>2, <1>3, <1>4, <1>5, <1>6, <1>7, <1>8, <1>9, <1>10, <1>11 DEF Publishing
\* Every step of the consumer goroutine keeps the types.
LEMMA ConsumingType ==
  ASSUME TypeOK, Consuming
  PROVE  TypeOK'
<1> DEFINE Revs == 1..Len(store)
           Events == [rev : Revs, obj : Revs]
<1>0. /\ consumer \in Consumer /\ consumer.ev \in Events
      /\ queue \in Seq(Events) /\ subscribed \in BOOLEAN
  BY DEF TypeOK
<1>1. Revs \subseteq Rev
  BY DEF TypeOK, Rev
<1>2. CASE Subscribe
  BY <1>0, <1>2, ConsumerType DEF Subscribe, Consumer
<1>3. CASE CheckMissed
  BY <1>0, <1>3, ConsumerType DEF CheckMissed, Consumer
<1>4. CASE Snapshot
  <2>1. center \in Events /\ center \in Event
    BY <1>1 DEF TypeOK, Event
  <2>2. consumer' \in Consumer /\ consumer'.ev = center
    BY <1>0, <1>4, <2>1 DEF Snapshot, Consumer
  <2> QED
    BY <1>0, <1>4, <2>1, <2>2, ConsumerType DEF Snapshot
<1>5. ASSUME queue # <<>>
      PROVE  /\ Head(queue) \in Events /\ Head(queue) \in Event
             /\ Tail(queue) \in Seq(Events)
  <2>1. Head(queue) \in Events /\ Tail(queue) \in Seq(Events)
    BY <1>0, <1>5, SeqHeadTail
  <2> QED
    BY <1>1, <2>1 DEF Event
<1>6. CASE Receive
  <2>1. queue' \in Seq(Events)
    BY <1>5, <1>6 DEF Receive
  <2>2. consumer' \in Consumer /\ consumer'.ev \in Events
    BY <1>0, <1>5, <1>6 DEF Receive, Consumer, AfterStale
  <2> QED
    BY <1>0, <1>6, <2>1, <2>2, ConsumerType DEF Receive
<1>7. CASE Drain
  <2>1. queue' \in Seq(Events)
    BY <1>0, <1>5, <1>7 DEF Drain
  <2>2. consumer' \in Consumer /\ consumer'.ev \in Events
    BY <1>0, <1>5, <1>7 DEF Drain, Consumer
  <2> QED
    BY <1>0, <1>7, <2>1, <2>2, ConsumerType DEF Drain
<1>8. Applied(consumer.ev) \in Config /\ consumer.ev.rev \in Revs
  BY <1>0 DEF TypeOK, Applied
<1>9. CASE ReloadOK
  <2>1. consumer' \in Consumer /\ consumer'.ev = consumer.ev
    BY <1>0, <1>9 DEF ReloadOK, Consumer
  <2>2. plane' \in [rev : Revs, cfg : Config]
    BY <1>8, <1>9 DEF ReloadOK
  <2> QED
    BY <1>9, <2>1, <2>2 DEF ReloadOK, TypeOK, centerVars
<1>10. CASE ReloadFail
  <2>1. consumer' \in Consumer /\ consumer'.ev = consumer.ev
    BY <1>0, <1>10 DEF ReloadFail, Consumer
  <2>2. flaky' \in Nat
    BY <1>10 DEF ReloadFail, TypeOK
  <2> QED
    BY <1>10, <2>1, <2>2 DEF ReloadFail, TypeOK, centerVars
<1>11. CASE SetApplyStatus
  <2>1. consumer' \in Consumer /\ consumer'.ev = consumer.ev
    BY <1>0, <1>11 DEF SetApplyStatus, Consumer
  <2>2. StatusOf(consumer.ok) \in {"applied", "failed"}
    BY DEF StatusOf
  <2>3. lastApply' \in [rev : Rev \cup {0}, status : {"none", "applied", "failed"}]
    BY <1>1, <1>8, <1>11, <2>2 DEF SetApplyStatus
  <2>4. results' \in [Rev -> {"none", "applied", "failed"}]
    BY <1>11, <2>2 DEF SetApplyStatus, Prune, TypeOK
  <2> QED
    BY <1>11, <2>1, <2>3, <2>4 DEF SetApplyStatus, TypeOK, centerVars
<1>12. CASE After
  <2>1. consumer' \in Consumer /\ consumer'.ev \in Events
    <3>1. NoEvent \in Event /\ NoEvent \in Events
      BY DEF TypeOK, NoEvent, Event, Rev
    <3>2. consumer.path \in {"select", "drain", "catchup"} /\ consumer.ok \in BOOLEAN
      BY <1>0 DEF Consumer
    <3>3. Continue(consumer.path, consumer.ok) \in {"missed", "select", "drain"}
      BY <3>2 DEF Continue
    <3> QED
      BY <1>0, <1>12, <3>1, <3>3 DEF After, Consumer
  <2>2. side' \in [Builder -> [rev : 0..Len(store), cfg : Config]]
    <3>1. CASE RunsBuilders(consumer.ok)
      <4>1. PICK kept \in SUBSET Fallible :
              side' = Rebuilt([rev |-> consumer.ev.rev, cfg |-> Applied(consumer.ev)], side, kept)
        BY <1>12, <3>1 DEF After
      <4>2. [rev |-> consumer.ev.rev, cfg |-> Applied(consumer.ev)] \in [rev : 0..Len(store), cfg : Config]
        BY <1>8 DEF TypeOK
      <4>3. \A c \in Builder : side[c] \in [rev : 0..Len(store), cfg : Config]
        BY DEF TypeOK
      <4> DEFINE T == [rev : 0..Len(store), cfg : Config]
                 new == [rev |-> consumer.ev.rev, cfg |-> Applied(consumer.ev)]
      <4> HIDE DEF T, new
      <4>4. new \in T /\ \A c \in Builder : side[c] \in T
        BY <4>2, <4>3 DEF T, new
      <4>5. Rebuilt(new, side, kept) \in [Builder -> T]
        BY <4>4, RebuiltType
      <4> QED
        BY <4>1, <4>5 DEF T, new
    <3>2. CASE ~RunsBuilders(consumer.ok)
      BY <1>12, <3>2 DEF After, TypeOK
    <3> QED
      BY <3>1, <3>2
  <2> QED
    BY <1>12, <2>1, <2>2 DEF After, TypeOK, centerVars
<1> QED
  BY <1>2, <1>3, <1>4, <1>6, <1>7, <1>9, <1>10, <1>11, <1>12 DEF Consuming

\* The process dying keeps the types of what is left.
LEMMA CrashType ==
  ASSUME TypeOK, Crash
  PROVE  TypeOK'
<1>1. 0 \in 0..Len(store) /\ 0 \in Rev \cup {0} /\ NoEvent \in Event
      /\ NoEvent \in [rev : 1..Len(store), obj : 1..Len(store)]
  BY DEF TypeOK, Rev, NoEvent, Event
<1>2. consumer' \in Consumer /\ consumer'.ev = NoEvent
  BY <1>1 DEF Crash, Consumer
<1>3. /\ req' \in [Publisher -> Request]
      /\ \A p \in Publisher : req'[p].pc = "idle" /\ req'[p].obj = 0 /\ req'[p].rev = 0
  BY <1>1, NoRequestType DEF Crash
<1>9. \A p \in Publisher : PendingEdit(req'[p])
  BY <1>3 DEF PendingEdit
<1>4. /\ results' \in [Rev -> {"none", "applied", "failed"}]
      /\ lastApply' \in [rev : Rev \cup {0}, status : {"none", "applied", "failed"}]
      /\ crashes' \in Nat
  BY DEF Crash, TypeOK
<1>7. subscribed' \in BOOLEAN
  BY Zenon DEF Crash
<1>5. \A S : <<>> \in Seq(S)
  OBVIOUS
<1>6. queue' \in Seq([rev : 1..Len(store), obj : 1..Len(store)])
  BY <1>5 DEF Crash
<1> QED
  BY <1>1, <1>2, <1>3, <1>4, <1>6, <1>7, <1>9 DEF Crash, TypeOK, centerVars

\* Open and NewReloadable after a restart establish the types again.
LEMMA BootType ==
  ASSUME TypeOK, Boot
  PROVE  TypeOK'
<1>1. BootRev \in 1..Len(store) /\ store[BootRev] \in Config
  BY DEF TypeOK, BootRev, Rev
<1>2. consumer' \in Consumer /\ consumer'.ev = consumer.ev
  BY DEF Boot, TypeOK, Consumer
<1>3. /\ center' \in [rev : 1..Len(store), obj : 1..Len(store)]
      /\ plane' \in [rev : 1..Len(store), cfg : Config]
  BY <1>1 DEF Boot
<1>4. side' \in [Builder -> [rev : 0..Len(store), cfg : Config]]
  <2>1. PICK kept \in SUBSET Fallible : side' = Rebuilt(plane', [c \in Builder |-> NotBuilt], kept)
    BY DEF Boot
  <2>2. /\ plane' \in [rev : 0..Len(store), cfg : Config]
        /\ NotBuilt \in [rev : 0..Len(store), cfg : Config]
    BY <1>1, <1>3, SeedType DEF NotBuilt, TypeOK, Rev
  <2> DEFINE T == [rev : 0..Len(store), cfg : Config]
             old == [c \in Builder |-> NotBuilt]
  <2>3. \A c \in Builder : old[c] = NotBuilt
    OBVIOUS
  <2> HIDE DEF T, old
  <2>4. plane' \in T /\ \A c \in Builder : old[c] \in T
    BY <2>2, <2>3 DEF T
  <2>5. Rebuilt(plane', old, kept) \in [Builder -> T]
    BY <2>4, RebuiltType
  <2> QED
    BY <2>1, <2>5 DEF T, old
<1> QED
  BY <1>2, <1>3, <1>4 DEF Boot, TypeOK

\* Every variable of the center keeps its type, for any number of publishers,
\* sections and revisions, any channel and registry capacity.
THEOREM TypeCorrect == Spec => []TypeOK
<1>1. TypeOK /\ [Next]_vars => TypeOK'
  <2>1. TypeOK /\ UNCHANGED vars => TypeOK'
    BY DEF TypeOK, vars
  <2> QED
    BY <2>1, PublishingType, ConsumingType, CrashType, BootType DEF Next
<1> QED
  BY InitType, <1>1, PTL DEF Spec
-----------------------------------------------------------------------------
(* The layers agree.                                                       *)

\* A side component only moves to a revision the traffic plane has applied, and is
\* on it whenever the consumer is between two attempts unless its own constructor
\* failed, for any overlap of requests, any failures and restarts.
THEOREM LayersAgree == Spec => SideFollowsPlane
<1>1. Init => SideInStep
  <2> SUFFICES ASSUME Init PROVE SideInStep
    OBVIOUS
  <2>1. PICK kept \in SUBSET Fallible : side = Rebuilt(plane, [c \in Builder |-> NotBuilt], kept)
    BY DEF Init
  <2> QED
    BY <2>1 DEF Init, SideInStep, Rebuilt
<1>2. TypeOK /\ SideInStep /\ [Next]_vars => SideInStep'
  <2> SUFFICES ASSUME TypeOK, SideInStep, [Next]_vars PROVE SideInStep'
    OBVIOUS
  <2>0. consumer \in Consumer
    BY DEF TypeOK
  <2>1. ASSUME NEW p \in Publisher, Publishing(p)
        PROVE  UNCHANGED <<consumer, plane, side>>
    BY <2>1 DEF Publishing, StartPublish, StartSite, StartAIKey, EditAIKey, StartRollback, Begin,
                Encode, Compare, AppendOK, AppendError, Install, Settle, GiveUp, planeVars
  <2>2. CASE UNCHANGED <<consumer, plane, side>>
    BY <2>2 DEF SideInStep, Up
  <2>3. CASE Subscribe \/ CheckMissed \/ Snapshot \/ Receive \/ Drain
    BY <2>0, <2>3 DEF Subscribe, CheckMissed, Snapshot, Receive, Drain, AfterStale,
                      SideInStep, Up, planeVars, Consumer
  <2>4. CASE ReloadOK
    <3>1. consumer' = [consumer EXCEPT !.pc = "status", !.ok = TRUE] /\ plane'.rev = consumer.ev.rev
      BY <2>4 DEF ReloadOK
    <3>2. consumer'.pc = "status" /\ consumer'.ok = TRUE /\ consumer'.ev = consumer.ev
      BY <2>0, <3>1 DEF Consumer
    <3> QED
      BY <3>1, <3>2 DEF SideInStep
  <2>9. CASE ReloadFail
    <3>1. consumer' = [consumer EXCEPT !.pc = "status", !.ok = FALSE] /\ consumer.pc = "reload"
          /\ UNCHANGED <<plane, side>>
      BY <2>9 DEF ReloadFail
    <3>2. consumer'.pc = "status" /\ consumer'.ok = FALSE
      BY <2>0, <3>1 DEF Consumer
    <3> QED
      BY <3>1, <3>2 DEF SideInStep, Up
  <2>5. CASE SetApplyStatus
    BY <2>0, <2>5 DEF SetApplyStatus, SideInStep, Up, Consumer
  <2>6. CASE After
    <3>1. Continue(consumer.path, consumer.ok) \in {"missed", "select", "drain"}
      BY <2>0 DEF Consumer, Continue
    <3>2. consumer'.pc \in {"missed", "select", "drain"} /\ plane' = plane /\ consumer.pc = "after"
      BY <2>0, <2>6, <3>1 DEF After, Consumer
    <3>3. CASE consumer.ok
      <4>1. PICK kept \in SUBSET Fallible :
              side' = Rebuilt([rev |-> consumer.ev.rev, cfg |-> Applied(consumer.ev)], side, kept)
        BY <2>6, <3>3 DEF After, RunsBuilders
      <4>2. \A c \in Builder \ Fallible : side'[c].rev = consumer.ev.rev
        BY <4>1 DEF Rebuilt
      <4>3. plane.rev = consumer.ev.rev
        BY <3>2, <3>3 DEF SideInStep
      <4> QED
        BY <3>2, <4>2, <4>3 DEF SideInStep
    <3>4. CASE ~consumer.ok
      <4>1. UNCHANGED side
        BY <2>6, <3>4 DEF After, RunsBuilders
      <4> QED
        BY <3>2, <3>4, <4>1 DEF SideInStep, Up
    <3> QED
      BY <3>3, <3>4
  <2>7. CASE Crash
    BY <2>0, <2>7 DEF Crash, SideInStep, Up, Consumer
  <2>10. CASE Boot
    <3>1. PICK kept \in SUBSET Fallible : side' = Rebuilt(plane', [c \in Builder |-> NotBuilt], kept)
      BY <2>10 DEF Boot
    <3>2. \A c \in Builder \ Fallible : side'[c] = plane'
      BY <3>1 DEF Rebuilt
    <3>3. consumer'.pc = "boot"
      BY <2>0, <2>10 DEF Boot, Consumer
    <3> QED
      BY <3>2, <3>3 DEF SideInStep
  <2>8. CASE UNCHANGED vars
    BY <2>2, <2>8 DEF vars
  <2> QED
    BY <2>1, <2>2, <2>3, <2>4, <2>5, <2>6, <2>7, <2>8, <2>9, <2>10 DEF Next, Consuming
<1>3. TypeOK /\ SideInStep /\ SideInStep' /\ [Next]_vars =>
        [\A c \in Builder :
           /\ side'[c] # side[c] => side'[c].rev = plane'.rev \/ (c \in Fallible /\ ~Up)
           /\ Resting' /\ c \notin Fallible => side'[c].rev = plane'.rev]_vars
  <2> SUFFICES ASSUME TypeOK, SideInStep, SideInStep', [Next]_vars, NEW c \in Builder
               PROVE  /\ side'[c] # side[c] => side'[c].rev = plane'.rev \/ (c \in Fallible /\ ~Up)
                      /\ Resting' /\ c \notin Fallible => side'[c].rev = plane'.rev
    OBVIOUS
  <2>1. Resting' /\ c \notin Fallible => side'[c].rev = plane'.rev
    BY DEF SideInStep, Resting, Up
  <2>2. ASSUME side'[c] # side[c] PROVE side'[c].rev = plane'.rev \/ (c \in Fallible /\ ~Up)
    <3>1. After \/ Boot
      BY <2>2 DEF Next, vars, Publishing, StartPublish, StartSite, StartAIKey, EditAIKey, StartRollback,
         Begin, Encode, Compare, AppendOK, AppendError, Install, Settle, GiveUp, planeVars, Consuming,
         Subscribe, CheckMissed, Snapshot, Receive, Drain, ReloadOK, ReloadFail, SetApplyStatus, Crash
    <3>2. CASE After
      <4>1. RunsBuilders(consumer.ok) /\ consumer.pc = "after" /\ plane' = plane
        BY <2>2, <3>2 DEF After
      <4>2. PICK kept \in SUBSET Fallible :
              side' = Rebuilt([rev |-> consumer.ev.rev, cfg |-> Applied(consumer.ev)], side, kept)
        BY <3>2, <4>1 DEF After
      <4>3. side'[c].rev = consumer.ev.rev
        BY <2>2, <4>2 DEF Rebuilt
      <4> QED
        BY <4>1, <4>3 DEF SideInStep, RunsBuilders
    <3>3. CASE Boot
      <4>1. PICK kept \in SUBSET Fallible : side' = Rebuilt(plane', [b \in Builder |-> NotBuilt], kept)
        BY <3>3 DEF Boot
      <4> QED
        BY <3>3, <4>1 DEF Rebuilt, Boot
    <3> QED
      BY <3>1, <3>2, <3>3
  <2> QED
    BY <2>1, <2>2
<1> QED
  BY <1>1, <1>2, <1>3, TypeCorrect, PTL DEF Spec, SideFollowsPlane

-----------------------------------------------------------------------------
(* Validation.                                                             *)

\* Whatever handlers run, in whatever order, nothing is stored or live that
\* Config.Validate would reject; in particular Open never finds an invalid row.
THEOREM LiveConfigIsValid == Spec => []LiveConfigAlwaysValid
<1>1. Init => OnlyAccepted
  <2> SUFFICES ASSUME Init PROVE OnlyAccepted
    OBVIOUS
  <2>1. \A p \in Publisher : req[p].pc = "idle"
    BY NoRequestType DEF Init
  <2> QED
    BY <2>1, SeedType DEF Init, OnlyAccepted
<1>2. TypeOK /\ OnlyAccepted /\ [Next]_vars => OnlyAccepted'
  <2> SUFFICES ASSUME TypeOK, OnlyAccepted, [Next]_vars PROVE OnlyAccepted'
    OBVIOUS
  <2>0. req \in [Publisher -> Request] /\ store \in Seq(Config) /\ heap \in Seq(Config)
        /\ Len(heap) = Len(store)
    BY DEF TypeOK
  <2>1. ASSUME NEW p \in Publisher, NEW reply, NEW r, Finish(p, reply, r),
               UNCHANGED <<store, heap>>
        PROVE  OnlyAccepted'
    <3>1. NoRequest(reply, r).pc = "idle"
      BY DEF NoRequest
    <3> QED
      BY <2>0, <2>1, <3>1 DEF Finish, OnlyAccepted
  <2>2. ASSUME NEW p \in Publisher, NEW pc \in {"edit", "encode"}, NEW op, NEW sec, NEW obj, NEW body,
               Begin(p, pc, op, sec, obj, body), \A r \in DOMAIN heap' : Valid(heap'[r])
        PROVE  OnlyAccepted'
    BY <2>0, <2>2 DEF Begin, OnlyAccepted
  <2>3. ASSUME NEW p \in Publisher, EditAIKey(p) PROVE OnlyAccepted'
    <3>1. PICK i \in DOMAIN heap, t \in Section, v \in Value \ Invalid :
            heap' = [heap EXCEPT ![i] = [heap[i] EXCEPT ![t] = v]]
      <4>1. req[p].obj \in DOMAIN heap /\ req[p].sec \in Section /\ PendingEdit(req[p])
        BY <2>0, <2>3 DEF EditAIKey, TypeOK, PendingEdit, Request
      <4> QED
        BY <2>3, <4>1 DEF EditAIKey, PendingEdit
    <3>2. heap[i] \in Config
      BY <2>0
    <3>3. Valid([heap[i] EXCEPT ![t] = v])
      BY <3>2 DEF OnlyAccepted, Valid, Config
    <3>4. \A r \in DOMAIN heap' : Valid(heap'[r])
      BY <3>1, <3>2, <3>3 DEF OnlyAccepted
    <3>5. req' = [req EXCEPT ![p].pc = "encode"] /\ store' = store
      BY <2>3 DEF EditAIKey
    <3> QED
      BY <2>0, <3>4, <3>5 DEF OnlyAccepted
  <2>4. ASSUME NEW p \in Publisher, Publishing(p) PROVE OnlyAccepted'
    <3>1. CASE StartPublish(p) \/ StartSite(p) \/ StartAIKey(p) \/ StartRollback(p)
      <4>1. \A r \in DOMAIN heap' : Valid(heap'[r])
        BY <3>1 DEF StartPublish, StartSite, StartAIKey, EditAIKey, StartRollback, OnlyAccepted
      <4> QED
        BY <2>2, <3>1, <4>1 DEF StartPublish, StartSite, StartAIKey, EditAIKey, StartRollback
    <3>2. CASE Encode(p)
      <4>1. CASE Accepts(Submitted(p))
        <5>1. req' = [req EXCEPT ![p].pc = "compare", ![p].body = Submitted(p)]
              /\ Valid(Submitted(p)) /\ UNCHANGED <<store, heap>>
          BY <3>2, <4>1 DEF Encode, Accepts, centerVars
        <5>2. req'[p].body = Submitted(p) /\ \A q \in Publisher \ {p} : req'[q] = req[q]
          BY <2>0, <5>1 DEF Request
        <5> QED
          BY <5>1, <5>2 DEF OnlyAccepted
      <4> QED
        BY <2>1, <3>2, <4>1 DEF Encode, centerVars
    <3>3. CASE Compare(p)
      <4>1. CASE Finish(p, "nochanges", 0)
        BY <2>1, <3>3, <4>1 DEF Compare, centerVars
      <4>2. CASE req' = [req EXCEPT ![p].pc = "append"]
        <5>1. req' = [req EXCEPT ![p].pc = "append"] /\ req[p].pc = "compare"
              /\ UNCHANGED <<store, heap>>
          BY <3>3, <4>2 DEF Compare, centerVars
        <5>2. req'[p].body = req[p].body /\ \A q \in Publisher \ {p} : req'[q] = req[q]
          BY <2>0, <5>1 DEF Request
        <5> QED
          BY <5>1, <5>2 DEF OnlyAccepted
      <4> QED
        BY <3>3, <4>1, <4>2, CompareEffect
    <3>4. CASE AppendOK(p)
      <4>1. req[p].body \in Config /\ Valid(req[p].body)
        BY <2>0, <3>4 DEF AppendOK, OnlyAccepted, Request
      <4>2. \A r \in DOMAIN store' : Valid(store'[r])
        <5>1. DOMAIN store' = 1..(Len(store) + 1)
          BY <2>0, <3>4, <4>1, AppendDoc DEF AppendOK
        <5> QED
          BY <2>0, <3>4, <4>1, <5>1, AppendDoc DEF AppendOK, OnlyAccepted
      <4>3. \A r \in DOMAIN heap' : Valid(heap'[r])
        <5>1. DOMAIN heap' = 1..(Len(heap) + 1)
          BY <2>0, <3>4, <4>1, AppendDoc DEF AppendOK
        <5> QED
          BY <2>0, <3>4, <4>1, <5>1, AppendDoc DEF AppendOK, OnlyAccepted
      <4>4. \A q \in Publisher : req'[q].pc \in {"compare", "append"} =>
              req[q].pc = req'[q].pc /\ req[q].body = req'[q].body
        BY <2>0, <3>4 DEF AppendOK
      <4> QED
        BY <4>2, <4>3, <4>4 DEF OnlyAccepted
    <3>5. CASE Install(p)
      BY <2>0, <3>5 DEF Install, OnlyAccepted
    <3>6. CASE AppendError(p) \/ Settle(p) \/ GiveUp(p)
      BY <2>1, <3>6 DEF AppendError, Settle, GiveUp, centerVars
    <3> QED
      BY <2>3, <2>4, <3>1, <3>2, <3>3, <3>4, <3>5, <3>6 DEF Publishing
  <2>5. CASE Consuming
    BY <2>5 DEF Consuming, Subscribe, CheckMissed, Snapshot, Receive, Drain, ReloadOK,
                ReloadFail, SetApplyStatus, After, centerVars, OnlyAccepted
  <2>6. CASE Crash
    <3>1. \A p \in Publisher : req'[p].pc = "idle"
      BY <2>6, NoRequestType DEF Crash
    <3> QED
      BY <2>6, <3>1 DEF Crash, centerVars, OnlyAccepted
  <2>7. CASE Boot
    BY <2>7 DEF Boot, OnlyAccepted
  <2>8. CASE UNCHANGED vars
    BY <2>8 DEF vars, OnlyAccepted
  <2> QED
    BY <2>4, <2>5, <2>6, <2>7, <2>8 DEF Next
<1>3. TypeOK /\ OnlyAccepted => LiveConfigAlwaysValid
  BY DEF TypeOK, OnlyAccepted, LiveConfigAlwaysValid
<1> QED
  BY <1>1, <1>2, <1>3, TypeCorrect, PTL DEF Spec

-----------------------------------------------------------------------------
(* Replies.                                                                *)

\* st is an outcome revision r can have: it was built, or never can be.
Outcome(r, st) ==
  /\ st = "applied" => Buildable(heap[r])
  /\ st = "failed" /\ MaxFlaky = 0 => ~Buildable(store[r])

\* An object edited in place is never edited into one that cannot be built.
EditsBuild ==
  \A r \in DOMAIN store : \A s \in Section :
    heap[r][s] = store[r][s] \/ heap[r][s] \notin Unbuildable

Waiting(p) == req[p].pc \in {"install", "wait"}

\* A request under way has reported nothing; it has an object of its own from
\* when its row is stored, unless it edits one in place; no two share a revision.
\* A process that is down serves none.
RequestsInOrder ==
  /\ \A p \in Publisher : req[p].pc # "idle" => req[p].reply = "none"
  /\ \A p \in Publisher : req[p].pc # "idle" /\ req[p].op # "aikey" =>
       req[p].obj = IF Waiting(p) THEN req[p].rev ELSE 0
  /\ \A p, q \in Publisher : Waiting(p) /\ Waiting(q) /\ req[p].rev = req[q].rev => p = q
  /\ ~Up => \A p \in Publisher : req[p].pc = "idle" /\ req[p].rev = 0

\* Wherever revision r travels, it is with the object r.
CarriesItsObject(r) ==
  /\ center.rev = r => center.obj = r
  /\ consumer.ev.rev = r => consumer.ev.obj = r
  /\ \A i \in DOMAIN queue : queue[i].rev = r => queue[i].obj = r

\* The outcome that was reported, the one that is waited for and the one that is
\* about to be recorded are outcomes their revisions can have.
RepliesTold == \A p \in Publisher : req[p].rev # 0 => Outcome(req[p].rev, req[p].reply)
RepliesToCome ==
  \A p \in Publisher : Waiting(p) /\ req[p].op # "aikey" =>
    CarriesItsObject(req[p].rev) /\ Outcome(req[p].rev, results[req[p].rev])
AboutToRecord ==
  /\ \A r \in Rev : results[r] # "none" => r <= Len(store)
  /\ consumer.pc = "status" => Outcome(consumer.ev.obj, StatusOf(consumer.ok))

HonestSoFar == EditsBuild /\ RequestsInOrder /\ RepliesTold /\ RepliesToCome /\ AboutToRecord

\* Rows stay, and what could be built still can.
DocsGrow ==
  /\ Len(store) <= Len(store')
  /\ \A r \in 1..Len(store) :
       store'[r] = store[r] /\ (Buildable(heap[r]) => Buildable(heap'[r]))

LEMMA OutcomeStays ==
  ASSUME DocsGrow, NEW r \in 1..Len(store), NEW st, Outcome(r, st)
  PROVE  Outcome(r, st)'
BY DEF DocsGrow, Outcome

\* What cannot be built now was stored so.
LEMMA UnbuildableRow ==
  ASSUME TypeOK, EditsBuild, NEW r \in 1..Len(store), ~Buildable(heap[r])
  PROVE  ~Buildable(store[r])
<1>1. /\ heap \in Seq(Config) /\ store \in Seq(Config) /\ Len(heap) = Len(store)
  BY DEF TypeOK
<1> QED
  BY <1>1 DEF EditsBuild, Buildable

LEMMA SameDocs ==
  ASSUME EditsBuild, UNCHANGED <<store, heap>>
  PROVE  DocsGrow /\ EditsBuild'
<1>1. store' = store /\ heap' = heap
  OBVIOUS
<1> QED
  BY <1>1 DEF DocsGrow, EditsBuild, Buildable

\* The parts of the invariant about the consumer, while it rests.
LEMMA OthersKept ==
  ASSUME TypeOK, AboutToRecord, DocsGrow, UNCHANGED <<results, consumer>>
  PROVE  AboutToRecord'
<1>1. Len(store) \in Nat /\ Len(store) <= Len(store') /\ consumer.ev.obj \in 1..Len(store)
  BY DEF TypeOK, DocsGrow
<1>2. \A r \in Rev : results'[r] # "none" => r <= Len(store')
  BY <1>1 DEF AboutToRecord, DocsGrow, Rev
<1>3. consumer'.pc = "status" => Outcome(consumer.ev.obj, StatusOf(consumer.ok))'
  BY <1>1, OutcomeStays DEF AboutToRecord
<1> QED
  BY <1>2, <1>3 DEF AboutToRecord

\* A request goes on without storing or ends without a verdict of its own.
LEMMA RequestMoves ==
  ASSUME TypeOK, HonestSoFar, NEW p \in Publisher, req[p].pc # "idle",
         NEW new, req' = [req EXCEPT ![p] = new],
         UNCHANGED <<store, heap, center, queue, results, consumer>>,
         \/ /\ new.pc \in {"compare", "append"} /\ req[p].pc \notin {"install", "wait"}
            /\ new.op = req[p].op /\ new.obj = req[p].obj
            /\ new.rev = req[p].rev /\ new.reply = req[p].reply
         \/ new.pc = "idle" /\ (new.rev # 0 => Outcome(new.rev, new.reply))
  PROVE  HonestSoFar'
<1>1. \A q \in Publisher : req'[q] = IF q = p THEN new ELSE req[q]
  BY DEF TypeOK
<1>2. Up /\ Up'
  BY DEF HonestSoFar, RequestsInOrder, Up
<1>3. DocsGrow /\ EditsBuild' /\ AboutToRecord'
  BY SameDocs, OthersKept DEF HonestSoFar
<1>4. RequestsInOrder'
  BY <1>1, <1>2 DEF HonestSoFar, RequestsInOrder, Waiting
<1>5. RepliesTold'
  BY <1>1 DEF HonestSoFar, RepliesTold, Outcome
<1>6. RepliesToCome'
  BY <1>1 DEF HonestSoFar, RepliesToCome, Waiting, CarriesItsObject, Outcome
<1> QED
  BY <1>3, <1>4, <1>5, <1>6 DEF HonestSoFar

LEMMA FinishIsHonest ==
  ASSUME TypeOK, HonestSoFar, NEW p \in Publisher, req[p].pc # "idle",
         NEW reply, NEW r, Finish(p, reply, r), r # 0 => Outcome(r, reply),
         UNCHANGED <<store, heap, center, queue, results, consumer>>
  PROVE  HonestSoFar'
<1>1. NoRequest(reply, r).pc = "idle" /\ NoRequest(reply, r).rev = r /\ NoRequest(reply, r).reply = reply
  BY DEF NoRequest
<1> QED
  BY <1>1, RequestMoves DEF Finish

LEMMA BeginIsHonest ==
  ASSUME TypeOK, HonestSoFar, NEW p \in Publisher, Up, ~Waiting(p), NEW new,
         req' = [req EXCEPT ![p] = new], new.pc \in {"edit", "encode"}, new.reply = "none",
         new.op # "aikey" => new.obj = 0,
         UNCHANGED <<store, center, queue, consumer, results>>, DocsGrow, EditsBuild'
  PROVE  HonestSoFar'
<1>1. \A q \in Publisher : req'[q] = IF q = p THEN new ELSE req[q]
  BY DEF TypeOK
<1>2. Up /\ UNCHANGED <<store, center, queue, consumer>>
  OBVIOUS
<1>3. new.pc \in {"edit", "encode"} /\ (new.op # "aikey" => new.obj = 0) /\ new.reply = "none"
  OBVIOUS
<1>4. RequestsInOrder'
  BY <1>1, <1>2, <1>3 DEF HonestSoFar, RequestsInOrder, Waiting, Up
<1>5. \A q \in Publisher : req[q].rev # 0 => req[q].rev \in 1..Len(store)
  BY DEF TypeOK
<1>6. RepliesTold'
  <2> SUFFICES ASSUME NEW q \in Publisher, req'[q].rev # 0 PROVE Outcome(req[q].rev, req[q].reply)'
    BY DEF RepliesTold
  <2>1. CASE q = p
    BY <1>1, <1>3, <2>1 DEF Outcome
  <2>2. CASE q # p
    BY <1>1, <1>5, <2>2, OutcomeStays DEF HonestSoFar, RepliesTold
  <2> QED
    BY <2>1, <2>2
<1>7. RepliesToCome'
  <2> SUFFICES ASSUME NEW q \in Publisher, q # p, Waiting(q), req[q].op # "aikey"
               PROVE  CarriesItsObject(req[q].rev)' /\ Outcome(req[q].rev, results[req[q].rev])'
    BY <1>1, <1>3 DEF RepliesToCome, Waiting
  <2>1. /\ req'[q] = req[q] /\ req[q].rev \in 1..Len(store)
        /\ CarriesItsObject(req[q].rev) /\ Outcome(req[q].rev, results[req[q].rev])
    <3>1. req'[q] = req[q] /\ req[q].rev \in 0..Len(store) /\ req[q].rev # 0
      BY <1>1 DEF TypeOK, Waiting
    <3>2. CarriesItsObject(req[q].rev) /\ Outcome(req[q].rev, results[req[q].rev])
      BY DEF HonestSoFar, RepliesToCome
    <3>3. Len(store) \in Nat
      BY DEF TypeOK
    <3> QED
      BY <3>1, <3>2, <3>3
  <2> QED
    BY <1>2, <2>1, OutcomeStays DEF CarriesItsObject
<1>8. AboutToRecord'
  BY <1>2, OthersKept DEF HonestSoFar
<1> QED
  BY <1>4, <1>6, <1>7, <1>8 DEF HonestSoFar

\* An edit in place writes a value that builds, into an object that is live.
LEMMA EditKeepsDocs ==
  ASSUME TypeOK, EditsBuild, NEW i \in 1..Len(store), NEW s \in InPlaceSection,
         NEW v \in Value \ (Invalid \cup Unbuildable),
         heap' = [heap EXCEPT ![i] = [heap[i] EXCEPT ![s] = v]], store' = store
  PROVE  DocsGrow /\ EditsBuild'
<1>1. /\ i \in 1..Len(store) /\ heap \in Seq(Config) /\ Len(heap) = Len(store)
      /\ Len(store) \in Nat
  BY DEF TypeOK, Rev
<1>2. /\ \A r \in 1..Len(store) : r # i => heap'[r] = heap[r]
      /\ heap'[i] = [heap[i] EXCEPT ![s] = v]
      /\ heap[i] \in Config
  BY <1>1
<1>3. \A t \in Section : heap'[i][t] = IF t = s THEN v ELSE heap[i][t]
  BY <1>2 DEF Config
<1>4. DocsGrow
  BY <1>1, <1>2, <1>3 DEF DocsGrow, Buildable
<1>5. EditsBuild'
  BY <1>1, <1>2, <1>3 DEF EditsBuild
<1> QED
  BY <1>4, <1>5

LEMMA AppendIsHonest ==
  ASSUME TypeOK, HonestSoFar, NEW p \in Publisher, AppendOK(p)
  PROVE  HonestSoFar'
<1> DEFINE n == Len(store) + 1
           new == [req[p] EXCEPT !.pc = "install", !.rev = n, !.obj = IF @ = 0 THEN n ELSE @]
<1>0. /\ req[p] \in Request /\ req[p].body \in Config /\ req[p].pc = "append"
      /\ store \in Seq(Config) /\ heap \in Seq(Config) /\ Len(heap) = Len(store) /\ Len(store) \in Nat
      /\ req' = [req EXCEPT ![p] = new] /\ n \in Rev
  <2>1. req[p] \in Request /\ store \in Seq(Config) /\ heap \in Seq(Config) /\ Len(heap) = Len(store)
    BY DEF TypeOK
  <2>2. Len(store) \in Nat /\ n \in Rev
    BY DEF TypeOK, AppendOK, Rev
  <2>3. req[p].pc = "append" /\ req' = [req EXCEPT ![p] = new]
    BY DEF AppendOK, NextRev
  <2> QED
    BY <2>1, <2>2, <2>3 DEF Request
<1>1. /\ new.pc = "install" /\ new.rev = n /\ new.op = req[p].op /\ new.reply = req[p].reply
      /\ new.obj = IF req[p].obj = 0 THEN n ELSE req[p].obj
  BY <1>0 DEF Request
<1> HIDE DEF new
<1>2. \A q \in Publisher : req'[q] = IF q = p THEN new ELSE req[q]
  BY <1>0 DEF TypeOK
<1>3. UNCHANGED <<center, queue, results, consumer>>
  BY DEF AppendOK, planeVars
<1>4. /\ Len(store') = n /\ store'[n] = req[p].body /\ heap'[n] = req[p].body
      /\ \A r \in 1..Len(store) : store'[r] = store[r] /\ heap'[r] = heap[r]
  BY <1>0, AppendDoc DEF AppendOK
<1>5. DocsGrow
  BY <1>0, <1>4 DEF DocsGrow
<1>6. EditsBuild'
  <2>1. DOMAIN store' = 1..Len(store')
    BY <1>0, AppendDoc DEF AppendOK
  <2> QED
    BY <1>0, <1>4, <2>1 DEF HonestSoFar, EditsBuild
<1>7. \A q \in Publisher : req[q].rev \in 0..Len(store) /\ req[q].rev # n
  BY <1>0 DEF TypeOK
<1>8. RequestsInOrder'
  BY <1>0, <1>1, <1>2, <1>3, <1>7 DEF HonestSoFar, RequestsInOrder, Waiting, Up
<1>9. RepliesTold'
  <2>1. Outcome(n, "none")'
    BY DEF Outcome
  <2>2. ASSUME NEW q \in Publisher, q # p, req[q].rev # 0
        PROVE  Outcome(req[q].rev, req[q].reply)'
    BY <1>2, <1>5, <1>7, <2>2, OutcomeStays DEF HonestSoFar, RepliesTold
  <2>3. req[p].reply = "none"
    BY <1>0 DEF HonestSoFar, RequestsInOrder
  <2> QED
    BY <1>1, <1>2, <2>1, <2>2, <2>3 DEF RepliesTold, Outcome
<1>10. RepliesToCome'
  <2>1. results[n] = "none" /\ \A r : r = n => CarriesItsObject(r)'
    <3>1. results[n] = "none"
      BY <1>0 DEF HonestSoFar, AboutToRecord
    <3>2. /\ center.rev # n /\ consumer.ev.rev # n
          /\ \A i \in DOMAIN queue : queue[i].rev # n
      <4>1. n \notin 1..Len(store)
        BY <1>0
      <4>2. \A i \in DOMAIN queue : queue[i] \in [rev : 1..Len(store), obj : 1..Len(store)]
        <5>1. queue \in Seq([rev : 1..Len(store), obj : 1..Len(store)])
          BY DEF TypeOK
        <5> QED
          BY <5>1, SeqItem
      <4> QED
        BY <4>1, <4>2 DEF TypeOK
    <3> QED
      BY <1>3, <3>1, <3>2 DEF CarriesItsObject
  <2>2. ASSUME NEW q \in Publisher, q # p, Waiting(q), req[q].op # "aikey"
        PROVE  CarriesItsObject(req[q].rev)' /\ Outcome(req[q].rev, results[req[q].rev])'
    <3>1. /\ req'[q] = req[q] /\ req[q].rev \in 1..Len(store)
          /\ CarriesItsObject(req[q].rev) /\ Outcome(req[q].rev, results[req[q].rev])
      BY <1>2, <2>2 DEF HonestSoFar, RepliesToCome, TypeOK, Waiting
    <3> QED
      BY <1>3, <1>5, <3>1, OutcomeStays DEF CarriesItsObject
  <2> QED
    BY <1>1, <1>2, <1>3, <2>1, <2>2 DEF RepliesToCome, Waiting, CarriesItsObject, Outcome
<1>11. AboutToRecord'
  BY <1>3, <1>5, OthersKept DEF HonestSoFar
<1> QED
  BY <1>6, <1>8, <1>9, <1>10, <1>11 DEF HonestSoFar

LEMMA InstallIsHonest ==
  ASSUME TypeOK, HonestSoFar, NEW p \in Publisher, Install(p)
  PROVE  HonestSoFar'
<1> DEFINE e == [rev |-> req[p].rev, obj |-> req[p].obj]
           new == [req[p] EXCEPT !.pc = "wait"]
<1>0. /\ req[p] \in Request /\ req[p].pc = "install"
      /\ center' = e /\ (queue' = queue \/ queue' = Append(queue, e))
      /\ req' = [req EXCEPT ![p] = new]
      /\ UNCHANGED <<store, heap, results, consumer>>
  BY DEF TypeOK, Install, Installed, planeVars
<1>1. /\ new.pc = "wait" /\ new.rev = req[p].rev /\ new.obj = req[p].obj
      /\ new.op = req[p].op /\ new.reply = req[p].reply
      /\ e.rev = req[p].rev /\ e.obj = req[p].obj
  BY <1>0 DEF Request
<1> HIDE DEF new, e
<1>2. \A q \in Publisher : req'[q] = IF q = p THEN new ELSE req[q]
  BY <1>0 DEF TypeOK
<1>3. DocsGrow /\ EditsBuild' /\ AboutToRecord'
  BY <1>0, SameDocs, OthersKept DEF HonestSoFar
<1>4. RequestsInOrder'
  BY <1>0, <1>1, <1>2 DEF HonestSoFar, RequestsInOrder, Waiting, Up
<1>5. RepliesTold'
  BY <1>0, <1>1, <1>2 DEF HonestSoFar, RepliesTold, Outcome
<1>6. RepliesToCome'
  <2> SUFFICES ASSUME NEW q \in Publisher, Waiting(q), req[q].op # "aikey"
               PROVE  CarriesItsObject(req[q].rev)' /\ Outcome(req[q].rev, results[req[q].rev])'
    BY <1>0, <1>1, <1>2 DEF RepliesToCome, Waiting
  <2>0. PICK r : r = req[q].rev
    OBVIOUS
  <2>1. CarriesItsObject(r) /\ Outcome(r, results[r]) /\ req'[q].rev = r
    BY <1>1, <1>2, <2>0 DEF HonestSoFar, RepliesToCome
  <2>2. e.rev = r => e.obj = r
    BY <1>0, <1>1, <2>0 DEF HonestSoFar, RequestsInOrder, Waiting
  <2>3. \A i \in DOMAIN queue' : queue'[i].rev = r => queue'[i].obj = r
    <3>1. CASE queue' = queue
      BY <2>1, <3>1 DEF CarriesItsObject
    <3>2. CASE queue' = Append(queue, e)
      <4>1. queue \in Seq([rev : 1..Len(store), obj : 1..Len(store)])
        BY DEF TypeOK
      <4>2. \A i \in DOMAIN queue' : (i \in DOMAIN queue /\ queue'[i] = queue[i]) \/ queue'[i] = e
        BY <3>2, <4>1
      <4> QED
        BY <2>1, <2>2, <4>2 DEF CarriesItsObject
    <3> QED
      BY <1>0, <3>1, <3>2
  <2>4. Outcome(r, results[r])'
    BY <1>0, <2>1 DEF Outcome
  <2> QED
    BY <1>0, <2>0, <2>1, <2>2, <2>3, <2>4 DEF CarriesItsObject
<1> QED
  BY <1>3, <1>4, <1>5, <1>6 DEF HonestSoFar

\* A step of the consumer that records nothing.
LEMMA ConsumerMoves ==
  ASSUME TypeOK, HonestSoFar, UNCHANGED <<store, heap, center, req, results>>,
         Up, Up', \A r : CarriesItsObject(r) => CarriesItsObject(r)',
         consumer'.pc = "status" => Outcome(consumer'.ev.obj, StatusOf(consumer'.ok))
  PROVE  HonestSoFar'
<1>1. EditsBuild'
  BY SameDocs DEF HonestSoFar
<1>2. RequestsInOrder'
  BY DEF HonestSoFar, RequestsInOrder, Waiting
<1>3. RepliesTold'
  BY DEF HonestSoFar, RepliesTold, Outcome
<1>4. RepliesToCome'
  <2> SUFFICES ASSUME NEW q \in Publisher, Waiting(q), req[q].op # "aikey"
               PROVE  CarriesItsObject(req[q].rev)' /\ Outcome(req[q].rev, results[req[q].rev])'
    BY DEF RepliesToCome, Waiting
  <2>1. PICK r : r = req[q].rev
    OBVIOUS
  <2>2. CarriesItsObject(r) /\ Outcome(r, results[r]) /\ r = req'[q].rev
    BY <2>1 DEF HonestSoFar, RepliesToCome
  <2>3. CarriesItsObject(r)' /\ Outcome(r, results[r])'
    BY <2>2 DEF Outcome
  <2> QED
    BY <2>2, <2>3
<1>5. AboutToRecord'
  BY DEF HonestSoFar, AboutToRecord, Outcome
<1> QED
  BY <1>1, <1>2, <1>3, <1>4, <1>5 DEF HonestSoFar

\* An event taken from the channel leaves with its object.
LEMMA TakenEvent ==
  ASSUME TypeOK, queue # <<>>, queue' = Tail(queue), center' = center,
         consumer'.ev \in {consumer.ev, Head(queue)}, NEW r, CarriesItsObject(r)
  PROVE  CarriesItsObject(r)'
<1> DEFINE Events == [rev : 1..Len(store), obj : 1..Len(store)]
<1>1. queue \in Seq(Events)
  BY DEF TypeOK
<1>2. /\ Head(queue) = queue[1] /\ 1 \in DOMAIN queue
      /\ \A i \in DOMAIN Tail(queue) : i + 1 \in DOMAIN queue /\ Tail(queue)[i] = queue[i + 1]
  <2> HIDE DEF Events
  <2> QED
    BY <1>1
<1>3. \A i \in DOMAIN queue' : queue'[i].rev = r => queue'[i].obj = r
  BY <1>2 DEF CarriesItsObject
<1> QED
  BY <1>2, <1>3 DEF CarriesItsObject

LEMMA ConsumingIsHonest ==
  ASSUME TypeOK, HonestSoFar, Consuming
  PROVE  HonestSoFar'
<1>0. consumer \in Consumer
  BY DEF TypeOK
<1>1. CASE Subscribe \/ CheckMissed
  <2>1. /\ UNCHANGED <<store, heap, center, req, results, queue>>
        /\ consumer'.ev = consumer.ev /\ consumer'.pc \in {"missed", "snapshot", "select"}
        /\ consumer.pc # "down"
    BY <1>0, <1>1 DEF Subscribe, CheckMissed, centerVars, planeVars, Consumer
  <2> QED
    BY <2>1, ConsumerMoves DEF Up, CarriesItsObject
<1>2. CASE Snapshot
  <2>1. /\ UNCHANGED <<store, heap, center, req, results, queue>>
        /\ consumer'.ev = center /\ consumer'.pc = "reload" /\ consumer.pc # "down"
    BY <1>0, <1>2 DEF Snapshot, centerVars, planeVars, Consumer
  <2> QED
    BY <2>1, ConsumerMoves DEF Up, CarriesItsObject
<1>3. CASE Receive \/ (Drain /\ queue # <<>>)
  <2>1. /\ UNCHANGED <<store, heap, center, req, results>>
        /\ queue # <<>> /\ queue' = Tail(queue) /\ consumer.pc # "down"
    BY <1>3 DEF Receive, Drain, centerVars, planeVars
  <2>2. /\ consumer'.ev \in {consumer.ev, Head(queue)}
        /\ consumer'.pc \in {"reload", "missed", "drain"}
    <3>1. CASE Receive
      BY <1>0, <3>1 DEF Receive, AfterStale, Consumer
    <3>2. CASE Drain /\ queue # <<>>
      BY <1>0, <3>2 DEF Drain, Consumer
    <3> QED
      BY <1>3, <3>1, <3>2
  <2>3. \A r : CarriesItsObject(r) => CarriesItsObject(r)'
    BY <2>1, <2>2, TakenEvent
  <2> QED
    BY <2>1, <2>2, <2>3, ConsumerMoves DEF Up
<1>4. CASE Drain /\ queue = <<>>
  <2>1. /\ UNCHANGED <<store, heap, center, req, results, queue>>
        /\ consumer'.ev = consumer.ev /\ consumer'.pc = "missed" /\ consumer.pc # "down"
    BY <1>0, <1>4 DEF Drain, centerVars, planeVars, Consumer
  <2> QED
    BY <2>1, ConsumerMoves DEF Up, CarriesItsObject
<1>5. CASE ReloadOK
  <2>1. /\ UNCHANGED <<store, heap, center, req, results, queue>> /\ consumer.pc # "down"
        /\ consumer'.ev = consumer.ev /\ consumer'.pc = "status" /\ consumer'.ok = TRUE
        /\ Buildable(heap[consumer.ev.obj])
    BY <1>0, <1>5 DEF ReloadOK, Applied, centerVars, Consumer
  <2>2. Outcome(consumer'.ev.obj, StatusOf(consumer'.ok))
    BY <2>1 DEF Outcome, StatusOf
  <2> QED
    BY <2>1, <2>2, ConsumerMoves DEF Up, CarriesItsObject
<1>6. CASE ReloadFail
  <2>1. /\ UNCHANGED <<store, heap, center, req, results, queue>> /\ consumer.pc # "down"
        /\ consumer'.ev = consumer.ev /\ consumer'.pc = "status" /\ consumer'.ok = FALSE
    BY <1>0, <1>6 DEF ReloadFail, centerVars, Consumer
  <2>2. MaxFlaky = 0 => ~Buildable(heap[consumer.ev.obj])
    BY <1>6 DEF ReloadFail, Applied, TypeOK
  <2>3. Outcome(consumer'.ev.obj, StatusOf(consumer'.ok))
    <3>1. consumer.ev.obj \in 1..Len(store)
      BY DEF TypeOK
    <3> QED
      BY <2>1, <2>2, <3>1, UnbuildableRow DEF HonestSoFar, Outcome, StatusOf
  <2> QED
    BY <2>1, <2>3, ConsumerMoves DEF Up, CarriesItsObject
<1>7. CASE After
  <2>1. Continue(consumer.path, consumer.ok) \in {"missed", "select", "drain"}
    BY <1>0 DEF Consumer, Continue
  <2>2. /\ UNCHANGED <<store, heap, center, req, results, queue>> /\ consumer.pc # "down"
        /\ consumer'.ev = NoEvent /\ consumer'.pc \in {"missed", "select", "drain"}
    BY <1>0, <1>7, <2>1 DEF After, centerVars, Consumer
  <2> QED
    BY <2>2, ConsumerMoves DEF Up, CarriesItsObject, NoEvent
<1>8. CASE SetApplyStatus
  <2>1. /\ UNCHANGED <<store, heap, center, req, queue>> /\ consumer.pc = "status"
        /\ consumer'.ev = consumer.ev /\ consumer'.pc = "after"
        /\ results' = Prune([results EXCEPT ![consumer.ev.rev] = StatusOf(consumer.ok)])
    BY <1>0, <1>8 DEF SetApplyStatus, centerVars, Consumer
  <2>2. consumer.ev.rev \in Rev /\ consumer.ev.rev \in 1..Len(store)
    BY DEF TypeOK, Rev
  <2>3. \A r \in Rev : results'[r] \in {"none", IF r = consumer.ev.rev THEN StatusOf(consumer.ok)
                                                                     ELSE results[r]}
    <3> DEFINE res == [results EXCEPT ![consumer.ev.rev] = StatusOf(consumer.ok)]
    <3>1. DOMAIN res = Rev /\ \A r \in Rev : res[r] = IF r = consumer.ev.rev THEN StatusOf(consumer.ok)
                                                                         ELSE results[r]
      BY <2>2 DEF TypeOK
    <3>2. results' = Prune(res)
      BY <2>1
    <3> HIDE DEF res
    <3>3. \A r \in Rev : results'[r] \in {"none", res[r]}
      BY <3>1, <3>2 DEF Prune
    <3> QED
      BY <3>1, <3>3
  <2>4. EditsBuild'
    BY <2>1, SameDocs DEF HonestSoFar
  <2>5. RequestsInOrder'
    BY <2>1 DEF HonestSoFar, RequestsInOrder, Waiting, Up
  <2>6. RepliesTold'
    BY <2>1 DEF HonestSoFar, RepliesTold, Outcome
  <2>7. RepliesToCome'
    <3> SUFFICES ASSUME NEW q \in Publisher, Waiting(q), req[q].op # "aikey"
                 PROVE  CarriesItsObject(req[q].rev)' /\ Outcome(req[q].rev, results[req[q].rev])'
      BY <2>1 DEF RepliesToCome, Waiting
    <3>1. PICK r \in Rev : r = req[q].rev
      BY DEF TypeOK, Waiting, Request
    <3>2. CarriesItsObject(r) /\ Outcome(r, results[r]) /\ r = req'[q].rev
      BY <2>1, <3>1 DEF HonestSoFar, RepliesToCome
    <3>3. CarriesItsObject(r)'
      BY <2>1, <3>2 DEF CarriesItsObject
    <3>4. r = consumer.ev.rev => Outcome(r, StatusOf(consumer.ok))
      BY <2>1, <3>2 DEF CarriesItsObject, HonestSoFar, AboutToRecord
    <3>5. Outcome(r, results'[r])
      BY <2>3, <3>2, <3>4 DEF Outcome
    <3> QED
      BY <2>1, <3>2, <3>3, <3>5 DEF Outcome
  <2>8. AboutToRecord'
    <3>1. \A r \in Rev : results'[r] # "none" => r = consumer.ev.rev \/ results[r] # "none"
      BY <2>3
    <3>2. \A r \in Rev : results'[r] # "none" => r <= Len(store)
      BY <2>2, <3>1 DEF HonestSoFar, AboutToRecord
    <3> QED
      BY <2>1, <3>2 DEF AboutToRecord
  <2> QED
    BY <2>4, <2>5, <2>6, <2>7, <2>8 DEF HonestSoFar
<1> QED
  BY <1>1, <1>2, <1>3, <1>4, <1>5, <1>6, <1>7, <1>8 DEF Consuming

\* What a process that was killed reported is not asked of the next one.
LEMMA RestartIsHonest ==
  ASSUME TypeOK, HonestSoFar, Crash \/ Boot
  PROVE  HonestSoFar'
<1>1. \A p \in Publisher : req'[p].pc = "idle" /\ req'[p].rev = 0
  <2>1. CASE Crash
    BY <2>1, NoRequestType DEF Crash
  <2>2. CASE Boot
    BY <2>2 DEF Boot, HonestSoFar, RequestsInOrder
  <2> QED
    BY <2>1, <2>2
<1>2. consumer'.pc # "status"
  BY DEF Crash, Boot, TypeOK, Consumer
<1>3. \A r \in Rev : results'[r] # "none" => r <= Len(store')
  BY DEF Crash, Boot, centerVars, HonestSoFar, AboutToRecord
<1>4. EditsBuild'
  <2>1. CASE Crash
    BY <2>1, SameDocs DEF Crash, centerVars, HonestSoFar
  <2>2. CASE Boot
    BY <2>2 DEF Boot, EditsBuild
  <2> QED
    BY <2>1, <2>2
<1> QED
  BY <1>1, <1>2, <1>3, <1>4
  DEF HonestSoFar, RequestsInOrder, RepliesTold, RepliesToCome, AboutToRecord, Waiting

LEMMA PublishingIsHonest ==
  ASSUME TypeOK, HonestSoFar, NEW p \in Publisher, Publishing(p)
  PROVE  HonestSoFar'
<1>0. req[p] \in Request
  BY DEF TypeOK
<1>1. ASSUME NEW pc \in {"edit", "encode"}, NEW op, NEW sec, NEW obj, NEW body,
             Begin(p, pc, op, sec, obj, body), op # "aikey" => obj = 0, UNCHANGED heap
      PROVE  HonestSoFar'
  <2> DEFINE new == [pc |-> pc, op |-> op, sec |-> sec, obj |-> obj,
                     body |-> body, rev |-> 0, reply |-> "none"]
  <2>1. /\ new.pc \in {"edit", "encode"} /\ new.reply = "none" /\ (new.op # "aikey" => new.obj = 0)
        /\ req' = [req EXCEPT ![p] = new] /\ Up /\ ~Waiting(p)
        /\ UNCHANGED <<store, center, queue, consumer, results>>
    BY <1>1 DEF Begin, planeVars, Waiting
  <2>2. DocsGrow /\ EditsBuild'
    BY <1>1, <2>1, SameDocs DEF HonestSoFar
  <2> HIDE DEF new
  <2> QED
    BY <2>1, <2>2, BeginIsHonest
<1>2. CASE StartPublish(p) \/ StartSite(p) \/ StartAIKey(p) \/ StartRollback(p)
  BY <1>1, <1>2 DEF StartPublish, StartSite, StartAIKey, StartRollback
<1>15. CASE EditAIKey(p)
  <2> DEFINE new == [req[p] EXCEPT !.pc = "encode"]
  <2>1. /\ req[p].pc = "edit" /\ req' = [req EXCEPT ![p] = new]
        /\ UNCHANGED <<store, center, queue, consumer, results>>
        /\ heap' = [heap EXCEPT ![req[p].obj] =
                       [heap[req[p].obj] EXCEPT ![req[p].sec] = req[p].body[req[p].sec]]]
    BY <1>15 DEF EditAIKey, planeVars
  <2>2. new.pc = "encode" /\ new.reply = "none" /\ new.op = "aikey" /\ Up /\ ~Waiting(p)
    <3>1. new.pc = "encode" /\ new.reply = req[p].reply /\ new.op = req[p].op
      BY <1>0 DEF Request
    <3> QED
      BY <2>1, <3>1 DEF HonestSoFar, RequestsInOrder, Waiting, Up, TypeOK, PendingEdit
  <2>3. DocsGrow /\ EditsBuild'
    <3>1. PICK i \in 1..Len(store), t \in InPlaceSection, v \in Value \ (Invalid \cup Unbuildable) :
            heap' = [heap EXCEPT ![i] = [heap[i] EXCEPT ![t] = v]]
      <4>1. req[p].obj \in 1..Len(store) /\ PendingEdit(req[p])
        BY <2>1 DEF TypeOK, PendingEdit
      <4> QED
        BY <2>1, <4>1 DEF PendingEdit
    <3> QED
      BY <2>1, <3>1, EditKeepsDocs DEF HonestSoFar
  <2> HIDE DEF new
  <2> QED
    BY <2>1, <2>2, <2>3, BeginIsHonest
<1>3. CASE Encode(p)
  <2>0. UNCHANGED <<store, heap, center, queue, results, consumer>> /\ req[p].pc = "encode"
    BY <1>3 DEF Encode, centerVars, planeVars
  <2>1. CASE Accepts(Submitted(p))
    <3> DEFINE new == [req[p] EXCEPT !.pc = "compare", !.body = Submitted(p)]
    <3>1. /\ new.pc = "compare" /\ new.op = req[p].op /\ new.obj = req[p].obj
          /\ new.rev = req[p].rev /\ new.reply = req[p].reply
      BY <1>0 DEF Request
    <3>2. req' = [req EXCEPT ![p] = new]
      BY <1>3, <2>1 DEF Encode
    <3> HIDE DEF new
    <3> QED
      BY <2>0, <3>1, <3>2, RequestMoves
  <2>2. CASE ~Accepts(Submitted(p))
    BY <1>3, <2>0, <2>2, FinishIsHonest DEF Encode
  <2> QED
    BY <2>1, <2>2
<1>4. CASE Compare(p)
  <2>0. UNCHANGED <<store, heap, center, queue, results, consumer>> /\ req[p].pc = "compare"
    BY <1>4 DEF Compare, centerVars, planeVars
  <2>1. CASE Finish(p, "nochanges", 0)
    BY <1>4, <2>0, <2>1, FinishIsHonest DEF Compare
  <2>2. CASE req' = [req EXCEPT ![p].pc = "append"]
    <3> DEFINE new == [req[p] EXCEPT !.pc = "append"]
    <3>1. /\ new.pc = "append" /\ new.op = req[p].op /\ new.obj = req[p].obj
          /\ new.rev = req[p].rev /\ new.reply = req[p].reply
      BY <1>0 DEF Request
    <3>2. req' = [req EXCEPT ![p] = new]
      BY <1>4, <2>2 DEF Compare
    <3> HIDE DEF new
    <3> QED
      BY <2>0, <3>1, <3>2, RequestMoves
  <2> QED
    BY <1>4, <2>1, <2>2, CompareEffect
<1>5. CASE AppendOK(p)
  BY <1>5, AppendIsHonest
<1>6. CASE AppendError(p)
  BY <1>6, FinishIsHonest DEF AppendError, centerVars, planeVars
<1>7. CASE Install(p)
  BY <1>7, InstallIsHonest
<1>8. CASE Settle(p)
  <2>1. Finish(p, results[req[p].rev], req[p].rev)
    BY <1>8 DEF Settle, Settles
  <2>2. Outcome(req[p].rev, results[req[p].rev]) /\ req[p].pc # "idle"
    BY <1>8 DEF Settle, HonestSoFar, RepliesToCome, Waiting
  <2> QED
    BY <1>8, <2>1, <2>2, FinishIsHonest DEF Settle, centerVars, planeVars
<1>9. CASE GiveUp(p)
  <2>1. Outcome(req[p].rev, "pending") /\ req[p].pc # "idle"
    BY <1>9 DEF GiveUp, Outcome
  <2> QED
    BY <1>9, <2>1, FinishIsHonest DEF GiveUp, centerVars, planeVars
<1> QED
  BY <1>2, <1>15, <1>3, <1>4, <1>5, <1>6, <1>7, <1>8, <1>9 DEF Publishing

\* However requests overlap, drop events, share objects or edit them in place, no
\* request is told of its revision what its revision never was.
THEOREM RepliesAreHonest == Spec => []ReplyIsHonest
<1>1. Init => HonestSoFar
  <2> SUFFICES ASSUME Init PROVE HonestSoFar
    OBVIOUS
  <2>1. \A p \in Publisher : req[p].pc = "idle" /\ req[p].rev = 0 /\ req[p].reply = "none"
    BY DEF Init, NoRequest
  <2>2. store = heap /\ consumer.pc = "boot" /\ \A r \in Rev : results[r] = "none"
    BY DEF Init
  <2> QED
    BY <2>1, <2>2 DEF HonestSoFar, EditsBuild, RequestsInOrder, RepliesTold, RepliesToCome,
                      AboutToRecord, Waiting, Up
<1>2. TypeOK /\ HonestSoFar /\ [Next]_vars => HonestSoFar'
  <2> SUFFICES ASSUME TypeOK, HonestSoFar, [Next]_vars PROVE HonestSoFar'
    OBVIOUS
  <2>1. CASE UNCHANGED vars
    BY <2>1 DEF vars, HonestSoFar, EditsBuild, RequestsInOrder, RepliesTold, RepliesToCome,
                AboutToRecord, Waiting, Up, Outcome, CarriesItsObject
  <2> QED
    BY <2>1, PublishingIsHonest, ConsumingIsHonest, RestartIsHonest DEF Next
<1>3. TypeOK /\ HonestSoFar => ReplyIsHonest
  <2> SUFFICES ASSUME TypeOK, HonestSoFar, NEW p \in Publisher, req[p].rev # 0,
                      heap[req[p].rev] = store[req[p].rev]
               PROVE  /\ req[p].reply = "applied" => Buildable(store[req[p].rev])
                      /\ req[p].reply = "failed" /\ MaxFlaky = 0 => ~Buildable(store[req[p].rev])
    BY DEF ReplyIsHonest
  <2> QED
    BY DEF HonestSoFar, RepliesTold, Outcome
<1> QED
  BY <1>1, <1>2, <1>3, TypeCorrect, PTL DEF Spec

-----------------------------------------------------------------------------
(* Under the two conditions the center implements RevisionLog: pointers and *)
(* rows.                                                                   *)

\* At boot the only object is the one decoded from the only row.
LEMMA PointersInit == Init => PointersMatchRows
<1> SUFFICES ASSUME Init PROVE PointersMatchRows
  OBVIOUS
<1>1. \A p \in Publisher : req[p].pc = "idle" /\ req[p].obj = 0
  BY NoRequestType DEF Init
<1> QED
  BY <1>1 DEF Init, PointersMatchRows, NoEvent

\* No step makes a pointer reach another document than the row it stands for.
LEMMA PointersStep ==
  ASSUME NoInPlaceEdits, TypeOK, PointersMatchRows, [Next]_vars
  PROVE  PointersMatchRows'
<1>0. /\ req \in [Publisher -> Request] /\ store \in Seq(Config) /\ consumer \in Consumer
      /\ queue \in Seq([rev : 1..Len(store), obj : 1..Len(store)])
  BY DEF TypeOK
<1>1. ASSUME NEW p \in Publisher, NEW reply, NEW r, Finish(p, reply, r),
             UNCHANGED <<centerVars, queue, consumer>>
      PROVE  PointersMatchRows'
  <2>1. NoRequest(reply, r).pc = "idle" /\ NoRequest(reply, r).obj = 0
    BY DEF NoRequest
  <2> QED
    BY <1>0, <1>1, <2>1 DEF Finish, centerVars, PointersMatchRows
<1>2. ASSUME NEW p \in Publisher, NEW pc \in {"edit", "encode"}, NEW op, NEW sec, NEW body,
             Begin(p, pc, op, sec, 0, body), UNCHANGED heap
      PROVE  PointersMatchRows'
  BY <1>0, <1>2 DEF Begin, PointersMatchRows
<1>3. ASSUME NEW p \in Publisher, Publishing(p) PROVE PointersMatchRows'
  <2>1. CASE StartPublish(p) \/ StartSite(p) \/ StartRollback(p)
    BY <1>2, <2>1 DEF StartPublish, StartSite, StartRollback
  <2>2. ~StartAIKey(p) /\ ~EditAIKey(p)
    BY DEF StartAIKey, EditAIKey, NoInPlaceEdits, TypeOK, PendingEdit
  <2>3. ASSUME NEW new \in Request, req' = [req EXCEPT ![p] = new], new.obj = req[p].obj,
               ~(req[p].pc \in {"install", "wait"}), ~(new.pc \in {"install", "wait"}),
               UNCHANGED <<centerVars, queue, consumer>>
        PROVE  PointersMatchRows'
    BY <1>0, <2>3 DEF PointersMatchRows, centerVars
  <2>4. CASE Encode(p)
    <3>1. CASE Accepts(Submitted(p))
      <4> DEFINE new == [req[p] EXCEPT !.pc = "compare", !.body = Submitted(p)]
      <4>1. new \in Request /\ new.obj = req[p].obj /\ new.pc = "compare" /\ req[p].pc = "encode"
        BY <1>0, <2>4, SubmittedType DEF Request, Encode
      <4>2. req' = [req EXCEPT ![p] = new]
        BY <2>4, <3>1 DEF Encode
      <4> HIDE DEF new
      <4> QED
        BY <2>3, <2>4, <4>1, <4>2 DEF Encode
    <3>2. CASE ~Accepts(Submitted(p))
      BY <1>1, <2>4, <3>2 DEF Encode
    <3> QED
      BY <3>1, <3>2
  <2>5. CASE Compare(p)
    <3>1. CASE Finish(p, "nochanges", 0)
      BY <1>1, <2>5, <3>1 DEF Compare
    <3>2. CASE req' = [req EXCEPT ![p].pc = "append"]
      <4> DEFINE new == [req[p] EXCEPT !.pc = "append"]
      <4>1. new \in Request /\ new.obj = req[p].obj /\ new.pc = "append" /\ req[p].pc = "compare"
        BY <1>0, <2>5 DEF Request, Compare
      <4>2. req' = [req EXCEPT ![p] = new]
        BY <2>5, <3>2 DEF Compare
      <4> HIDE DEF new
      <4> QED
        BY <2>3, <2>5, <4>1, <4>2 DEF Compare
    <3> QED
      BY <2>5, <3>1, <3>2, CompareEffect
  <2>6. CASE AppendOK(p)
    <3>1. req[p].obj = 0
      BY <2>6 DEF AppendOK, PointersMatchRows
    <3>2. req'[p].pc = "install" /\ req'[p].obj = req'[p].rev
      BY <1>0, <2>6, <3>1 DEF AppendOK, Request
    <3>3. \A q \in Publisher \ {p} : req'[q] = req[q]
      BY <1>0, <2>6 DEF AppendOK
    <3> QED
      BY <2>6, <3>2, <3>3 DEF AppendOK, PointersMatchRows
  <2>7. CASE Install(p)
    <3> DEFINE e == [rev |-> req[p].rev, obj |-> req[p].obj]
    <3>1. req[p].obj = req[p].rev
      BY <2>7 DEF Install, PointersMatchRows
    <3>2. center'.obj = center'.rev
      BY <2>7, <3>1 DEF Install, Installed
    <3>3. \A i \in DOMAIN queue' : queue'[i].obj = queue'[i].rev
      <4>1. e.obj = e.rev
        BY <3>1
      <4>2. queue' = queue \/ queue' = Append(queue, e)
        BY <2>7 DEF Install
      <4>3. \A i \in 1..Len(queue) : queue[i].obj = queue[i].rev
        BY <1>0 DEF PointersMatchRows
      <4> HIDE DEF e
      <4>4. CASE queue' = Append(queue, e)
        <5>1. Len(queue') = Len(queue) + 1 /\ DOMAIN queue' = 1..(Len(queue) + 1)
          BY <1>0, <4>4
        <5>2. \A i \in 1..Len(queue) : queue'[i] = queue[i]
          BY <1>0, <4>4
        <5>3. queue'[Len(queue) + 1] = e
          BY <1>0, <4>4
        <5>4. \A i \in 1..(Len(queue) + 1) : i \in 1..Len(queue) \/ i = Len(queue) + 1
          BY <1>0
        <5> QED
          BY <4>1, <4>3, <5>1, <5>2, <5>3, <5>4
      <4> QED
        BY <4>2, <4>4 DEF PointersMatchRows
    <3>4. req'[p].pc = "wait" /\ req'[p].obj = req[p].obj /\ req'[p].rev = req[p].rev
          /\ \A q \in Publisher \ {p} : req'[q] = req[q]
      BY <1>0, <2>7 DEF Install, Request
    <3> QED
      BY <2>7, <3>1, <3>2, <3>3, <3>4 DEF Install, PointersMatchRows
  <2>8. CASE AppendError(p) \/ Settle(p) \/ GiveUp(p)
    BY <1>1, <2>8 DEF AppendError, Settle, GiveUp
  <2> QED
    BY <1>3, <2>1, <2>2, <2>4, <2>5, <2>6, <2>7, <2>8 DEF Publishing
<1>4. ASSUME queue # <<>>
      PROVE  /\ Head(queue).obj = Head(queue).rev
             /\ \A i \in DOMAIN Tail(queue) : Tail(queue)[i].obj = Tail(queue)[i].rev
  <2>1. 1 \in DOMAIN queue /\ Head(queue) = queue[1]
    BY <1>0, <1>4
  <2>2. \A i \in DOMAIN Tail(queue) : i + 1 \in DOMAIN queue /\ Tail(queue)[i] = queue[i + 1]
    BY <1>0, <1>4
  <2> QED
    BY <2>1, <2>2 DEF PointersMatchRows
<1>5. CASE Consuming
  <2>1. UNCHANGED <<centerVars, req>>
    BY <1>5 DEF Consuming, Subscribe, CheckMissed, Snapshot, Receive, Drain, ReloadOK,
                ReloadFail, SetApplyStatus, After
  <2>2. CASE Receive \/ Drain
    BY <1>0, <1>4, <2>1, <2>2 DEF Receive, Drain, PointersMatchRows, centerVars, Consumer
  <2>3. CASE Snapshot
    BY <1>0, <2>1, <2>3 DEF Snapshot, PointersMatchRows, centerVars, Consumer
  <2>4. CASE Subscribe \/ CheckMissed \/ ReloadOK \/ ReloadFail \/ SetApplyStatus
    BY <1>0, <2>1, <2>4 DEF Subscribe, CheckMissed, ReloadOK, ReloadFail, SetApplyStatus,
                            PointersMatchRows, centerVars, Consumer
  <2>5. CASE After
    <3>1. consumer'.ev = NoEvent
      BY <1>0, <2>5 DEF After, Consumer
    <3> QED
      BY <2>1, <2>5, <3>1 DEF After, NoEvent, PointersMatchRows, centerVars
  <2> QED
    BY <1>5, <2>2, <2>3, <2>4, <2>5 DEF Consuming
<1>6. CASE Crash
  <2>1. \A p \in Publisher : req'[p].pc = "idle" /\ req'[p].obj = 0
    BY <1>6, NoRequestType DEF Crash
  <2> QED
    BY <1>6, <2>1 DEF Crash, centerVars, PointersMatchRows, NoEvent
<1>7. CASE Boot
  BY <1>0, <1>7 DEF Boot, PointersMatchRows, Consumer
<1>8. CASE UNCHANGED vars
  BY <1>8 DEF vars, PointersMatchRows
<1> QED
  BY <1>3, <1>5, <1>6, <1>7, <1>8 DEF Next

\* However many requests overlap and however far the consumer lags, the plane and
\* the side components run the very documents stored under their revisions.
THEOREM PlaneRunsStoredDocument ==
  NoInPlaceEdits => (Spec => []PlaneRunsItsRevision)
<1> SUFFICES ASSUME NoInPlaceEdits PROVE Spec => []PlaneRunsItsRevision
  OBVIOUS
<1>1. Init => PlaneRunsItsRevision
  <2> SUFFICES ASSUME Init PROVE PlaneRunsItsRevision
    OBVIOUS
  <2>1. PICK kept \in SUBSET Fallible : side = Rebuilt(plane, [c \in Builder |-> NotBuilt], kept)
    BY DEF Init
  <2> QED
    BY <2>1 DEF Init, PlaneRunsItsRevision, Rebuilt, NotBuilt
<1>2. TypeOK /\ PointersMatchRows /\ PlaneRunsItsRevision /\ [Next]_vars => PlaneRunsItsRevision'
  <2> SUFFICES ASSUME TypeOK, PointersMatchRows, PlaneRunsItsRevision, [Next]_vars
               PROVE  PlaneRunsItsRevision'
    OBVIOUS
  <2>0. /\ plane.rev \in 1..Len(store)
        /\ \A c \in Builder : side[c].rev # 0 => side[c].rev \in 1..Len(store)
        /\ store \in Seq(Config) /\ req \in [Publisher -> Request]
    BY DEF TypeOK
  <2>1. ASSUME NEW p \in Publisher, Publishing(p) PROVE PlaneRunsItsRevision'
    <3>1. CASE AppendOK(p)
      <4>1. req[p].body \in Config
        BY <2>0 DEF Request
      <4>2. \A r \in 1..Len(store) : store'[r] = store[r]
        BY <2>0, <3>1, <4>1, AppendDoc DEF AppendOK
      <4> QED
        BY <2>0, <3>1, <4>2 DEF AppendOK, planeVars, PlaneRunsItsRevision
    <3>2. CASE UNCHANGED <<store, plane, side>>
      BY <3>2 DEF PlaneRunsItsRevision
    <3> QED
      BY <2>1, <3>1, <3>2 DEF Publishing, StartPublish, StartSite, StartAIKey, EditAIKey, StartRollback,
           Begin, Encode, Compare, AppendError, Install, Settle, GiveUp, planeVars, centerVars
  <2>2. Applied(consumer.ev) = store[consumer.ev.rev]
    BY DEF Applied, PointersMatchRows
  <2>6. CASE After
    <3>1. UNCHANGED <<store, plane>>
      BY <2>6 DEF After, centerVars
    <3>2. \A c \in Builder :
            side'[c] \in {side[c], [rev |-> consumer.ev.rev, cfg |-> Applied(consumer.ev)]}
      BY <2>6 DEF After, Rebuilt
    <3> QED
      BY <2>2, <3>1, <3>2 DEF PlaneRunsItsRevision
  <2>3. CASE Consuming /\ ~After
    BY <2>2, <2>3 DEF Consuming, Subscribe, CheckMissed, Snapshot, Receive, Drain, ReloadOK,
         ReloadFail, SetApplyStatus, centerVars, planeVars, PlaneRunsItsRevision
  <2>4. CASE Crash
    BY <2>4 DEF Crash, centerVars, PlaneRunsItsRevision
  <2>7. CASE Boot
    <3>1. PICK kept \in SUBSET Fallible : side' = Rebuilt(plane', [c \in Builder |-> NotBuilt], kept)
      BY <2>7 DEF Boot
    <3>2. \A c \in Builder : side'[c] \in {plane', NotBuilt}
      BY <3>1 DEF Rebuilt
    <3>3. plane' = [rev |-> BootRev, cfg |-> store[BootRev]] /\ store' = store
      BY <2>7 DEF Boot
    <3> QED
      BY <3>2, <3>3 DEF PlaneRunsItsRevision, NotBuilt
  <2>5. CASE UNCHANGED vars
    BY <2>5 DEF vars, PlaneRunsItsRevision
  <2> QED
    BY <2>1, <2>3, <2>4, <2>5, <2>6, <2>7 DEF Next
<1>3. TypeOK /\ PointersMatchRows /\ [Next]_vars => PointersMatchRows'
  BY PointersStep
<1> QED
  BY <1>1, <1>2, <1>3, PointersInit, TypeCorrect, PTL DEF Spec

-----------------------------------------------------------------------------
(* Requests one at a time.                                                 *)

\* At boot nothing is stored that is not installed.
LEMMA SerializedInit == Init => Serialized
<1> SUFFICES ASSUME Init PROVE Serialized
  OBVIOUS
<1>1. \A p \in Publisher : req[p].pc = "idle"
  BY NoRequestType DEF Init
<1>2. Len(store) = 1
  BY DEF Init
<1> QED
  BY <1>1, <1>2 DEF Init, Serialized

\* One request at a time: no row overtakes another between AppendRevision and the
\* install, and no event or catch-up snapshot is older than the plane.
LEMMA SerializedStep ==
  ASSUME SinglePublisher, TypeOK, Serialized, [Next]_vars
  PROVE  Serialized'
<1>0. /\ req \in [Publisher -> Request] /\ store \in Seq(Config) /\ consumer \in Consumer
      /\ Len(store) \in Nat
      /\ center.rev \in 1..Len(store) /\ plane.rev \in 1..Len(store)
  BY DEF TypeOK
<1>1. ASSUME NEW p \in Publisher, Up, req[p].pc # "install", req'[p].pc # "install",
             UNCHANGED <<store, center, plane, consumer>>
      PROVE  Serialized'
  <2>1. \A q \in Publisher : q = p
    BY DEF SinglePublisher
  <2> QED
    BY <1>1, <2>1 DEF Serialized, Up
<1>2. ASSUME NEW p \in Publisher, NEW reply, NEW r, Finish(p, reply, r)
      PROVE  req'[p].pc = "idle"
  BY <1>0, <1>2 DEF Finish, NoRequest
<1>3. ASSUME NEW p \in Publisher, Publishing(p) PROVE Serialized'
  <2>0. \A q \in Publisher : q = p
    BY DEF SinglePublisher
  <2>u. Up
    BY <1>0, <1>3 DEF Publishing, StartPublish, StartSite, StartAIKey, EditAIKey, StartRollback, Begin,
      Encode, Compare, AppendOK, AppendError, Install, Settle, GiveUp, Serialized
  <2>13. ASSUME NEW pc \in {"edit", "encode"}, NEW op, NEW sec, NEW obj, NEW body,
                Begin(p, pc, op, sec, obj, body)
         PROVE  Serialized'
    <3>1. req[p].pc # "install" /\ req'[p].pc # "install"
      BY <1>0, <2>13 DEF Begin
    <3> QED
      BY <1>1, <2>u, <2>13, <3>1 DEF Begin, planeVars
  <2>1. CASE StartPublish(p) \/ StartSite(p) \/ StartAIKey(p) \/ StartRollback(p)
    BY <2>1, <2>13 DEF StartPublish, StartSite, StartAIKey, StartRollback
  <2>12. CASE EditAIKey(p)
    <3>1. req[p].pc = "edit" /\ req'[p].pc = "encode" /\ UNCHANGED <<store, center, plane, consumer>>
      BY <1>0, <2>12 DEF EditAIKey, Request, planeVars
    <3> QED
      BY <1>1, <2>u, <3>1
  <2>2. CASE Encode(p)
    <3>1. req[p].pc # "install" /\ req'[p].pc # "install"
      <4>1. CASE Accepts(Submitted(p))
        BY <1>0, <2>2, <4>1 DEF Encode, Request
      <4>2. CASE ~Accepts(Submitted(p))
        BY <1>2, <2>2, <4>2 DEF Encode
      <4> QED
        BY <4>1, <4>2
    <3> QED
      BY <1>1, <2>u, <2>2, <3>1 DEF Encode, centerVars, planeVars
  <2>3. CASE Compare(p)
    <3>1. req[p].pc # "install" /\ req'[p].pc # "install"
      <4>1. CASE Finish(p, "nochanges", 0)
        BY <1>2, <2>3, <4>1 DEF Compare
      <4>2. CASE req' = [req EXCEPT ![p].pc = "append"]
        BY <1>0, <2>3, <4>2 DEF Compare, Request
      <4> QED
        BY <2>3, <4>1, <4>2, CompareEffect
    <3> QED
      BY <1>1, <2>u, <2>3, <3>1 DEF Compare, centerVars, planeVars
  <2>4. CASE AppendOK(p)
    <3>1. Len(store') = Len(store) + 1
      <4>1. req[p].body \in Config
        BY <1>0 DEF Request
      <4> QED
        BY <1>0, <2>4, <4>1, AppendDoc DEF AppendOK
    <3>2. req'[p].pc = "install" /\ req'[p].rev = Len(store) + 1
      BY <1>0, <2>4 DEF AppendOK, NextRev, Request
    <3>3. UNCHANGED <<center, plane, consumer>>
      BY <2>4 DEF AppendOK, planeVars
    <3> QED
      BY <1>0, <2>0, <2>u, <3>1, <3>2, <3>3 DEF Serialized, Up
  <2>5. CASE Install(p)
    <3>1. req[p].rev = Len(store) /\ center.rev < Len(store) /\ center'.rev = req[p].rev
      BY <2>5 DEF Install, Installed, Serialized
    <3>2. req'[p].pc = "wait" /\ UNCHANGED <<store, plane, consumer>>
      BY <1>0, <2>5 DEF Install, planeVars
    <3> QED
      BY <1>0, <2>0, <2>u, <3>1, <3>2 DEF Serialized, Up
  <2>6. CASE AppendError(p) \/ Settle(p) \/ GiveUp(p)
    <3>1. req[p].pc # "install" /\ req'[p].pc # "install"
      BY <1>2, <2>6 DEF AppendError, Settle, GiveUp
    <3> QED
      BY <1>1, <2>u, <2>6, <3>1 DEF AppendError, Settle, GiveUp, centerVars, planeVars
  <2> QED
    BY <1>3, <2>12, <2>1, <2>2, <2>3, <2>4, <2>5, <2>6 DEF Publishing
<1>4. CASE Consuming
  <2>1. UNCHANGED <<centerVars, req>> /\ Up /\ Up'
    <3>1. UNCHANGED <<centerVars, req>> /\ Up
      BY <1>4 DEF Consuming, Subscribe, CheckMissed, Snapshot, Receive, Drain, ReloadOK,
                  ReloadFail, SetApplyStatus, After, Up
    <3>2. Continue(consumer.path, consumer.ok) \in {"missed", "select", "drain"}
      BY <1>0 DEF Consumer, Continue
    <3>3. consumer'.pc \in {"missed", "snapshot", "select", "drain", "reload", "status", "after"}
      BY <1>0, <1>4, <3>2 DEF Consuming, Subscribe, CheckMissed, Snapshot, Receive, Drain, ReloadOK,
                  ReloadFail, SetApplyStatus, After, Consumer, AfterStale
    <3> QED
      BY <3>1, <3>3 DEF Up
  <2>2. (consumer'.pc = "snapshot" => plane'.rev < center.rev)
        /\ (consumer'.pc = "reload" => plane'.rev < consumer'.ev.rev)
    <3>1. CASE CheckMissed
      BY <1>0, <3>1 DEF CheckMissed, planeVars, Consumer
    <3>2. CASE Snapshot
      BY <1>0, <3>2 DEF Snapshot, planeVars, Consumer, Serialized
    <3>3. CASE Receive
      BY <1>0, <3>3 DEF Receive, planeVars, Consumer, NewerThanRunning, AfterStale, TypeOK
    <3>4. CASE Drain
      BY <1>0, <3>4 DEF Drain, planeVars, Consumer, NewerThanRunning, TypeOK
    <3>5. CASE Subscribe \/ ReloadOK \/ ReloadFail \/ SetApplyStatus
      BY <1>0, <3>5 DEF Subscribe, ReloadOK, ReloadFail, SetApplyStatus, Consumer
    <3>6. CASE After
      <4>1. Continue(consumer.path, consumer.ok) \in {"missed", "select", "drain"}
        BY <1>0 DEF Consumer, Continue
      <4> QED
        BY <1>0, <3>6, <4>1 DEF After, Consumer
    <3> QED
      BY <1>4, <3>1, <3>2, <3>3, <3>4, <3>5, <3>6 DEF Consuming
  <2> QED
    BY <2>1, <2>2 DEF Serialized, centerVars
<1>5. CASE Crash
  <2>1. consumer'.pc = "down" /\ \A p \in Publisher : req'[p].pc = "idle"
    BY <1>5, NoRequestType DEF Crash
  <2> QED
    BY <1>5, <2>1 DEF Serialized, Up
<1>6. CASE Boot
  <2>1. consumer'.pc = "boot" /\ center'.rev = Len(store) /\ UNCHANGED <<store, req>>
    BY <1>0, <1>6 DEF Boot, Consumer, BootRev
  <2> QED
    BY <1>0, <1>6, <2>1 DEF Serialized, Boot
<1>7. CASE UNCHANGED vars
  BY <1>7 DEF vars, Serialized, Up
<1> QED
  BY <1>3, <1>4, <1>5, <1>6, <1>7 DEF Next

\* With requests one at a time, every finished request leaves the newest stored
\* revision active (store.go:3) ...
THEOREM CurrentIsNewestRevision == SinglePublisher => (Spec => []CurrentIsNewest)
<1> SUFFICES ASSUME SinglePublisher PROVE Spec => []CurrentIsNewest
  OBVIOUS
<1>1. Serialized => CurrentIsNewest
  BY DEF Serialized, CurrentIsNewest
<1>2. TypeOK /\ Serialized /\ [Next]_vars => Serialized'
  BY SerializedStep
<1> QED
  BY <1>1, <1>2, SerializedInit, TypeCorrect, PTL DEF Spec

\* A step changes the running revision by a successful reload, a boot, or not.
LEMMA PlaneStep ==
  ASSUME TypeOK, [Next]_vars, Up, Up', plane' # plane
  PROVE  ReloadOK
<1> QED
  BY DEF Next, vars, Publishing, StartPublish, StartSite, StartAIKey, EditAIKey, StartRollback, Begin,
     Encode, Compare, AppendOK, AppendError, Install, Settle, GiveUp, planeVars,
     Consuming, Subscribe, CheckMissed, Snapshot, Receive, Drain, ReloadFail,
     SetApplyStatus, After, Crash, Boot

\* ... and the plane never goes back while the process lives: the guard of
\* Consume and the catch-up together, for any channel capacity and any failures.
THEOREM RunningRevisionGrows == SinglePublisher => (Spec => RunningNeverRegresses)
<1> SUFFICES ASSUME SinglePublisher PROVE Spec => RunningNeverRegresses
  OBVIOUS
<1>1. TypeOK /\ Serialized /\ [Next]_vars => [Up /\ Up' /\ plane' # plane => plane'.rev > plane.rev]_vars
  <2> SUFFICES ASSUME TypeOK, Serialized, [Next]_vars, Up, Up', plane' # plane
               PROVE  plane'.rev > plane.rev
    OBVIOUS
  <2>1. ReloadOK
    BY PlaneStep
  <2>2. plane'.rev = consumer.ev.rev /\ plane.rev < consumer.ev.rev
    BY <2>1 DEF ReloadOK, Serialized
  <2>3. plane.rev \in Nat /\ consumer.ev.rev \in Nat
    BY DEF TypeOK
  <2> QED
    BY <2>2, <2>3
<1>2. TypeOK /\ Serialized /\ [Next]_vars => Serialized'
  BY SerializedStep
<1> QED
  BY <1>1, <1>2, SerializedInit, TypeCorrect, PTL DEF Spec, RunningNeverRegresses

-----------------------------------------------------------------------------
(* The refinement.                                                         *)

runningBar == IF Up THEN plane ELSE [rev |-> 0, cfg |-> Seed]

\* The center, with its channel, catch-ups, failed applies and crashes, behaves as
\* an append-only log whose newest applied entry only moves forward.
THEOREM CenterImplementsLog ==
  NoInPlaceEdits /\ SinglePublisher => (Spec => ImplementsRevisionLog)
<1> SUFFICES ASSUME NoInPlaceEdits, SinglePublisher PROVE Spec => ImplementsRevisionLog
  OBVIOUS
<1>1. Init => Log!LogInit
  BY DEF Init, Log!LogInit, Log!Entry, Up
<1>2. TypeOK /\ PointersMatchRows /\ Serialized /\ [Next]_vars => [Log!LogNext]_<<store, runningBar>>
  <2> SUFFICES ASSUME TypeOK, PointersMatchRows, Serialized, [Next]_vars
               PROVE  [Log!LogNext]_<<store, runningBar>>
    OBVIOUS
  <2>0. /\ req \in [Publisher -> Request] /\ store \in Seq(Config) /\ consumer \in Consumer
        /\ Len(store) \in Nat /\ plane.rev \in 1..Len(store)
        /\ consumer.ev.rev \in 1..Len(store)
    BY DEF TypeOK
  <2>1. CASE UNCHANGED <<store, plane, consumer.pc>>
    BY <2>1 DEF runningBar, Up
  <2>2. ASSUME NEW p \in Publisher, Publishing(p) PROVE [Log!LogNext]_<<store, runningBar>>
    <3>1. CASE AppendOK(p)
      <4>1. req[p].body \in Config /\ store' = Append(store, req[p].body)
        BY <2>0, <3>1 DEF AppendOK, Request
      <4>2. UNCHANGED runningBar
        BY <3>1 DEF AppendOK, runningBar, planeVars, Up
      <4> QED
        BY <4>1, <4>2 DEF Log!LogNext, Log!PublishEntry, runningBar
    <3>2. CASE UNCHANGED <<store, plane, consumer>>
      BY <2>1, <3>2
    <3> QED
      BY <2>2, <3>1, <3>2 DEF Publishing, StartPublish, StartSite, StartAIKey, EditAIKey, StartRollback,
           Begin, Encode, Compare, AppendError, Install, Settle, GiveUp, planeVars, centerVars
  <2>3. CASE Consuming
    <3>1. Up /\ Up' /\ UNCHANGED store
      <4>1. Continue(consumer.path, consumer.ok) \in {"missed", "select", "drain"}
        BY <2>0 DEF Consumer, Continue
      <4> QED
        BY <2>0, <2>3, <4>1 DEF Consuming, Subscribe, CheckMissed, Snapshot, Receive, Drain, ReloadOK,
           ReloadFail, SetApplyStatus, After, Consumer, AfterStale, Up, centerVars
    <3>2. CASE plane' = plane
      BY <3>1, <3>2 DEF runningBar
    <3>3. CASE plane' # plane
      <4>1. ReloadOK
        BY <3>1, <3>3, PlaneStep
      <4>2. plane' = [rev |-> consumer.ev.rev, cfg |-> store[consumer.ev.rev]]
            /\ plane.rev < consumer.ev.rev
        BY <4>1 DEF ReloadOK, Applied, PointersMatchRows, Serialized
      <4>3. consumer.ev.rev \in (plane.rev + 1)..Len(store) /\ plane.rev # 0
        BY <2>0, <4>2
      <4>4. runningBar = plane /\ runningBar' = plane'
        BY <3>1 DEF runningBar
      <4> QED
        BY <3>1, <4>2, <4>3, <4>4 DEF Log!LogNext, Log!Advance, Log!Entry, runningBar
    <3> QED
      BY <3>2, <3>3
  <2>4. CASE Crash
    <3>1. Up /\ ~Up' /\ UNCHANGED store /\ plane.rev # 0
      BY <2>0, <2>4 DEF Crash, Up, centerVars
    <3> QED
      BY <3>1 DEF Log!LogNext, Log!Stop, Log!Down, runningBar
  <2>5. CASE Boot
    <3>1. ~Up /\ Up' /\ UNCHANGED store
      BY <2>0, <2>5 DEF Boot, Up, Consumer
    <3>2. plane' = [rev |-> Len(store), cfg |-> store[Len(store)]]
      BY <2>5 DEF Boot, BootRev
    <3> QED
      BY <3>1, <3>2 DEF Log!LogNext, Log!Resume, Log!Entry, runningBar
  <2>6. CASE UNCHANGED vars
    BY <2>1, <2>6 DEF vars
  <2> QED
    BY <2>2, <2>3, <2>4, <2>5, <2>6 DEF Next
<1>3. TypeOK /\ Serialized /\ [Next]_vars => Serialized'
  BY SerializedStep
<1>4. TypeOK /\ PointersMatchRows /\ [Next]_vars => PointersMatchRows'
  BY PointersStep
<1> QED
  BY <1>1, <1>2, <1>3, <1>4, SerializedInit, PointersInit, TypeCorrect, PTL
     DEF Spec, ImplementsRevisionLog, Log!LogSpec, runningBar
=============================================================================
