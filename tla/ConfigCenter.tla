---------------------------- MODULE ConfigCenter ----------------------------
(***************************************************************************)
(* The configuration center (internal/configcenter), the revision store    *)
(* under it (internal/store), the console handlers that publish            *)
(* (internal/api) and the hot-reload consumer that drives the data plane   *)
(* (Consume, internal/proxy.Handler.Reload, hotReloadAfter).               *)
(*                                                                         *)
(* A configuration is a function from its sections (a site, the policy     *)
(* block, the ai block) to a value.  Revisions are the positions of the    *)
(* sequence store, as the AUTOINCREMENT ids of the revisions table are.    *)
(* *config.Config pointers are shared: the object allocated by the request *)
(* that stored revision r is named r, heap[r] is what that pointer reaches *)
(* now and store[r] the JSON row that was written.                         *)
(***************************************************************************)
EXTENDS Naturals, Sequences, FiniteSetsExt

CONSTANTS
  Publisher,       \* console requests that may run at the same time
  Section,         \* the sections of a configuration
  InPlaceSection,  \* sections a handler edits in the live object (ai)
  Value,           \* what a section can hold
  Invalid,         \* values Config.Validate rejects
  Unbuildable,     \* valid values buildState fails on (unreadable certificate...)
  Builder,         \* the side components hotReloadAfter rebuilds
  Fallible,        \* those whose constructor can fail (log and access shippers, AI)
  Default,         \* the value of every section of the seed
  QueueCap,        \* capacity of the subscribe channel (8 in the code)
  HistoryLimit,    \* applyHistoryLimit (64 in the code)
  MaxRev,          \* bound: revisions ever stored
  MaxCrash,        \* bound: process restarts
  MaxFlaky         \* bound: builds that fail for a reason outside the config

ASSUME ConfigCenterAssumption ==
  /\ Section # {} /\ InPlaceSection \subseteq Section
  /\ Invalid \subseteq Value /\ Unbuildable \subseteq Value
  /\ Fallible \subseteq Builder
  /\ Default \in Value \ (Invalid \cup Unbuildable)
  /\ QueueCap \in Nat \ {0} /\ HistoryLimit \in Nat \ {0} /\ MaxRev \in Nat \ {0}
  /\ MaxCrash \in Nat /\ MaxFlaky \in Nat

VARIABLES
  store,      \* the revisions table: a sequence of configurations
  heap,       \* heap[r]: what the config object created for revision r holds now
  center,     \* Center.rev, and the name of the object Center.cfg points to
  queue,      \* the consumer's subscribe channel
  subscribed, \* the consumer's channel is in Center.subs
  results,    \* Center.applyResults
  lastApply,  \* Center.lastApply
  plane,      \* planeState: the revision and the content it was built from
  side,       \* what each side component was last built from
  consumer,   \* the Consume goroutine
  req,        \* the request each publisher is serving
  crashes,    \* restarts so far
  flaky       \* transient build failures so far

vars == <<store, heap, center, queue, subscribed, results, lastApply, plane,
          side, consumer, req, crashes, flaky>>
centerVars == <<store, heap, center>>
planeVars  == <<results, lastApply, plane, side, flaky>>

Rev    == 1..MaxRev
Config == [Section -> Value]
Event  == [rev : Rev, obj : Rev]

Seed == [s \in Section |-> Default]

\* The section field of a request that edits none.
AnySection == CHOOSE s \in Section : TRUE

\* Config.Validate.
Valid(cfg) == \A s \in Section : cfg[s] \notin Invalid

\* buildState finds everything the configuration names.
Buildable(cfg) == \A s \in Section : cfg[s] \notin Unbuildable

NoEvent == [rev |-> 1, obj |-> 1]

\* A side component no constructor has succeeded for since boot: none runs.
NotBuilt == [rev |-> 0, cfg |-> Seed]

\* The side components after their builders ran: a constructor that fails leaves
\* what was there (rebuildShipper, rebuildAccess, Supervisor.Rebuild).
Rebuilt(built, old, kept) == [c \in Builder |-> IF c \in kept THEN old[c] ELSE built]

\* A request: what it does (op), the section it edits (sec), the object it
\* publishes (obj, 0 = one of its own), the encoded document (body), the
\* revision it stored (rev) and the outcome it reported (reply).
Request ==
  [pc    : {"idle", "edit", "encode", "compare", "append", "install", "wait"},
   op    : {"none", "publish", "site", "aikey", "rollback"},
   sec   : Section,
   obj   : Rev \cup {0},
   body  : Config,
   rev   : Rev \cup {0},
   reply : {"none", "rejected", "nochanges", "storeerror", "applied", "failed", "pending"}]

NoRequest(reply, rev) ==
  [pc |-> "idle", op |-> "none", sec |-> AnySection, obj |-> 0,
   body |-> Seed, rev |-> rev, reply |-> reply]

Consumer ==
  [pc   : {"down", "boot", "missed", "snapshot", "select", "drain", "reload", "status", "after"},
   path : {"select", "drain", "catchup"},
   ev   : Event,
   ok   : BOOLEAN]

Up == consumer.pc # "down"

Init ==
  /\ store = <<Seed>>
  /\ heap = <<Seed>>
  /\ center = [rev |-> 1, obj |-> 1]
  /\ queue = <<>>
  /\ subscribed = FALSE
  /\ results = [r \in Rev |-> "none"]
  /\ lastApply = [rev |-> 0, status |-> "none"]
  /\ plane = [rev |-> 1, cfg |-> Seed]
  /\ \E kept \in SUBSET Fallible : side = Rebuilt(plane, [c \in Builder |-> NotBuilt], kept)
  /\ consumer = [pc |-> "boot", path |-> "catchup", ev |-> NoEvent, ok |-> TRUE]
  /\ req = [p \in Publisher |-> NoRequest("none", 0)]
  /\ crashes = 0
  /\ flaky = 0

-----------------------------------------------------------------------------
(* The publishers.                                                         *)

Begin(p, pc, op, sec, obj, body) ==
  /\ Up
  /\ req[p].pc = "idle"
  /\ req' = [req EXCEPT ![p] = [pc |-> pc, op |-> op, sec |-> sec, obj |-> obj,
                                body |-> body, rev |-> 0, reply |-> "none"]]
  /\ UNCHANGED <<store, center, queue, subscribed, planeVars, consumer, crashes>>

\* handlePublish: a whole document typed by the operator.
StartPublish(p) ==
  /\ \E cfg \in Config : Begin(p, "encode", "publish", AnySection, 0, cfg)
  /\ UNCHANGED heap

\* PublishSite: Current(), then the section replaced in a copy.
StartSite(p) ==
  /\ \E s \in Section \ InPlaceSection, v \in Value :
       Begin(p, "encode", "site", s, 0, [heap[center.obj] EXCEPT ![s] = v])
  /\ UNCHANGED heap

\* updateAIProvider takes the live pointer and computes the new ai section from what
\* it reads there; an unchanged section ends the request.
StartAIKey(p) ==
  /\ \E s \in InPlaceSection, v \in Value \ (Invalid \cup Unbuildable) :
       /\ v # heap[center.obj][s]
       /\ Begin(p, "edit", "aikey", s, center.obj, [Seed EXCEPT ![s] = v])
  /\ UNCHANGED heap

\* updateAIProvider writes the section into that object before anything is
\* published, whatever happened to it meanwhile.
EditAIKey(p) ==
  /\ req[p].pc = "edit"
  /\ heap' = [heap EXCEPT ![req[p].obj] = [@ EXCEPT ![req[p].sec] = req[p].body[req[p].sec]]]
  /\ req' = [req EXCEPT ![p].pc = "encode"]
  /\ UNCHANGED <<store, center, queue, subscribed, planeVars, consumer, crashes>>

\* Rollback: the payload of an existing revision.
StartRollback(p) ==
  /\ \E id \in DOMAIN store : Begin(p, "encode", "rollback", AnySection, 0, store[id])
  /\ UNCHANGED heap

Finish(p, reply, rev) == req' = [req EXCEPT ![p] = NoRequest(reply, rev)]

\* What the submitted pointer holds when it is read.
Submitted(p) == IF req[p].obj = 0 THEN req[p].body ELSE heap[req[p].obj]

\* Bug of Accepts: the document is stored without Config.Validate.
AcceptsAnything(cfg) == cfg \in Config
Accepts(cfg) == Valid(cfg)

\* publishInternal: Validate and Marshal.
Encode(p) ==
  /\ req[p].pc = "encode"
  /\ IF Accepts(Submitted(p))
     THEN req' = [req EXCEPT ![p].pc = "compare", ![p].body = Submitted(p)]
     ELSE Finish(p, "rejected", 0)
  /\ UNCHANGED <<centerVars, queue, subscribed, planeVars, consumer, crashes>>

\* publishInternal: the no-changes check, against the stored row of Current().  A
\* row that cannot be read skips the check.
Compare(p) ==
  /\ req[p].pc = "compare"
  /\ \E readable \in BOOLEAN :
       IF readable /\ req[p].op # "rollback" /\ store[center.rev] = req[p].body
       THEN Finish(p, "nochanges", 0)
       ELSE req' = [req EXCEPT ![p].pc = "append"]
  /\ UNCHANGED <<centerVars, queue, subscribed, planeVars, consumer, crashes>>

\* Bug of NextRev: a gap in the AUTOINCREMENT ids that LastInsertId skips.
NextRevWithGap == Len(store) + 2
NextRev == Len(store) + 1

\* AppendRevision inserted the row.  Nothing orders this against other requests.
AppendOK(p) ==
  /\ req[p].pc = "append"
  /\ Len(store) < MaxRev
  /\ LET rev == NextRev
     IN /\ store' = Append(store, req[p].body)
        /\ heap' = Append(heap, req[p].body)
        /\ req' = [req EXCEPT ![p].pc = "install", ![p].rev = rev,
                              ![p].obj = IF @ = 0 THEN rev ELSE @]
  /\ UNCHANGED <<center, queue, subscribed, planeVars, consumer, crashes>>

\* AppendRevision failed (disk full, database locked).
AppendError(p) ==
  /\ req[p].pc = "append"
  /\ Finish(p, "storeerror", 0)
  /\ UNCHANGED <<centerVars, queue, subscribed, planeVars, consumer, crashes>>

HasRoom(q) == Len(q) < QueueCap

\* Bug of Installed: a publish whose event finds the channel full returns early.
InstalledIfSent(p) ==
  IF HasRoom(queue) THEN [rev |-> req[p].rev, obj |-> req[p].obj] ELSE center
Installed(p) == [rev |-> req[p].rev, obj |-> req[p].obj]

\* The critical section of publishInternal: install, then fan out without blocking.
Install(p) ==
  /\ req[p].pc = "install"
  /\ center' = Installed(p)
  /\ queue' = IF subscribed /\ HasRoom(queue)
              THEN Append(queue, [rev |-> req[p].rev, obj |-> req[p].obj])
              ELSE queue
  /\ req' = [req EXCEPT ![p].pc = "wait"]
  /\ UNCHANGED <<store, heap, subscribed, planeVars, consumer, crashes>>

\* Bug of Settles: the old check of the comment above applyResults, where
\* the outcome of a newer revision stands in.
SettlesNewer(rev, r) == results[r] # "none" /\ r >= rev
Settles(rev, r) == results[r] # "none" /\ r = rev

\* WaitForApply answers with the recorded outcome.
Settle(p) ==
  /\ req[p].pc = "wait"
  /\ req[p].op # "aikey"
  /\ \E r \in Rev : Settles(req[p].rev, r) /\ Finish(p, results[r], req[p].rev)
  /\ UNCHANGED <<centerVars, queue, subscribed, planeVars, consumer, crashes>>

\* WaitForApply times out or finds no subscriber; the in-place handlers never wait.
GiveUp(p) ==
  /\ req[p].pc = "wait"
  /\ Finish(p, "pending", req[p].rev)
  /\ UNCHANGED <<centerVars, queue, subscribed, planeVars, consumer, crashes>>

-----------------------------------------------------------------------------
(* The consumer goroutine.                                                 *)

\* Subscribe.
Subscribe ==
  /\ consumer.pc = "boot"
  /\ subscribed' = TRUE
  /\ consumer' = [consumer EXCEPT !.pc = "missed"]
  /\ UNCHANGED <<centerVars, queue, planeVars, req, crashes>>

\* catchUp: MissedSince(RunningRevision()).
CheckMissed ==
  /\ consumer.pc = "missed"
  /\ consumer' = [consumer EXCEPT !.pc = IF plane.rev < center.rev THEN "snapshot" ELSE "select"]
  /\ UNCHANGED <<centerVars, queue, subscribed, planeVars, req, crashes>>

\* catchUp: Current(), a second critical section.
Snapshot ==
  /\ consumer.pc = "snapshot"
  /\ consumer' = [consumer EXCEPT !.pc = "reload", !.path = "catchup", !.ev = center]
  /\ UNCHANGED <<centerVars, queue, subscribed, planeVars, req, crashes>>

\* Bug of NewerThanRunning: the monotonic guard of Consume dropped.
AnyRevision(rev) == rev \in Rev
NewerThanRunning(rev) == rev > plane.rev

\* Bug of AfterStale: a skipped event goes back to the select with no
\* re-check (the state before review C3).
AfterStaleIdle == "select"
AfterStale == "missed"

\* The main select receives an event.
Receive ==
  /\ consumer.pc = "select"
  /\ queue # <<>>
  /\ queue' = Tail(queue)
  /\ consumer' = IF NewerThanRunning(Head(queue).rev)
                 THEN [consumer EXCEPT !.pc = "reload", !.path = "select", !.ev = Head(queue)]
                 ELSE [consumer EXCEPT !.pc = AfterStale]
  /\ UNCHANGED <<centerVars, subscribed, planeVars, req, crashes>>

\* The drain loop: one queued event, or its end.
Drain ==
  /\ consumer.pc = "drain"
  /\ IF queue = <<>>
     THEN /\ consumer' = [consumer EXCEPT !.pc = "missed"]
          /\ UNCHANGED queue
     ELSE /\ queue' = Tail(queue)
          /\ consumer' = IF NewerThanRunning(Head(queue).rev)
                         THEN [consumer EXCEPT !.pc = "reload", !.path = "drain", !.ev = Head(queue)]
                         ELSE consumer
  /\ UNCHANGED <<centerVars, subscribed, planeVars, req, crashes>>

\* Bug of Applied: the consumer reloads Current() instead of the event's snapshot.
AppliedCurrent(ev) == heap[center.obj]
Applied(ev) == heap[ev.obj]

\* applyOne: Reload built the new plane and swapped it in.
ReloadOK ==
  /\ consumer.pc = "reload"
  /\ Buildable(Applied(consumer.ev))
  /\ plane' = [rev |-> consumer.ev.rev, cfg |-> Applied(consumer.ev)]
  /\ consumer' = [consumer EXCEPT !.pc = "status", !.ok = TRUE]
  /\ UNCHANGED <<centerVars, queue, subscribed, results, lastApply, side, req, crashes, flaky>>

\* applyOne: Reload failed and kept the plane.
ReloadFail ==
  /\ consumer.pc = "reload"
  /\ \/ ~Buildable(Applied(consumer.ev)) /\ UNCHANGED flaky
     \/ flaky < MaxFlaky /\ flaky' = flaky + 1
  /\ consumer' = [consumer EXCEPT !.pc = "status", !.ok = FALSE]
  /\ UNCHANGED <<centerVars, queue, subscribed, results, lastApply, plane, side, req, crashes>>

StatusOf(ok) == IF ok THEN "applied" ELSE "failed"

Recorded(res) == {r \in Rev : res[r] # "none"}

Prune(res) ==
  IF Cardinality(Recorded(res)) > HistoryLimit
  THEN [res EXCEPT ![Min(Recorded(res))] = "none"]
  ELSE res

\* applyOne: SetApplyStatus.
SetApplyStatus ==
  /\ consumer.pc = "status"
  /\ lastApply' = [rev |-> consumer.ev.rev, status |-> StatusOf(consumer.ok)]
  /\ results' = Prune([results EXCEPT ![consumer.ev.rev] = StatusOf(consumer.ok)])
  /\ consumer' = [consumer EXCEPT !.pc = "after"]
  /\ UNCHANGED <<centerVars, queue, subscribed, plane, side, req, crashes, flaky>>

\* Bug of RunsBuilders: hotReloadAfter without its gate on the apply outcome.
RunsBuildersAlways(ok) == TRUE
RunsBuilders(ok) == ok

\* Where Consume goes after an apply attempt: a failed catch-up returns to the
\* select, every other failure tries to converge, a success drains or re-checks.
Continue(path, ok) ==
  CASE path = "catchup" /\ ok  -> "missed"
    [] path = "catchup" /\ ~ok -> "select"
    [] path # "catchup" /\ ok  -> "drain"
    [] OTHER                   -> "missed"

\* applyOne: the after callback, hotReloadAfter.  The apply counts as done whichever
\* constructors fail.
After ==
  /\ consumer.pc = "after"
  /\ IF RunsBuilders(consumer.ok)
     THEN \E kept \in SUBSET Fallible :
            side' = Rebuilt([rev |-> consumer.ev.rev, cfg |-> Applied(consumer.ev)], side, kept)
     ELSE UNCHANGED side
  /\ consumer' = [consumer EXCEPT !.pc = Continue(consumer.path, consumer.ok),
                                  !.ev = NoEvent, !.ok = TRUE]
  /\ UNCHANGED <<centerVars, queue, subscribed, results, lastApply, plane, req, crashes, flaky>>

-----------------------------------------------------------------------------
(* Crash and restart: everything but the database is lost.                 *)

Crash ==
  /\ Up
  /\ crashes < MaxCrash
  /\ crashes' = crashes + 1
  /\ consumer' = [pc |-> "down", path |-> "catchup", ev |-> NoEvent, ok |-> TRUE]
  /\ queue' = <<>>
  /\ subscribed' = FALSE
  /\ results' = [r \in Rev |-> "none"]
  /\ lastApply' = [rev |-> 0, status |-> "none"]
  /\ req' = [p \in Publisher |-> NoRequest("none", 0)]
  /\ UNCHANGED <<centerVars, plane, side, flaky>>

\* Bug of BootRev: the seed file wins over the stored revisions.
BootRevSeed == 1
BootRev == Len(store)

\* configcenter.Open decodes and validates the newest row; main builds the plane
\* and the side components from it.  A failure of either exits the process.
Boot ==
  /\ ~Up
  /\ Valid(store[BootRev]) /\ Buildable(store[BootRev])
  /\ center' = [rev |-> BootRev, obj |-> BootRev]
  /\ heap' = store
  /\ plane' = [rev |-> BootRev, cfg |-> store[BootRev]]
  /\ \E kept \in SUBSET Fallible : side' = Rebuilt(plane', [c \in Builder |-> NotBuilt], kept)
  /\ consumer' = [consumer EXCEPT !.pc = "boot"]
  /\ UNCHANGED <<store, queue, subscribed, results, lastApply, req, crashes, flaky>>

-----------------------------------------------------------------------------

Publishing(p) ==
  \/ StartPublish(p) \/ StartSite(p) \/ StartAIKey(p) \/ EditAIKey(p) \/ StartRollback(p)
  \/ Encode(p) \/ Compare(p) \/ AppendOK(p) \/ AppendError(p) \/ Install(p)
  \/ Settle(p) \/ GiveUp(p)

Consuming ==
  \/ Subscribe \/ CheckMissed \/ Snapshot \/ Receive \/ Drain
  \/ ReloadOK \/ ReloadFail \/ SetApplyStatus \/ After

Next == (\E p \in Publisher : Publishing(p)) \/ Consuming \/ Crash \/ Boot

Spec == Init /\ [][Next]_vars

\* The goroutine of Consume keeps being scheduled; a service manager restarts
\* the process.  Nothing is assumed of the publishers.
FairSpec == Spec /\ WF_vars(Consuming) /\ WF_vars(Boot)

-----------------------------------------------------------------------------
(* What the configuration center promises.                                 *)

\* An edit about to be made writes a valid, buildable value into an ai section.
PendingEdit(r) ==
  r.pc = "edit" =>
    /\ r.obj # 0 /\ r.sec \in InPlaceSection /\ r.op = "aikey"
    /\ r.body[r.sec] \in Value \ (Invalid \cup Unbuildable)

\* Every variable keeps its type.
TypeOK ==
  /\ store \in Seq(Config) /\ heap \in Seq(Config)
  /\ Len(store) \in Rev /\ Len(heap) = Len(store)
  /\ center \in [rev : 1..Len(store), obj : 1..Len(store)]
  /\ queue \in Seq([rev : 1..Len(store), obj : 1..Len(store)])
  /\ subscribed \in BOOLEAN
  /\ results \in [Rev -> {"none", "applied", "failed"}]
  /\ lastApply \in [rev : Rev \cup {0}, status : {"none", "applied", "failed"}]
  /\ plane \in [rev : 1..Len(store), cfg : Config]
  /\ side \in [Builder -> [rev : 0..Len(store), cfg : Config]]
  /\ consumer \in Consumer
  /\ consumer.ev \in [rev : 1..Len(store), obj : 1..Len(store)]
  /\ req \in [Publisher -> Request]
  /\ \A p \in Publisher :
       req[p].obj \in 0..Len(store) /\ req[p].rev \in 0..Len(store)
  /\ \A p \in Publisher :
       /\ req[p].pc \in {"install", "wait"} => req[p].obj # 0 /\ req[p].rev # 0
       /\ PendingEdit(req[p])
  /\ crashes \in Nat /\ flaky \in Nat

\* Console requests never overlap.
SinglePublisher == \A p, q \in Publisher : p = q

\* Between two apply attempts of the consumer.
Resting == consumer.pc \in {"boot", "missed", "snapshot", "select", "drain"}

\* The live configuration and every stored revision passed Config.Validate,
\* whatever the overlap of requests: what PublishSite relies on when it says a
\* validation failure can only come from the submitted site (center.go:178).
LiveConfigAlwaysValid ==
  /\ Valid(heap[center.obj])
  /\ \A r \in DOMAIN store : Valid(store[r])

\* The plane and the side components run exactly the documents stored under the
\* revisions they report, however late an event is handled (consume.go:9-13).
PlaneRunsItsRevision ==
  /\ plane.cfg = store[plane.rev]
  /\ \A c \in Builder : side[c].rev # 0 => side[c].cfg = store[side[c].rev]

\* A side component only ever moves to the revision the traffic plane has just
\* applied, so none answers with settings the plane refused (main.go:57-65); and
\* after every attempt each is on the plane's revision, but one whose constructor
\* failed, which keeps what it had (main.go:145-149, 174-177).
SideFollowsPlane ==
  [][\A c \in Builder :
       /\ side'[c] # side[c] => side'[c].rev = plane'.rev \/ (c \in Fallible /\ ~Up)
       /\ Resting' /\ c \notin Fallible => side'[c].rev = plane'.rev]_vars

\* No request is told "applied" for a revision the plane cannot have built, nor
\* "failed" for one that always builds, as long as nobody edited its object: a newer
\* outcome never stands in for the one waited for (center.go:313-315).
ReplyIsHonest ==
  \A p \in Publisher :
    LET r == req[p].rev IN
    r # 0 /\ heap[r] = store[r] =>
      /\ req[p].reply = "applied" => Buildable(store[r])
      /\ req[p].reply = "failed" /\ MaxFlaky = 0 => ~Buildable(store[r])

\* /api/status reads lastApply and the running revision: between attempts, the
\* last outcome says "applied" exactly when the plane is on that revision.
StatusTellsThePlane ==
  Resting /\ lastApply.rev # 0 =>
    (lastApply.status = "applied" <=> lastApply.rev = plane.rev)

\* Pruning the bounded registry never loses the outcome just reported, which a
\* publisher may still be polling for (center.go:277-285).
NewestOutcomeKept ==
  Resting /\ lastApply.rev # 0 => results[lastApply.rev] = lastApply.status

\* While the process lives, the plane only moves to newer revisions
\* (consume.go:46-55).
RunningNeverRegresses ==
  [][Up /\ Up' /\ plane' # plane => plane'.rev > plane.rev]_vars

\* With every request finished, the active revision is the newest stored one
\* (store.go:3).
CurrentIsNewest ==
  Up /\ (\A p \in Publisher : req[p].pc = "idle") => center.rev = Len(store)

\* With every request finished, the live configuration is the one stored as the active
\* revision: "on any error the current config is untouched" (center.go:110-111).
LiveMatchesStored ==
  Up /\ (\A p \in Publisher : req[p].pc = "idle") => heap[center.obj] = store[center.rev]

\* A single-site publish stores a document that differs from the revision before
\* it in that site only: no other operator's site is undone (center.go:173-180).
SitePublishKeepsOtherSites ==
  [][\A p \in Publisher :
       req[p].op = "site" /\ req[p].pc = "append" /\ req'[p].pc = "install" =>
         \A s \in Section \ {req[p].sec} :
           store'[Len(store')][s] = store[Len(store)][s]]_vars

\* An active revision that can be built is run, or superseded, also when the
\* bounded channel dropped its event (consume.go:34-44); only a build that failed
\* for a reason outside the configuration may leave it waiting.
NewestRevisionRuns ==
  \A r \in Rev :
    (Up /\ center.rev = r /\ Buildable(store[r]))
      ~> (plane.rev >= r \/ center.rev # r \/ ~Up \/ flaky # 0)

-----------------------------------------------------------------------------
(* The inductive strengthenings the theorems of ConfigCenterProofs use.    *)

\* No handler edits the live document in place.
NoInPlaceEdits == InPlaceSection = {}

\* Everything that will be stored or installed has passed Accepts.
OnlyAccepted ==
  /\ \A r \in DOMAIN heap : Valid(heap[r])
  /\ \A r \in DOMAIN store : Valid(store[r])
  /\ \A p \in Publisher : req[p].pc \in {"compare", "append"} => Valid(req[p].body)

\* Side components lag the plane exactly between ReloadOK and After.
SideInStep ==
  /\ consumer.pc \in {"status", "after"} /\ consumer.ok => plane.rev = consumer.ev.rev
  /\ Up /\ ~(consumer.pc \in {"status", "after"} /\ consumer.ok) =>
       \A c \in Builder \ Fallible : side[c].rev = plane.rev

\* Without in-place edits every pointer reaches the document of its revision.
PointersMatchRows ==
  /\ heap = store
  /\ center.obj = center.rev
  /\ \A i \in DOMAIN queue : queue[i].obj = queue[i].rev
  /\ consumer.ev.obj = consumer.ev.rev
  /\ \A p \in Publisher : IF req[p].pc \in {"install", "wait"}
                          THEN req[p].obj = req[p].rev
                          ELSE req[p].obj = 0

\* With requests one at a time, rows are installed in the order they are stored,
\* and what the consumer is about to reload is ahead of the plane.
Serialized ==
  /\ \A p \in Publisher :
       req[p].pc = "install" => req[p].rev = Len(store) /\ center.rev < Len(store)
  /\ Up /\ (\A p \in Publisher : req[p].pc # "install") => center.rev = Len(store)
  /\ ~Up => \A p \in Publisher : req[p].pc = "idle"
  /\ consumer.pc = "snapshot" => plane.rev < center.rev
  /\ consumer.pc = "reload" => plane.rev < consumer.ev.rev

-----------------------------------------------------------------------------
(* When requests do not overlap and nobody edits the live document, all of *)
(* this is a RevisionLog, down exactly while the process is.               *)

Log == INSTANCE RevisionLog WITH
         Document <- Config,
         First <- Seed,
         log <- store,
         running <- IF Up THEN plane ELSE [rev |-> 0, cfg |-> Seed]

\* The center with its bounded channel, catch-ups and failed applies implements
\* the append-only history with a forward-moving plane (ARCHITECTURE 4.2).
ImplementsRevisionLog == Log!LogSpec
=============================================================================
