---------------------------- MODULE PlaneReload -----------------------------
(***************************************************************************)
(* Handler.Reload (internal/proxy) step by step: the resources a hot       *)
(* reload opens, adopts and closes while requests are served from the      *)
(* snapshot they started on.                                               *)
(*                                                                         *)
(* ConfigCenter takes Reload as one step; this module is what that step    *)
(* does.  A site is named by its first domain.  Every site has a           *)
(* certificate file and active health probes: a site without them has      *)
(* less to lose.                                                           *)
(***************************************************************************)
EXTENDS Naturals, Sequences

CONSTANTS
  Site,       \* sites, by first domain
  Def,        \* site definitions (upstreams, probes, security block)
  Group,      \* ip_groups sections, up to the signature groupSig compares
  Document,   \* the configurations the consumer may reload
  Start,      \* the configuration the process booted on
  Request,    \* requests served at the same time
  MaxReload,  \* bound: calls of Reload
  MaxWrite    \* bound: replacements of each certificate file

\* A geo section names no database, the embedded one, or a file.
Geo == {"none", "embedded", "file"}

\* stages: ACL, geo, captcha, auth, coraza, response filter, matcher, bot;
\* pool: NewPool; cert: reading or parsing the key pair; dup: a domain twice.
BuildFailures == {"stages", "pool", "cert", "dup"}

PlaneConfig ==
  [sites : UNION {[D -> Def] : D \in SUBSET Site}, groups : Group, geo : Geo]

ASSUME PlaneReloadAssumption ==
  /\ Document \subseteq PlaneConfig /\ Start \in PlaneConfig
  /\ MaxReload \in Nat /\ MaxWrite \in Nat

VARIABLES
  plane,     \* Handler.state: the snapshots swapped in so far, the last one serving
  build,     \* the Reload in progress
  attempts,  \* calls of Reload so far
  failed,    \* the ways in which builds have failed so far
  probing,   \* the pools whose probeLoop runs
  ipmgr,     \* Handler.ipmgr
  refreshed, \* the managers whose refresh loops run
  embedded,  \* the process-wide geoip reader is open
  file,      \* version of each site's certificate file on disk
  req        \* the requests

vars == <<plane, build, attempts, failed, probing, ipmgr, refreshed, embedded, file, req>>

\* A Pool, named by where it was opened; a siteRuntime; an ipgroups.Manager.
Attempt == 0..MaxReload
Version == 0..MaxWrite
Pool    == [site : Site, def : Def, born : Attempt]
Runtime == [pool : Pool, cert : Version, stamp : Version]
Manager == [groups : Group, born : Attempt]
Router  == UNION {[D -> Runtime] : D \in SUBSET Site}

\* A planeState, and the attempt that built it; keep belongs to its router, db to
\* its geo stage.
Snapshot == [cfg : PlaneConfig, router : Router, keep : SUBSET Pool, mgr : Manager,
             db : BOOLEAN, attempt : Attempt]

Serving  == plane[Len(plane)]
PoolsOf(router) == {router[s].pool : s \in DOMAIN router}

\* seen: the certificate files on disk when the Reload began.
NoBuild == [pc |-> "idle", cfg |-> Start, router |-> <<>>, site |-> "none", cert |-> 0,
            seen |-> [s \in Site |-> 0]]

\* A siteRuntime on a pool this attempt opens.
Opened(s, cfg, n) == [site |-> s, def |-> cfg.sites[s], born |-> n]

FirstRouter ==
  [s \in DOMAIN Start.sites |-> [pool |-> Opened(s, Start, 0), cert |-> 0, stamp |-> 0]]

Init ==
  /\ plane = <<[cfg |-> Start, router |-> FirstRouter, keep |-> {},
                mgr |-> [groups |-> Start.groups, born |-> 0], db |-> TRUE, attempt |-> 0]>>
  /\ build = NoBuild
  /\ attempts = 0
  /\ failed = {}
  /\ probing = PoolsOf(FirstRouter)
  /\ ipmgr = [groups |-> Start.groups, born |-> 0]
  /\ refreshed = {ipmgr}
  /\ embedded = TRUE
  /\ file = [s \in Site |-> 0]
  /\ req = [q \in Request |-> [pc |-> "idle", snap |-> 1, geo |-> "none"]]

-----------------------------------------------------------------------------
(* Reload.                                                                 *)

Managers(mgr) == (refreshed \ {ipmgr}) \cup {mgr}

\* ensureGroups: same signature, same manager; otherwise the old one is closed and
\* a new one fetched, before anything of the new configuration is built.
EnsureGroups(cfg) ==
  IF cfg.groups = ipmgr.groups
  THEN UNCHANGED <<ipmgr, refreshed>>
  ELSE /\ ipmgr' = [groups |-> cfg.groups, born |-> attempts + 1]
       /\ refreshed' = Managers(ipmgr')

BeginReload ==
  /\ build.pc = "idle"
  /\ attempts < MaxReload
  /\ attempts' = attempts + 1
  /\ \E cfg \in Document :
       /\ EnsureGroups(cfg)
       /\ build' = [NoBuild EXCEPT !.pc = "stages", !.cfg = cfg, !.seen = file]
  /\ UNCHANGED <<plane, failed, probing, embedded, file, req>>

\* The stages of the pipeline are built.
BuildStages ==
  /\ build.pc = "stages"
  /\ build' = [build EXCEPT !.pc = "router"]
  /\ UNCHANGED <<plane, attempts, failed, probing, ipmgr, refreshed, embedded, file, req>>

\* One of them fails; state.close releases those built before it.
StagesFail ==
  /\ build.pc = "stages"
  /\ build' = NoBuild
  /\ failed' = failed \cup {"stages"}
  /\ UNCHANGED <<plane, attempts, probing, ipmgr, refreshed, embedded, file, req>>

Missing == DOMAIN build.cfg.sites \ DOMAIN build.router

With(router, s, r) == [x \in DOMAIN router \cup {s} |-> IF x = s THEN r ELSE router[x]]

\* Bug of SiteUnchanged: the file stamp is compared, the definition is not.
SiteSameFile(s) == s \in DOMAIN Serving.router /\ file[s] = Serving.router[s].stamp

\* Another bug of SiteUnchanged: the definition is compared, the file is not.
SiteSameDef(s) ==
  s \in DOMAIN Serving.router /\ Serving.cfg.sites[s] = build.cfg.sites[s]
SiteUnchanged(s) ==
  /\ s \in DOMAIN Serving.router
  /\ Serving.cfg.sites[s] = build.cfg.sites[s]
  /\ file[s] = Serving.router[s].stamp

\* buildRouter: an unchanged site takes over pool, transport and certificate, and
\* the router being replaced is told to keep them.
AdoptSite(s) ==
  /\ build.pc = "router" /\ s \in Missing
  /\ SiteUnchanged(s)
  /\ build' = [build EXCEPT !.router = With(@, s, Serving.router[s])]
  /\ plane' = [plane EXCEPT ![Len(plane)].keep = @ \cup {Serving.router[s].pool}]
  /\ UNCHANGED <<attempts, failed, probing, ipmgr, refreshed, embedded, file, req>>

\* NewPool: the prober goroutine starts here.
OpenPool(s) ==
  /\ build.pc = "router" /\ s \in Missing
  /\ ~SiteUnchanged(s)
  /\ build' = [build EXCEPT !.pc = "cert", !.site = s]
  /\ probing' = probing \cup {Opened(s, build.cfg, attempts)}
  /\ UNCHANGED <<plane, attempts, failed, ipmgr, refreshed, embedded, file, req>>

\* The key pair is read ...
ReadCert ==
  /\ build.pc = "cert"
  /\ build' = [build EXCEPT !.pc = "stamp", !.cert = file[build.site]]
  /\ UNCHANGED <<plane, attempts, failed, probing, ipmgr, refreshed, embedded, file, req>>

Stamp(s) == file[s]

\* ... and then certFileStamp looks at the file again; the site is complete.
StampCert ==
  /\ build.pc = "stamp"
  /\ LET s == build.site
         r == [pool |-> Opened(s, build.cfg, attempts), cert |-> build.cert, stamp |-> Stamp(s)]
     IN build' = [build EXCEPT !.pc = "router", !.router = With(@, s, r),
                               !.site = "none", !.cert = 0]
  /\ UNCHANGED <<plane, attempts, failed, probing, ipmgr, refreshed, embedded, file, req>>

\* Bug of Abandoned: buildRouter returns the error without router.Close.
AbandonedNone == PoolsOf(<<>>)
Abandoned == PoolsOf(build.router)

\* router.Close on the router under construction: it stops every pool appended to
\* it so far, those adopted from the serving router too.
FailHere(kind) ==
  \/ kind = "pool" /\ build.pc = "router" /\ \E s \in Missing : ~SiteUnchanged(s)
  \/ kind = "dup" /\ build.pc = "router" /\ build.router # <<>>
  \/ kind = "cert" /\ build.pc = "cert"

RouterFails ==
  \E kind \in BuildFailures :
    /\ FailHere(kind)
    /\ failed' = failed \cup {kind}
    /\ probing' = probing \ Abandoned
    /\ build' = NoBuild
    /\ UNCHANGED <<plane, attempts, ipmgr, refreshed, embedded, file, req>>

Provider == ipmgr

\* The new state serves from here on.
Swap ==
  /\ build.pc = "router" /\ Missing = {}
  /\ plane' = Append(plane, [cfg |-> build.cfg, router |-> build.router, keep |-> {},
                             mgr |-> Provider, db |-> TRUE, attempt |-> attempts])
  /\ build' = [NoBuild EXCEPT !.pc = "close", !.seen = build.seen]
  /\ UNCHANGED <<attempts, failed, probing, ipmgr, refreshed, embedded, file, req>>

\* Bug of Kept: SiteRouter.Close forgets the pools the next router adopted.
KeptNothing(snap) == snap.keep \cap {}

Kept(snap) == snap.keep

OwnsDB(cfg) == cfg.geo = "file"

\* old.close(): the geo databases it opened, and its router's pools except those
\* the new router adopted.
CloseOld ==
  /\ build.pc = "close"
  /\ LET old == plane[Len(plane) - 1]
     IN /\ probing' = probing \ (PoolsOf(old.router) \ Kept(old))
        /\ plane' = [plane EXCEPT ![Len(plane) - 1].db = ~OwnsDB(old.cfg)]
        /\ embedded' = (embedded /\ ~(OwnsDB(old.cfg) /\ old.cfg.geo = "embedded"))
  /\ build' = NoBuild
  /\ UNCHANGED <<attempts, failed, ipmgr, refreshed, file, req>>

\* Somebody replaces the certificate file of a site.
WriteCert(s) ==
  /\ file[s] < MaxWrite
  /\ file' = [file EXCEPT ![s] = @ + 1]
  /\ UNCHANGED <<plane, build, attempts, failed, probing, ipmgr, refreshed, embedded, req>>

-----------------------------------------------------------------------------
(* Requests.                                                               *)

\* ServeHTTP loads the state once.
Arrive(q) ==
  /\ req[q].pc = "idle"
  /\ req' = [req EXCEPT ![q] = [pc |-> "inspect", snap |-> Len(plane), geo |-> "none"]]
  /\ UNCHANGED <<plane, build, attempts, failed, probing, ipmgr, refreshed, embedded, file>>

\* The database a snapshot's geo stage asks is open.
CanLookup(snap) ==
  CASE snap.cfg.geo = "embedded" -> embedded
    [] snap.cfg.geo = "file"     -> snap.db
    [] OTHER                     -> TRUE

\* Geo.Inspect: an error of Lookup lets the request pass.
Inspect(q) ==
  /\ req[q].pc = "inspect"
  /\ LET snap == plane[req[q].snap]
     IN req' = [req EXCEPT ![q].pc = "done",
                           ![q].geo = CASE snap.cfg.geo = "none" -> "none"
                                        [] CanLookup(snap)       -> "decided"
                                        [] OTHER                 -> "skipped"]
  /\ UNCHANGED <<plane, build, attempts, failed, probing, ipmgr, refreshed, embedded, file>>

\* The request is answered.
Leave(q) ==
  /\ req[q].pc = "done"
  /\ req' = [req EXCEPT ![q] = [pc |-> "idle", snap |-> 1, geo |-> "none"]]
  /\ UNCHANGED <<plane, build, attempts, failed, probing, ipmgr, refreshed, embedded, file>>

-----------------------------------------------------------------------------

Building ==
  \/ BuildStages \/ StagesFail \/ ReadCert \/ StampCert \/ RouterFails \/ Swap \/ CloseOld
  \/ \E s \in Site : AdoptSite(s) \/ OpenPool(s)

Next ==
  \/ BeginReload
  \/ Building
  \/ \E s \in Site : WriteCert(s)
  \/ \E q \in Request : Arrive(q) \/ Inspect(q) \/ Leave(q)

Spec == Init /\ [][Next]_vars

-----------------------------------------------------------------------------
(* What a reload promises.                                                 *)

\* No Reload is running.
AtRest == build.pc = "idle"

\* Every variable keeps its type.
TypeOK ==
  /\ plane \in Seq(Snapshot) /\ plane # <<>>
  /\ build \in [pc : {"idle", "stages", "router", "cert", "stamp", "close"}, cfg : PlaneConfig,
                router : Router, site : Site \cup {"none"}, cert : Version, seen : [Site -> Version]]
  /\ attempts \in Attempt
  /\ failed \subseteq BuildFailures
  /\ probing \subseteq Pool
  /\ ipmgr \in Manager /\ refreshed \subseteq Manager
  /\ embedded \in BOOLEAN
  /\ file \in [Site -> Version]
  /\ req \in [Request -> [pc : {"idle", "inspect", "done"}, snap : 1..Len(plane),
                          geo : {"none", "decided", "skipped"}]]

\* The serving router routes exactly the sites of its configuration, each to a pool
\* built from that very definition, adopted or new (router.go:158-163).
RouterMatchesConfig ==
  /\ DOMAIN Serving.router = DOMAIN Serving.cfg.sites
  /\ \A s \in DOMAIN Serving.router : Serving.router[s].pool.def = Serving.cfg.sites[s]

\* Unless a build failed in the router, every pool that takes traffic is being
\* probed, through any number of adoptions (router.go:149-152).
ServedPoolsProbed == failed \subseteq {"stages"} => PoolsOf(Serving.router) \subseteq probing

\* Unless a certificate could not be loaded, no prober runs between reloads for a
\* pool nobody routes to, whatever else failed (proxy.go:184-187).
NoOrphanProber == AtRest /\ "cert" \notin failed => probing \subseteq PoolsOf(Serving.router)

\* Whatever fails, exactly the handler's manager has refresh loops (proxy.go:94-95).
OneManager == refreshed = {ipmgr}

\* When the last reload succeeded, the lists the serving ACL looks up are the ones
\* the loops and the console's refresh button reach (proxy.go:88-90).
ServedGroupsRefreshed ==
  AtRest /\ Serving.attempt = attempts => Serving.mgr = ipmgr /\ Serving.mgr \in refreshed

\* A request that started on the embedded database is decided by its geo rules,
\* also when its snapshot is closed meanwhile (geo.go:223-229).
EmbeddedGeoDecides ==
  \A q \in Request : req[q].geo = "skipped" => plane[req[q].snap].cfg.geo = "file"

\* A replacement fell between ReadCert and StampCert of this runtime: its stamp is that of
\* a file it has not read, and every reload since took it for unchanged.
Mistaken(r) == r.pool.born < attempts /\ r.cert < r.stamp

\* After a reload every site serves what its certificate file held when the reload began,
\* or something newer: a file replaced under an unchanged path is not missed
\* (router.go:263-264), unless an earlier build had read and stamped two different files.
ReloadNoticesCert ==
  build.pc = "close" =>
    \A s \in DOMAIN Serving.router :
      Serving.router[s].cert >= build.seen[s] \/ Mistaken(Serving.router[s])

\* The same without the exception, as the comment has it: "so content swaps (same path)
\* invalidate the adopted runtime" (router.go:263-264).
ContentSwapsInvalidate ==
  build.pc = "close" =>
    \A s \in DOMAIN Serving.router : Serving.router[s].cert >= build.seen[s]

\* On any build error the current state is kept untouched (proxy.go:320-321): the
\* pools it serves from are still probed.
FailedReloadKeepsProbers == AtRest => PoolsOf(Serving.router) \subseteq probing
=============================================================================
