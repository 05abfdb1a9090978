-------------------------- MODULE PlaneReloadProofs ---------------------------
(***************************************************************************)
(* Theorems about PlaneReload: any sites, definitions and configurations,  *)
(* any number of reloads, of replaced certificate files and of requests;   *)
(* and about UpstreamPool, the pools that a reload opens: any weights, any *)
(* number of nodes.                                                        *)
(***************************************************************************)
EXTENDS PlaneReload, UpstreamPool, FiniteSetTheorems, WellFoundedInduction, TLAPS

USE PlaneReloadAssumption

-----------------------------------------------------------------------------
(* Routers and the pools they route to.                                    *)

LEMMA RouterType ==
  /\ \A router \in Router : DOMAIN router \subseteq Site
                            /\ \A s \in DOMAIN router : router[s] \in Runtime
  /\ <<>> \in Router /\ PoolsOf(<<>>) = {} /\ DOMAIN <<>> = {}
<1>1. ASSUME NEW router \in Router
      PROVE  DOMAIN router \subseteq Site /\ \A s \in DOMAIN router : router[s] \in Runtime
  BY <1>1 DEF Router
<1> DEFINE e == <<>>
<1>2. DOMAIN e = {}
  OBVIOUS
<1>3. e \in [{} -> Runtime]
  BY <1>2
<1> HIDE DEF e
<1>4. e \in Router
  BY <1>3 DEF Router
<1>5. PoolsOf(e) = {}
  BY <1>2 DEF PoolsOf
<1> QED
  BY <1>1, <1>2, <1>4, <1>5 DEF e

\* A router with one more site.
LEMMA WithEffect ==
  ASSUME NEW router \in Router, NEW s \in Site, s \notin DOMAIN router, NEW r \in Runtime
  PROVE  /\ With(router, s, r) \in Router
         /\ DOMAIN With(router, s, r) = DOMAIN router \cup {s}
         /\ With(router, s, r)[s] = r
         /\ \A x \in DOMAIN router : With(router, s, r)[x] = router[x]
         /\ PoolsOf(With(router, s, r)) = PoolsOf(router) \cup {r.pool}
<1> DEFINE D == DOMAIN router \cup {s}
           w == With(router, s, r)
<1>1. D \subseteq Site /\ \A x \in DOMAIN router : router[x] \in Runtime
  BY RouterType
<1>2. /\ DOMAIN w = D /\ w[s] = r /\ \A x \in DOMAIN router : w[x] = router[x]
      /\ w \in [D -> Runtime]
  BY <1>1 DEF With
<1> HIDE DEF w
<1>3. w \in Router
  BY <1>1, <1>2 DEF Router
<1>4. PoolsOf(w) = PoolsOf(router) \cup {r.pool}
  <2>1. ASSUME NEW p \in PoolsOf(w) PROVE p \in PoolsOf(router) \cup {r.pool}
    BY <1>2, <2>1 DEF PoolsOf
  <2>2. ASSUME NEW p \in PoolsOf(router) \cup {r.pool} PROVE p \in PoolsOf(w)
    BY <1>2, <2>2 DEF PoolsOf
  <2> QED
    BY <2>1, <2>2
<1> QED
  BY <1>2, <1>3, <1>4 DEF w

LEMMA PoolsType == \A router \in Router : PoolsOf(router) \subseteq Pool
<1> SUFFICES ASSUME NEW router \in Router, NEW s \in DOMAIN router PROVE router[s].pool \in Pool
  BY DEF PoolsOf
<1> QED
  BY RouterType DEF Runtime

-----------------------------------------------------------------------------
(* The invariant.                                                          *)

Working == build.pc \in {"stages", "router", "cert", "stamp"}
Fitting == build.pc \in {"cert", "stamp"}
NewPool == Opened(build.site, build.cfg, attempts)
Old     == plane[Len(plane) - 1]

\* The serving router: complete, and older than the attempt that would replace it.
Routed ==
  /\ DOMAIN Serving.router = DOMAIN Serving.cfg.sites
  /\ \A s \in DOMAIN Serving.router :
       /\ Serving.router[s].pool.def = Serving.cfg.sites[s]
       /\ Serving.router[s].pool.born <= Serving.attempt
       /\ Serving.router[s].cert <= Serving.router[s].stamp
  /\ Serving.keep \subseteq PoolsOf(Serving.router)
  /\ Serving.attempt <= attempts
  /\ Working => Serving.attempt < attempts

\* The content served is as new as the file was when the reload began.
Noticed(s, r) == r.cert >= build.seen[s] \/ Mistaken(r)

\* The router under construction: every pool is new, or kept by the one it came from.
Drafted ==
  /\ build.pc \in {"idle", "stages", "close"} => build.router = <<>>
  /\ \A s \in DOMAIN build.router :
       /\ s \in DOMAIN build.cfg.sites
       /\ build.router[s].pool.def = build.cfg.sites[s]
       /\ build.router[s].pool \in Serving.keep \/ build.router[s].pool.born = attempts
       /\ build.router[s].cert <= build.router[s].stamp
       /\ Noticed(s, build.router[s])
  /\ Fitting => build.site \in Missing
  /\ build.pc = "stamp" => build.cert <= file[build.site] /\ build.seen[build.site] <= build.cert
  /\ \A s \in Site : build.seen[s] <= file[s]

\* Who is probed: all that is served or drafted, and nothing else.  A pool that is kept
\* for a router that was given up is no longer probed.
Probed ==
  /\ failed \subseteq {"stages"} =>
       /\ PoolsOf(Serving.router) \cup PoolsOf(build.router) \subseteq probing
       /\ Fitting => NewPool \in probing
  /\ "cert" \notin failed =>
       \A p \in probing : \/ p \in PoolsOf(Serving.router) \cup PoolsOf(build.router)
                          \/ Fitting /\ p = NewPool
                          \/ build.pc = "close" /\ p \in PoolsOf(Old.router)
  /\ Serving.keep \cap probing \subseteq PoolsOf(build.router)

\* The snapshot about to be closed gives up exactly what the new one does not route to.
Closing ==
  build.pc = "close" =>
    /\ Len(plane) >= 2
    /\ PoolsOf(Serving.router) \cap PoolsOf(Old.router) \subseteq Old.keep
    /\ Old.keep \cap probing \subseteq PoolsOf(Serving.router)
    /\ \A s \in DOMAIN Serving.router : Noticed(s, Serving.router[s])

\* The lists: one manager is refreshed, and a snapshot of the last attempt uses it.
Listed == refreshed = {ipmgr} /\ (Serving.attempt = attempts => Serving.mgr = ipmgr)

Sound == Routed /\ Drafted /\ Probed /\ Closing /\ Listed

Builds == [pc : {"idle", "stages", "router", "cert", "stamp", "close"}, cfg : PlaneConfig,
           router : Router, site : Site \cup {"none"}, cert : Version, seen : [Site -> Version]]
Requests(n) == [pc : {"idle", "inspect", "done"}, snap : 1..n, geo : {"none", "decided", "skipped"}]

\* The parts of the type invariant.
PlaneType == plane \in Seq(Snapshot) /\ plane # <<>> /\ attempts \in Attempt
BuildType == build \in Builds /\ failed \subseteq BuildFailures /\ file \in [Site -> Version]
RestType  == probing \subseteq Pool /\ ipmgr \in Manager /\ refreshed \subseteq Manager /\ embedded \in BOOLEAN
ReqType   == req \in [Request -> Requests(Len(plane))]

LEMMA TypeParts == TypeOK <=> PlaneType /\ BuildType /\ RestType /\ ReqType
BY DEF TypeOK, PlaneType, BuildType, RestType, ReqType, Builds, Requests

LEMMA JoinParts ==
  ASSUME PlaneType', BuildType', RestType', ReqType'
  PROVE  TypeOK'
BY DEF TypeOK, PlaneType, BuildType, RestType, ReqType, Builds, Requests

\* What the types say of the serving snapshot and of the build.
LEMMA ServingType ==
  ASSUME TypeOK
  PROVE  /\ Len(plane) \in Nat /\ Len(plane) >= 1
         /\ Serving \in Snapshot /\ Serving.router \in Router /\ Serving.attempt \in Nat
         /\ Serving.cfg \in PlaneConfig /\ Serving.keep \subseteq Pool
         /\ attempts \in Nat /\ build \in Builds /\ build.router \in Router
         /\ build.cfg \in PlaneConfig /\ DOMAIN build.cfg.sites \subseteq Site
         /\ \A s \in Site : file[s] \in Nat /\ build.seen[s] \in Nat
         /\ build.cert \in Nat
         /\ \A router \in {Serving.router, build.router} : \A s \in DOMAIN router :
              /\ s \in Site /\ router[s] \in Runtime /\ router[s].pool \in Pool
              /\ router[s].pool.born \in Nat /\ router[s].cert \in Nat /\ router[s].stamp \in Nat
<1>1. Len(plane) \in Nat /\ Len(plane) >= 1 /\ Serving \in Snapshot
  BY DEF TypeOK, Serving
<1>2. /\ Serving.router \in Router /\ Serving.attempt \in Nat /\ Serving.cfg \in PlaneConfig
      /\ Serving.keep \subseteq Pool
  BY <1>1 DEF Snapshot, Attempt
<1>3. build \in Builds /\ attempts \in Nat
  BY DEF TypeOK, Builds, Attempt
<1>4. /\ build.router \in Router /\ build.cfg \in PlaneConfig /\ build.seen \in [Site -> Version]
      /\ build.cert \in Version
  BY <1>3 DEF Builds
<1>5. DOMAIN build.cfg.sites \subseteq Site
  BY <1>4 DEF PlaneConfig
<1>6. \A s \in Site : file[s] \in Nat /\ build.seen[s] \in Nat
  BY <1>4 DEF TypeOK, Version
<1>7. \A router \in Router : \A s \in DOMAIN router :
        /\ s \in Site /\ router[s] \in Runtime /\ router[s].pool \in Pool
        /\ router[s].pool.born \in Nat /\ router[s].cert \in Nat /\ router[s].stamp \in Nat
  BY RouterType DEF Runtime, Pool, Attempt, Version
<1> QED
  BY <1>1, <1>2, <1>3, <1>4, <1>5, <1>6, <1>7 DEF Version

LEMMA SamePlane == UNCHANGED plane => Serving' = Serving /\ Old' = Old /\ Len(plane') = Len(plane)
BY DEF Serving, Old

LEMMA SameTypes ==
  ASSUME TypeOK
  PROVE  /\ UNCHANGED <<plane, attempts>> => PlaneType'
         /\ UNCHANGED <<build, failed, file>> => BuildType'
         /\ UNCHANGED <<probing, ipmgr, refreshed, embedded>> => RestType'
         /\ UNCHANGED <<plane, req>> => ReqType'
<1>1. PlaneType /\ BuildType /\ RestType /\ ReqType
  BY TypeParts
<1>2. UNCHANGED <<plane, attempts>> => PlaneType'
  BY <1>1 DEF PlaneType
<1>3. UNCHANGED <<build, failed, file>> => BuildType'
  BY <1>1 DEF BuildType
<1>4. UNCHANGED <<probing, ipmgr, refreshed, embedded>> => RestType'
  BY <1>1 DEF RestType
<1>5. UNCHANGED <<plane, req>> => ReqType'
  BY <1>1 DEF ReqType
<1> QED
  BY <1>2, <1>3, <1>4, <1>5

LEMMA NoBuildType ==
  /\ NoBuild \in Builds /\ NoBuild.pc = "idle" /\ NoBuild.router = <<>> /\ NoBuild.site = "none"
  /\ NoBuild.cert = 0 /\ \A s \in Site : NoBuild.seen[s] = 0
<1>1. <<>> \in Router /\ 0 \in Version /\ Start \in PlaneConfig
  BY RouterType DEF Version
<1> DEFINE e == <<>>
<1>2. e \in Router /\ NoBuild = [pc |-> "idle", cfg |-> Start, router |-> e, site |-> "none", cert |-> 0,
                                 seen |-> [s \in Site |-> 0]]
  BY <1>1 DEF NoBuild
<1> HIDE DEF e
<1>3. NoBuild \in Builds /\ NoBuild.router = e
  BY <1>1, <1>2 DEF Builds
<1> QED
  BY <1>2, <1>3 DEF e

-----------------------------------------------------------------------------
(* The first state.                                                        *)

LEMMA FirstRouterType ==
  /\ FirstRouter \in Router /\ DOMAIN FirstRouter = DOMAIN Start.sites
  /\ \A s \in DOMAIN FirstRouter :
       /\ FirstRouter[s].pool.def = Start.sites[s] /\ FirstRouter[s].pool.born = 0
       /\ FirstRouter[s].cert = 0 /\ FirstRouter[s].stamp = 0
<1>1. DOMAIN Start.sites \subseteq Site /\ \A s \in DOMAIN Start.sites : Start.sites[s] \in Def
  BY DEF PlaneConfig
<1>2. \A s \in DOMAIN Start.sites :
        [pool |-> Opened(s, Start, 0), cert |-> 0, stamp |-> 0] \in Runtime
  BY <1>1 DEF Opened, Runtime, Pool, Attempt, Version
<1>3. FirstRouter \in [DOMAIN Start.sites -> Runtime]
  BY <1>2 DEF FirstRouter
<1>4. FirstRouter \in Router
  BY <1>1, <1>3 DEF Router
<1>5. \A s \in DOMAIN Start.sites :
        /\ FirstRouter[s].pool.def = Start.sites[s] /\ FirstRouter[s].pool.born = 0
        /\ FirstRouter[s].cert = 0 /\ FirstRouter[s].stamp = 0
  BY DEF FirstRouter, Opened
<1> QED
  BY <1>3, <1>4, <1>5

LEMMA InitSound == Init => TypeOK /\ Sound
<1> SUFFICES ASSUME Init PROVE TypeOK /\ Sound
  OBVIOUS
<1> DEFINE first == [cfg |-> Start, router |-> FirstRouter, keep |-> {},
                     mgr |-> [groups |-> Start.groups, born |-> 0], db |-> TRUE, attempt |-> 0]
<1>1. Start.groups \in Group /\ 0 \in Attempt
  BY DEF PlaneConfig, Attempt
<1>2. /\ first \in Snapshot /\ first.router = FirstRouter /\ first.cfg = Start /\ first.keep = {}
      /\ first.attempt = 0 /\ first.mgr = [groups |-> Start.groups, born |-> 0]
      /\ first.mgr \in Manager
  BY <1>1, FirstRouterType DEF Snapshot, Manager
<1>3. plane = <<first>> /\ attempts = 0 /\ build = NoBuild
  BY DEF Init
<1> HIDE DEF first
<1>4. Len(plane) = 1 /\ plane \in Seq(Snapshot) /\ Serving = first /\ plane # <<>>
  BY <1>2, <1>3 DEF Serving
<1>5. /\ probing = PoolsOf(FirstRouter) /\ ipmgr = first.mgr /\ refreshed = {ipmgr}
      /\ embedded = TRUE /\ failed = {} /\ \A s \in Site : file[s] = 0
      /\ file \in [Site -> Version]
      /\ req = [q \in Request |-> [pc |-> "idle", snap |-> 1, geo |-> "none"]]
  BY <1>2 DEF Init, Version
<1>6. PlaneType
  BY <1>1, <1>3, <1>4 DEF PlaneType
<1>7. BuildType
  BY <1>3, <1>5, NoBuildType DEF BuildType
<1>8. RestType
  BY <1>2, <1>5, FirstRouterType, PoolsType DEF RestType
<1>9. ReqType
  BY <1>4, <1>5 DEF ReqType, Requests
<1>10. Routed
  BY <1>2, <1>3, <1>4, NoBuildType, FirstRouterType DEF Routed, Working
<1>11. Drafted
  BY <1>3, <1>5, NoBuildType, RouterType DEF Drafted, Fitting
<1>12. Probed
  BY <1>2, <1>3, <1>4, <1>5, NoBuildType, RouterType DEF Probed, Fitting
<1>13. Closing
  BY <1>3, NoBuildType DEF Closing
<1>14. Listed
  BY <1>4, <1>5 DEF Listed
<1> QED
  BY <1>6, <1>7, <1>8, <1>9, <1>10, <1>11, <1>12, <1>13, <1>14, TypeParts DEF Sound

-----------------------------------------------------------------------------
(* The steps.                                                              *)

LEMMA BeginSound == TypeOK /\ Sound /\ BeginReload => TypeOK' /\ Sound'
<1> SUFFICES ASSUME TypeOK, Sound, BeginReload PROVE TypeOK' /\ Sound'
  OBVIOUS
<1>1. PlaneType /\ BuildType /\ RestType /\ ReqType /\ Routed /\ Drafted /\ Probed /\ Listed
  BY TypeParts DEF Sound
<1>2. PICK cfg \in Document :
        EnsureGroups(cfg) /\ build' = [NoBuild EXCEPT !.pc = "stages", !.cfg = cfg, !.seen = file]
  BY DEF BeginReload
<1>3. /\ build.pc = "idle" /\ attempts < MaxReload /\ attempts' = attempts + 1
      /\ UNCHANGED <<plane, failed, probing, embedded, file, req>>
  BY DEF BeginReload
<1>4. attempts' \in Attempt /\ attempts \in Nat
  BY <1>3, ServingType DEF Attempt
<1>5. cfg \in PlaneConfig /\ cfg.groups \in Group /\ file \in [Site -> Version]
  BY <1>1 DEF PlaneConfig, BuildType
<1> DEFINE new == [groups |-> cfg.groups, born |-> attempts + 1]
<1>6. new \in Manager
  BY <1>3, <1>4, <1>5 DEF Manager
<1> HIDE DEF new
<1>7. UNCHANGED <<ipmgr, refreshed>> \/ (ipmgr' = new /\ refreshed' = (refreshed \ {ipmgr}) \cup {new})
  BY <1>2 DEF EnsureGroups, Managers, new
<1>8. /\ build' \in Builds /\ build'.pc = "stages" /\ build'.router = <<>> /\ build'.seen = file
      /\ build'.cfg = cfg
  <2> DEFINE b == NoBuild
  <2>1. b \in Builds /\ b.router = <<>>
    BY NoBuildType
  <2> HIDE DEF b
  <2>2. build' = [b EXCEPT !.pc = "stages", !.cfg = cfg, !.seen = file]
    BY <1>2 DEF b
  <2>3. build' \in Builds /\ build'.pc = "stages" /\ build'.seen = file /\ build'.cfg = cfg
        /\ build'.router = b.router
    BY <1>5, <2>1, <2>2 DEF Builds
  <2> QED
    BY <2>1, <2>3
<1>9. TypeOK'
  <2>1. PlaneType' /\ BuildType' /\ ReqType'
    BY <1>1, <1>3, <1>4, <1>8 DEF PlaneType, BuildType, ReqType
  <2>2. RestType'
    BY <1>1, <1>3, <1>6, <1>7 DEF RestType
  <2> QED
    BY <2>1, <2>2, JoinParts
<1>10. Serving' = Serving /\ Serving.attempt \in Nat /\ Serving.attempt <= attempts
  BY <1>1, <1>3, SamePlane, ServingType DEF Routed
<1>11. Routed'
  BY <1>1, <1>3, <1>4, <1>10 DEF Routed
<1>12. build.router = <<>> /\ PoolsOf(<<>>) = {} /\ DOMAIN <<>> = {}
  BY <1>1, <1>3, RouterType DEF Drafted
<1>13. Drafted'
  <2>1. DOMAIN build'.router = {}
    BY <1>8, <1>12
  <2>2. \A s \in Site : build'.seen[s] <= file'[s]
    BY <1>3, <1>8, ServingType
  <2> QED
    BY <1>8, <2>1, <2>2 DEF Drafted, Fitting
<1>14. Probed'
  <2>1. PoolsOf(build'.router) = {} /\ PoolsOf(build.router) = {}
    BY <1>8, <1>12
  <2> QED
    BY <1>1, <1>3, <1>8, <1>10, <2>1 DEF Probed, Fitting
<1>15. Closing'
  BY <1>8 DEF Closing
<1>16. Listed'
  BY <1>1, <1>3, <1>4, <1>7, <1>10 DEF Listed
<1> QED
  BY <1>9, <1>11, <1>13, <1>14, <1>15, <1>16 DEF Sound

\* The steps that leave routers and probers alone.
LEMMA QuietSound ==
  ASSUME TypeOK, Sound,
         \/ BuildStages \/ StagesFail \/ ReadCert \/ \E s \in Site : WriteCert(s)
         \/ \E q \in Request : Arrive(q) \/ Inspect(q) \/ Leave(q)
         \/ UNCHANGED vars
  PROVE  TypeOK' /\ Sound'
<1>1. PlaneType /\ BuildType /\ RestType /\ ReqType /\ Routed /\ Drafted /\ Probed /\ Closing /\ Listed
  BY TypeParts DEF Sound
<1>2. UNCHANGED <<plane, attempts, probing, ipmgr, refreshed, embedded>>
  BY DEF BuildStages, StagesFail, ReadCert, WriteCert, Arrive, Inspect, Leave, vars
<1>3. build \in Builds /\ file \in [Site -> Version] /\ \A s \in Site : file[s] \in Nat
  BY <1>1, ServingType DEF BuildType
<1>4. /\ build' \in Builds /\ failed' \in {failed, failed \cup {"stages"}}
      /\ \/ build' = build
         \/ build.pc = "stages" /\ build'.pc \in {"router", "idle"} /\ build'.router = build.router
            /\ build'.cfg = build.cfg /\ build'.seen = build.seen
         \/ build.pc = "stages" /\ build' = NoBuild
         \/ /\ build.pc = "cert" /\ build'.pc = "stamp" /\ build'.router = build.router
            /\ build'.cfg = build.cfg /\ build'.seen = build.seen /\ build'.site = build.site
            /\ build'.cert = file[build.site] /\ UNCHANGED file
  <2>1. CASE BuildStages
    BY <1>3, <2>1 DEF BuildStages, Builds
  <2>2. CASE StagesFail
    BY <2>2, NoBuildType DEF StagesFail
  <2>3. CASE ReadCert
    <3>1. build.site \in Site
      BY <1>1, <2>3, ServingType DEF ReadCert, Drafted, Fitting, Missing
    <3>2. file[build.site] \in Version
      BY <1>3, <3>1
    <3> QED
      BY <1>3, <2>3, <3>2 DEF ReadCert, Builds
  <2>4. CASE \E s \in Site : WriteCert(s)
    BY <1>3, <2>4 DEF WriteCert
  <2>5. CASE \E q \in Request : Arrive(q) \/ Inspect(q) \/ Leave(q)
    BY <1>3, <2>5 DEF Arrive, Inspect, Leave
  <2> QED
    BY <1>3, <2>1, <2>2, <2>3, <2>4, <2>5 DEF vars
<1>5. file' \in [Site -> Version] /\ \A s \in Site : file[s] <= file'[s] /\ file'[s] \in Nat
  <2>1. ASSUME NEW s \in Site, WriteCert(s) PROVE file[s] + 1 \in Version /\ file' = [file EXCEPT ![s] = file[s] + 1]
    BY <1>3, <2>1 DEF WriteCert, Version
  <2>2. CASE \E s \in Site : WriteCert(s)
    BY <1>3, <2>1, <2>2 DEF Version
  <2>3. CASE UNCHANGED file
    BY <1>3, <2>3
  <2> QED
    BY <2>2, <2>3 DEF BuildStages, StagesFail, ReadCert, Arrive, Inspect, Leave, vars
<1>6. ReqType'
  <2>1. Len(plane) \in Nat /\ Len(plane) >= 1
    BY ServingType
  <2>2. CASE UNCHANGED req
    BY <1>1, <1>2, <2>2 DEF ReqType
  <2>3. ASSUME NEW q \in Request, NEW new \in Requests(Len(plane)), req' = [req EXCEPT ![q] = new]
        PROVE  ReqType'
    BY <1>1, <1>2, <2>3 DEF ReqType
  <2>4. ASSUME NEW q \in Request, Arrive(q) PROVE ReqType'
    <3>1. [pc |-> "inspect", snap |-> Len(plane), geo |-> "none"] \in Requests(Len(plane))
      BY <2>1 DEF Requests
    <3> QED
      BY <2>3, <2>4, <3>1 DEF Arrive
  <2>5. ASSUME NEW q \in Request, Inspect(q) PROVE ReqType'
    <3>1. req[q] \in Requests(Len(plane))
      BY <1>1 DEF ReqType
    <3> DEFINE snap == plane[req[q].snap]
               geo  == CASE snap.cfg.geo = "none" -> "none"
                         [] CanLookup(snap)       -> "decided"
                         [] OTHER                 -> "skipped"
    <3>2. req' = [req EXCEPT ![q].pc = "done", ![q].geo = geo]
      BY <2>5 DEF Inspect
    <3> HIDE DEF snap
    <3>3. geo \in {"none", "decided", "skipped"}
      OBVIOUS
    <3> HIDE DEF geo
    <3>4. [req[q] EXCEPT !.pc = "done", !.geo = geo] \in Requests(Len(plane))
      BY <3>1, <3>3 DEF Requests
    <3>5. req' = [req EXCEPT ![q] = [req[q] EXCEPT !.pc = "done", !.geo = geo]]
      BY <1>1, <3>2 DEF ReqType
    <3> QED
      BY <2>3, <3>4, <3>5
  <2>6. ASSUME NEW q \in Request, Leave(q) PROVE ReqType'
    <3>1. [pc |-> "idle", snap |-> 1, geo |-> "none"] \in Requests(Len(plane))
      BY <2>1 DEF Requests
    <3> QED
      BY <2>3, <2>6, <3>1 DEF Leave
  <2> QED
    BY <2>2, <2>4, <2>5, <2>6 DEF BuildStages, StagesFail, ReadCert, WriteCert, vars
<1>7. TypeOK'
  <2>1. BuildType'
    BY <1>1, <1>4, <1>5 DEF BuildType, BuildFailures
  <2> QED
    BY <1>2, <1>6, <2>1, SameTypes, JoinParts
<1>8. Serving' = Serving /\ Old' = Old /\ Len(plane') = Len(plane)
  BY <1>2, SamePlane
<1>9. NoBuild.pc = "idle" /\ NoBuild.router = <<>> /\ \A s \in Site : NoBuild.seen[s] = 0
      /\ PoolsOf(<<>>) = {} /\ DOMAIN <<>> = {}
  BY NoBuildType, RouterType
<1>10. Routed'
  BY <1>1, <1>2, <1>4, <1>8, <1>9 DEF Routed, Working
<1>11. UNCHANGED <<build, file>> \/ UNCHANGED build \/ build' = NoBuild
       \/ (build.pc = "stages" /\ build'.pc \in {"router", "idle"})
       \/ (build.pc = "cert" /\ build'.pc = "stamp")
  BY <1>4
<1>12. Drafted'
  <2>1. \A s \in Site : build'.seen[s] <= file'[s]
    BY <1>1, <1>4, <1>5, <1>9, ServingType DEF Drafted
  <2>2. build'.pc \in {"idle", "stages", "close"} => build'.router = <<>>
    BY <1>1, <1>4, <1>9 DEF Drafted
  <2>3. \A s \in DOMAIN build'.router :
          /\ s \in DOMAIN build'.cfg.sites
          /\ build'.router[s].pool.def = build'.cfg.sites[s]
          /\ build'.router[s].pool \in Serving'.keep \/ build'.router[s].pool.born = attempts'
          /\ build'.router[s].cert <= build'.router[s].stamp
          /\ Noticed(s, build.router[s])'
    <3>1. CASE build' = NoBuild
      BY <1>9, <3>1
    <3>2. CASE build' # NoBuild
      <4>1. build'.router = build.router /\ build'.cfg = build.cfg /\ build'.seen = build.seen
        BY <1>4, <3>2
      <4> QED
        BY <1>1, <1>2, <1>8, <4>1 DEF Drafted, Noticed, Mistaken
    <3> QED
      BY <3>1, <3>2
  <2>4. Fitting' => Fitting /\ build'.site = build.site /\ build'.router = build.router
                    /\ build'.cfg = build.cfg
    BY <1>4, <1>9 DEF Fitting
  <2>5. Fitting' => build'.site \in Missing'
    BY <1>1, <2>4 DEF Drafted, Missing
  <2>6. build'.pc = "stamp" => build'.cert <= file'[build'.site] /\ build'.seen[build'.site] <= build'.cert
    <3>1. build.site \in Missing => build.site \in Site
      BY ServingType DEF Missing
    <3>2. CASE build.pc = "cert" /\ build'.pc = "stamp"
      BY <1>4, <1>5, <3>2, <1>3, <3>1, <1>1 DEF Drafted, Fitting
    <3>3. CASE build' = build
      BY <1>1, <1>3, <1>5, <3>1, <3>3, ServingType DEF Drafted, Fitting
    <3> QED
      BY <1>4, <1>9, <3>2, <3>3
  <2> QED
    BY <2>1, <2>2, <2>3, <2>5, <2>6 DEF Drafted
<1>13. Probed'
  <2>1. PoolsOf(build'.router) = PoolsOf(build.router)
    BY <1>1, <1>4, <1>9 DEF Drafted
  <2>2. Fitting' <=> Fitting
    BY <1>4, <1>9 DEF Fitting
  <2>3. Fitting => NewPool' = NewPool
    BY <1>2, <1>4, <1>9 DEF NewPool, Opened, Fitting
  <2>4. build'.pc = "close" <=> build.pc = "close"
    BY <1>4, <1>9
  <2>5. (failed' \subseteq {"stages"} => failed \subseteq {"stages"})
        /\ ("cert" \notin failed' => "cert" \notin failed)
    BY <1>4
  <2> QED
    BY <1>1, <1>2, <1>8, <2>1, <2>2, <2>3, <2>4, <2>5 DEF Probed
<1>14. Closing'
  <2>1. build'.pc = "close" => build' = build
    BY <1>4, <1>9
  <2> QED
    BY <1>1, <1>2, <1>8, <2>1 DEF Closing, Noticed, Mistaken
<1>15. Listed'
  BY <1>1, <1>2, <1>8 DEF Listed
<1> QED
  BY <1>7, <1>10, <1>12, <1>13, <1>14, <1>15 DEF Sound

LEMMA OpenSound ==
  ASSUME TypeOK, Sound, NEW s \in Site, OpenPool(s)
  PROVE  TypeOK' /\ Sound'
<1>1. PlaneType /\ BuildType /\ RestType /\ ReqType /\ Routed /\ Drafted /\ Probed /\ Closing /\ Listed
  BY TypeParts DEF Sound
<1>2. /\ build.pc = "router" /\ s \in Missing /\ build' = [build EXCEPT !.pc = "cert", !.site = s]
      /\ probing' = probing \cup {Opened(s, build.cfg, attempts)}
      /\ UNCHANGED <<plane, attempts, failed, ipmgr, refreshed, embedded, file, req>>
  BY DEF OpenPool
<1>3. /\ build' \in Builds /\ build'.pc = "cert" /\ build'.site = s /\ build'.cfg = build.cfg
      /\ build'.router = build.router /\ build'.seen = build.seen
  BY <1>1, <1>2 DEF BuildType, Builds
<1>4. s \in DOMAIN build.cfg.sites /\ build.cfg.sites[s] \in Def /\ attempts \in Attempt
  BY <1>1, <1>2, ServingType DEF Missing, PlaneConfig, PlaneType
<1>5. NewPool' = Opened(s, build.cfg, attempts)
  BY <1>2, <1>3 DEF NewPool
<1>6. Opened(s, build.cfg, attempts) \in Pool /\ Opened(s, build.cfg, attempts).born = attempts
  BY <1>4 DEF Opened, Pool
<1>7. Serving' = Serving /\ Old' = Old
  BY <1>2, SamePlane
<1>8. TypeOK'
  BY <1>1, <1>2, <1>3, <1>6, SameTypes, JoinParts DEF BuildType, RestType
<1>9. Routed'
  BY <1>1, <1>2, <1>3, <1>7 DEF Routed, Working
<1>10. Drafted'
  BY <1>1, <1>2, <1>3, <1>7 DEF Drafted, Fitting, Missing, Noticed, Mistaken
<1>11. Opened(s, build.cfg, attempts) \notin Serving.keep
  <2>1. ASSUME NEW p \in PoolsOf(Serving.router) PROVE p.born < attempts
    BY <1>1, <1>2, <2>1, ServingType DEF Routed, Working, PoolsOf
  <2> QED
    BY <1>1, <1>6, <2>1, ServingType DEF Routed
<1>12. Probed'
  <2>1. ~Fitting /\ Fitting' /\ build'.pc # "close" /\ build.pc # "close"
    BY <1>2, <1>3 DEF Fitting
  <2> QED
    BY <1>1, <1>2, <1>3, <1>5, <1>7, <1>11, <2>1 DEF Probed
<1>13. Closing' /\ Listed'
  BY <1>1, <1>2, <1>3, <1>7 DEF Closing, Listed
<1> QED
  BY <1>8, <1>9, <1>10, <1>12, <1>13 DEF Sound


\* The draft takes one more site; who is probed does not change.
LEMMA DraftSite ==
  ASSUME TypeOK, Sound, NEW s \in Site, s \in Missing, NEW r \in Runtime,
         build.pc \in {"router", "stamp"}, build' \in Builds, build'.pc = "router",
         build'.router = With(build.router, s, r), build'.cfg = build.cfg, build'.seen = build.seen,
         r.pool.def = build.cfg.sites[s], r.cert <= r.stamp, Noticed(s, r),
         r.pool \in Serving'.keep \/ r.pool.born = attempts,
         failed \subseteq {"stages"} => r.pool \in probing,
         Fitting => r.pool = NewPool,
         UNCHANGED <<attempts, failed, probing, ipmgr, refreshed, embedded, file>>,
         Serving'.router = Serving.router, Serving'.cfg = Serving.cfg, Serving'.mgr = Serving.mgr,
         Serving'.attempt = Serving.attempt, Serving.keep \subseteq Serving'.keep,
         Serving'.keep \subseteq Serving.keep \cup (PoolsOf(Serving.router) \cap {r.pool})
  PROVE  Sound'
<1>1. Routed /\ Drafted /\ Probed /\ Listed
  BY DEF Sound
<1> DEFINE w == With(build.router, s, r)
<1>2. build.router \in Router /\ s \notin DOMAIN build.router /\ s \in DOMAIN build.cfg.sites
  BY ServingType DEF Missing
<1>3. /\ DOMAIN w = DOMAIN build.router \cup {s} /\ w[s] = r
      /\ \A x \in DOMAIN build.router : w[x] = build.router[x]
      /\ PoolsOf(w) = PoolsOf(build.router) \cup {r.pool}
  <2> HIDE DEF w
  <2>1. PICK q \in Router : q = build.router
    BY <1>2
  <2>2. w = With(q, s, r)
    BY <2>1 DEF w
  <2>3. s \notin DOMAIN q
    BY <1>2, <2>1
  <2>4. /\ DOMAIN With(q, s, r) = DOMAIN q \cup {s}
        /\ With(q, s, r)[s] = r
        /\ \A x \in DOMAIN q : With(q, s, r)[x] = q[x]
        /\ PoolsOf(With(q, s, r)) = PoolsOf(q) \cup {r.pool}
    BY <2>3, WithEffect
  <2>5. /\ DOMAIN w = DOMAIN q \cup {s} /\ w[s] = r
        /\ \A x \in DOMAIN q : w[x] = q[x]
        /\ PoolsOf(w) = PoolsOf(q) \cup {r.pool}
    BY <2>2, <2>4
  <2> QED
    BY <2>1, <2>5
<1> HIDE DEF w
<1>4. build'.router = w
  BY DEF w
<1>5. Routed'
  <2>1. Working' => Working
    BY DEF Working
  <2> QED
    BY <1>1, <2>1 DEF Routed
<1>6. Drafted'
  <2>1. \A x \in DOMAIN w :
          /\ x \in DOMAIN build.cfg.sites
          /\ w[x].pool.def = build.cfg.sites[x]
          /\ w[x].pool \in Serving'.keep \/ w[x].pool.born = attempts
          /\ w[x].cert <= w[x].stamp
          /\ Noticed(x, w[x])
    BY <1>1, <1>2, <1>3 DEF Drafted
  <2>2. ~Fitting'
    BY DEF Fitting
  <2>3. \A x \in Site : build.seen[x] <= file[x]
    BY <1>1 DEF Drafted
  <2> QED
    BY <1>4, <2>1, <2>2, <2>3 DEF Drafted, Noticed, Mistaken
<1>7. Probed'
  <2>1. ~Fitting' /\ build.pc # "close" /\ build'.pc # "close"
    BY DEF Fitting
  <2>2. PoolsOf(build'.router) = PoolsOf(build.router) \cup {r.pool}
    BY <1>3, <1>4
  <2>3. failed' \subseteq {"stages"} =>
          PoolsOf(Serving'.router) \cup PoolsOf(build'.router) \subseteq probing'
    BY <1>1, <2>2 DEF Probed
  <2>4. "cert" \notin failed' =>
          \A p \in probing' : p \in PoolsOf(Serving'.router) \cup PoolsOf(build'.router)
    BY <1>1, <2>1, <2>2 DEF Probed
  <2>5. Serving'.keep \cap probing' \subseteq PoolsOf(build'.router)
    BY <1>1, <2>2 DEF Probed
  <2> QED
    BY <2>1, <2>3, <2>4, <2>5 DEF Probed
<1>8. Closing' /\ Listed'
  BY <1>1 DEF Closing, Listed
<1> QED
  BY <1>5, <1>6, <1>7, <1>8 DEF Sound

LEMMA StampSound == TypeOK /\ Sound /\ StampCert => TypeOK' /\ Sound'
<1> SUFFICES ASSUME TypeOK, Sound, StampCert PROVE TypeOK' /\ Sound'
  OBVIOUS
<1>1. BuildType /\ Routed /\ Drafted /\ Probed
  BY TypeParts DEF Sound
<1> DEFINE s == build.site
           r == [pool |-> NewPool, cert |-> build.cert, stamp |-> file[build.site]]
<1>2. /\ build.pc = "stamp"
      /\ build' = [build EXCEPT !.pc = "router", !.router = With(build.router, s, r),
                                !.site = "none", !.cert = 0]
      /\ UNCHANGED <<plane, attempts, failed, probing, ipmgr, refreshed, embedded, file, req>>
  BY <1>1 DEF StampCert, Stamp, NewPool, BuildType, Builds
<1>3. s \in Missing /\ s \in Site
  BY <1>1, <1>2, ServingType DEF Drafted, Fitting, Missing
<1>4. NewPool \in Pool /\ NewPool.def = build.cfg.sites[s] /\ NewPool.born = attempts
  <2>1. build.cfg.sites[s] \in Def /\ attempts \in Attempt
    BY <1>3, ServingType DEF Missing, PlaneConfig, Attempt, TypeOK
  <2> QED
    BY <1>3, <2>1 DEF NewPool, Opened, Pool
<1>5. /\ r \in Runtime /\ r.pool = NewPool /\ r.cert = build.cert /\ r.stamp = file[s]
  BY <1>1, <1>3, <1>4 DEF Runtime, BuildType, Builds
<1>6. With(build.router, s, r) \in Router
  BY <1>3, <1>5, ServingType, WithEffect DEF Missing
<1> HIDE DEF r
<1> DEFINE w == With(build.router, s, r)
<1> HIDE DEF w
<1>7. /\ build' \in Builds /\ build'.pc = "router" /\ build'.router = w
      /\ build'.cfg = build.cfg /\ build'.seen = build.seen
  <2>1. build \in Builds /\ w \in Router /\ 0 \in Version
    BY <1>1, <1>6 DEF BuildType, Version, w
  <2>2. build' = [build EXCEPT !.pc = "router", !.router = w, !.site = "none", !.cert = 0]
    BY <1>2 DEF r, w
  <2> QED
    BY <2>1, <2>2 DEF Builds
<1>8. TypeOK'
  BY <1>1, <1>2, <1>7, SameTypes, JoinParts DEF BuildType
<1>9. r.cert <= r.stamp /\ Noticed(s, r)
  BY <1>1, <1>2, <1>3, <1>5, ServingType DEF Drafted, Noticed
<1>10. failed \subseteq {"stages"} => r.pool \in probing
  BY <1>1, <1>2, <1>5 DEF Probed, Fitting
<1>11. Serving' = Serving
  BY <1>2, SamePlane
<1>12. Sound'
  BY <1>2, <1>3, <1>4, <1>5, <1>7, <1>9, <1>10, <1>11, DraftSite DEF w
<1> QED
  BY <1>8, <1>12

LEMMA AdoptSound ==
  ASSUME TypeOK, Sound, NEW s \in Site, AdoptSite(s)
  PROVE  TypeOK' /\ Sound'
<1>1. PlaneType /\ BuildType /\ ReqType /\ Routed /\ Drafted /\ Probed
  BY TypeParts DEF Sound
<1> DEFINE r == Serving.router[s]
           w == With(build.router, s, r)
           n == Len(plane)
<1>2. /\ build.pc = "router" /\ s \in Missing /\ SiteUnchanged(s)
      /\ build' = [build EXCEPT !.router = w]
      /\ plane' = [plane EXCEPT ![n].keep = Serving.keep \cup {r.pool}]
      /\ UNCHANGED <<attempts, failed, probing, ipmgr, refreshed, embedded, file, req>>
  <2>1. n \in DOMAIN plane /\ build \in Builds
    BY <1>1, ServingType DEF PlaneType
  <2> QED
    BY <2>1 DEF AdoptSite, Serving, Builds
<1>3. /\ s \in DOMAIN Serving.router /\ Serving.cfg.sites[s] = build.cfg.sites[s] /\ file[s] = r.stamp
  BY <1>2 DEF SiteUnchanged
<1>4. r \in Runtime /\ r.pool \in Pool /\ r.pool \in PoolsOf(Serving.router)
  BY <1>3, ServingType DEF PoolsOf
<1>5. w \in Router
  BY <1>2, <1>4, ServingType, WithEffect DEF Missing
<1>6. Serving \in Snapshot /\ n \in Nat /\ n >= 1 /\ plane \in Seq(Snapshot) /\ Serving = plane[n]
  BY <1>1, ServingType DEF PlaneType, Serving
<1> HIDE DEF r, w
<1>7. /\ build' \in Builds /\ build'.pc = "router" /\ build'.router = w /\ build'.cfg = build.cfg
      /\ build'.seen = build.seen
  BY <1>1, <1>2, <1>5 DEF BuildType, Builds
<1> DEFINE kept == [Serving EXCEPT !.keep = Serving.keep \cup {r.pool}]
<1>8. /\ kept \in Snapshot /\ kept.keep = Serving.keep \cup {r.pool} /\ kept.router = Serving.router
      /\ kept.cfg = Serving.cfg /\ kept.mgr = Serving.mgr /\ kept.attempt = Serving.attempt
  BY <1>4, <1>6 DEF Snapshot
<1>9. plane' = [plane EXCEPT ![n] = kept]
  BY <1>2, <1>6
<1> HIDE DEF kept
<1>10. plane' \in Seq(Snapshot) /\ Len(plane') = n /\ plane'[n] = kept /\ plane' # <<>>
  BY <1>6, <1>8, <1>9
<1>11. Serving' = kept
  BY <1>10 DEF Serving
<1>12. TypeOK'
  <2>1. PlaneType' /\ ReqType' /\ BuildType'
    BY <1>1, <1>2, <1>7, <1>10 DEF PlaneType, ReqType, BuildType
  <2> QED
    BY <1>2, <2>1, SameTypes, JoinParts
<1>13. r.pool.def = build.cfg.sites[s] /\ r.cert <= r.stamp
  BY <1>1, <1>3 DEF Routed, r
<1>14. Noticed(s, r)
  <2>1. build.seen[s] <= r.stamp /\ r.cert <= r.stamp
    BY <1>1, <1>3, <1>13 DEF Drafted
  <2>2. r.pool.born < attempts
    BY <1>1, <1>2, <1>3, ServingType DEF Routed, Working, r
  <2>3. r.cert \in Nat /\ r.stamp \in Nat /\ build.seen[s] \in Nat
    BY <1>3, ServingType DEF r
  <2> QED
    BY <2>1, <2>2, <2>3 DEF Noticed, Mistaken
<1>15. failed \subseteq {"stages"} => r.pool \in probing
  BY <1>1, <1>4 DEF Probed
<1>16. ~Fitting
  BY <1>2 DEF Fitting
<1>17. Sound'
  BY <1>2, <1>4, <1>7, <1>8, <1>11, <1>13, <1>14, <1>15, <1>16, DraftSite DEF w
<1> QED
  BY <1>12, <1>17

LEMMA FailsSound == TypeOK /\ Sound /\ RouterFails => TypeOK' /\ Sound'
<1> SUFFICES ASSUME TypeOK, Sound, RouterFails PROVE TypeOK' /\ Sound'
  OBVIOUS
<1>1. PlaneType /\ BuildType /\ RestType /\ ReqType /\ Routed /\ Drafted /\ Probed /\ Listed
  BY TypeParts DEF Sound
<1>2. PICK kind \in {"pool", "dup", "cert"} :
        /\ kind # "cert" => build.pc = "router"
        /\ failed' = failed \cup {kind}
  BY DEF RouterFails, FailHere
<1>3. /\ build.pc \in {"router", "cert"} /\ probing' = probing \ PoolsOf(build.router)
      /\ build' = NoBuild
      /\ UNCHANGED <<plane, attempts, ipmgr, refreshed, embedded, file, req>>
  BY DEF RouterFails, FailHere, Abandoned
<1>4. /\ build'.pc = "idle" /\ build'.router = <<>> /\ \A s \in Site : build'.seen[s] = 0
      /\ build' \in Builds /\ PoolsOf(<<>>) = {} /\ DOMAIN <<>> = {}
  BY <1>3, NoBuildType, RouterType
<1>5. Serving' = Serving
  BY <1>3, SamePlane
<1>6. TypeOK'
  BY <1>1, <1>2, <1>3, <1>4, SameTypes, JoinParts DEF BuildType, RestType, BuildFailures
<1>7. Routed'
  BY <1>1, <1>3, <1>4, <1>5 DEF Routed, Working
<1>8. Drafted'
  <2>1. DOMAIN build'.router = {}
    BY <1>4
  <2>2. \A s \in Site : build'.seen[s] <= file'[s]
    BY <1>3, <1>4, ServingType
  <2> QED
    BY <1>4, <2>1, <2>2 DEF Drafted, Fitting
<1>9. Probed'
  <2>1. PoolsOf(build'.router) = {}
    BY <1>4
  <2>2. ~(failed' \subseteq {"stages"})
    BY <1>2
  <2>3. "cert" \notin failed' => "cert" \notin failed /\ ~Fitting
    BY <1>2 DEF Fitting
  <2>4. "cert" \notin failed' => \A p \in probing' : p \in PoolsOf(Serving'.router)
    BY <1>1, <1>3, <1>5, <2>3 DEF Probed
  <2>5. Serving'.keep \cap probing' = {}
    BY <1>1, <1>3, <1>5 DEF Probed
  <2> QED
    BY <2>1, <2>2, <2>4, <2>5 DEF Probed
<1>10. Closing' /\ Listed'
  BY <1>1, <1>3, <1>4, <1>5 DEF Closing, Listed
<1> QED
  BY <1>6, <1>7, <1>8, <1>9, <1>10 DEF Sound

LEMMA SwapSound == TypeOK /\ Sound /\ Swap => TypeOK' /\ Sound'
<1> SUFFICES ASSUME TypeOK, Sound, Swap PROVE TypeOK' /\ Sound'
  OBVIOUS
<1>1. PlaneType /\ BuildType /\ RestType /\ ReqType /\ Routed /\ Drafted /\ Probed /\ Listed
  BY TypeParts DEF Sound
<1> DEFINE new == [cfg |-> build.cfg, router |-> build.router, keep |-> {}, mgr |-> ipmgr,
                   db |-> TRUE, attempt |-> attempts]
<1>2. /\ build.pc = "router" /\ Missing = {} /\ plane' = Append(plane, new)
      /\ build' = [NoBuild EXCEPT !.pc = "close", !.seen = build.seen]
      /\ UNCHANGED <<attempts, failed, probing, ipmgr, refreshed, embedded, file, req>>
  BY DEF Swap, Provider
<1>3. /\ new \in Snapshot /\ new.cfg = build.cfg /\ new.router = build.router /\ new.keep = {}
      /\ new.mgr = ipmgr /\ new.attempt = attempts
  BY <1>1 DEF BuildType, Builds, RestType, PlaneType, Snapshot
<1> HIDE DEF new
<1>4. Len(plane) \in Nat /\ Len(plane) >= 1 /\ plane \in Seq(Snapshot) /\ attempts \in Nat
      /\ Serving.attempt \in Nat
  BY <1>1, ServingType DEF PlaneType
<1>5. /\ plane' \in Seq(Snapshot) /\ plane' # <<>> /\ Len(plane') = Len(plane) + 1
      /\ Serving' = new /\ Old' = Serving
  BY <1>2, <1>3, <1>4 DEF Serving, Old
<1>6. /\ build' \in Builds /\ build'.pc = "close" /\ build'.router = <<>> /\ build'.seen = build.seen
  <2> DEFINE b == NoBuild
  <2>1. b \in Builds /\ b.router = <<>> /\ build.seen \in [Site -> Version]
    BY <1>1, NoBuildType DEF BuildType, Builds
  <2> HIDE DEF b
  <2>2. build' = [b EXCEPT !.pc = "close", !.seen = build.seen]
    BY <1>2 DEF b
  <2>3. build' \in Builds /\ build'.pc = "close" /\ build'.seen = build.seen /\ build'.router = b.router
    BY <2>1, <2>2 DEF Builds
  <2> QED
    BY <2>1, <2>3
<1>7. TypeOK'
  <2>1. Requests(Len(plane)) \subseteq Requests(Len(plane'))
    BY <1>4, <1>5 DEF Requests
  <2>2. ReqType'
    BY <1>1, <1>2, <2>1 DEF ReqType
  <2>3. PlaneType' /\ BuildType'
    BY <1>1, <1>2, <1>5, <1>6 DEF PlaneType, BuildType
  <2> QED
    BY <1>2, <2>2, <2>3, SameTypes, JoinParts
<1>8. PoolsOf(<<>>) = {} /\ DOMAIN <<>> = {}
  BY RouterType
<1>9. ASSUME NEW p \in PoolsOf(Serving.router) PROVE p.born < attempts
  BY <1>1, <1>2, <1>9, ServingType DEF Routed, Working, PoolsOf
<1>10. Routed'
  <2>1. DOMAIN build.router = DOMAIN build.cfg.sites
    BY <1>1, <1>2 DEF Drafted, Missing
  <2>2. \A s \in DOMAIN build.router : build.router[s].pool.born <= attempts
    <3> SUFFICES ASSUME NEW s \in DOMAIN build.router PROVE build.router[s].pool.born <= attempts
      OBVIOUS
    <3> DEFINE p == build.router[s].pool
    <3>1. p.born \in Nat
      BY ServingType
    <3>2. p \in Serving.keep \/ p.born = attempts
      BY <1>1 DEF Drafted
    <3>3. p \in Serving.keep => p.born < attempts
      BY <1>1, <1>9 DEF Routed
    <3> HIDE DEF p
    <3>4. p.born <= attempts
      BY <1>4, <3>1, <3>2, <3>3
    <3> QED
      BY <3>4 DEF p
  <2>3. attempts' = attempts /\ ~Working'
    BY <1>2, <1>6 DEF Working
  <2> QED
    BY <1>1, <1>3, <1>4, <1>5, <2>1, <2>2, <2>3 DEF Routed, Drafted
<1>11. Drafted'
  <2>1. DOMAIN build'.router = {}
    BY <1>6, <1>8
  <2> QED
    BY <1>1, <1>2, <1>6, <2>1 DEF Drafted, Fitting
<1>12. Probed'
  <2>1. PoolsOf(build'.router) = {} /\ ~Fitting' /\ ~Fitting /\ build.pc # "close"
    BY <1>2, <1>6, <1>8 DEF Fitting
  <2> QED
    BY <1>1, <1>2, <1>3, <1>5, <1>6, <2>1 DEF Probed
<1>13. Closing'
  <2>1. PoolsOf(build.router) \cap PoolsOf(Serving.router) \subseteq Serving.keep
    BY <1>1, <1>4, <1>9 DEF Drafted, PoolsOf
  <2>2. Serving.keep \cap probing \subseteq PoolsOf(build.router)
    BY <1>1 DEF Probed
  <2>3. \A s \in DOMAIN build.router : Noticed(s, build.router[s])
    BY <1>1 DEF Drafted
  <2>4. Len(plane') >= 2
    BY <1>4, <1>5
  <2> QED
    BY <1>2, <1>3, <1>5, <1>6, <2>1, <2>2, <2>3, <2>4 DEF Closing, Noticed, Mistaken
<1>14. Listed'
  BY <1>1, <1>2, <1>3, <1>5 DEF Listed
<1> QED
  BY <1>7, <1>10, <1>11, <1>12, <1>13, <1>14 DEF Sound

LEMMA CloseSound == TypeOK /\ Sound /\ CloseOld => TypeOK' /\ Sound'
<1> SUFFICES ASSUME TypeOK, Sound, CloseOld PROVE TypeOK' /\ Sound'
  OBVIOUS
<1>1. PlaneType /\ BuildType /\ RestType /\ ReqType /\ Routed /\ Drafted /\ Probed /\ Closing /\ Listed
  BY TypeParts DEF Sound
<1> DEFINE n == Len(plane)
           shut == ~OwnsDB(Old.cfg)
<1>2. /\ build.pc = "close" /\ build' = NoBuild
      /\ probing' = probing \ (PoolsOf(Old.router) \ Old.keep)
      /\ plane' = [plane EXCEPT ![n - 1].db = shut]
      /\ embedded' \in BOOLEAN
      /\ UNCHANGED <<attempts, failed, ipmgr, refreshed, file, req>>
  BY <1>1 DEF CloseOld, Old, Kept, RestType
<1>3. n \in Nat /\ n >= 2 /\ plane \in Seq(Snapshot) /\ n - 1 \in DOMAIN plane /\ Old \in Snapshot
  BY <1>1, <1>2, ServingType DEF PlaneType, Closing, Old
<1>4. shut \in BOOLEAN
  BY DEF OwnsDB
<1> HIDE DEF shut
<1> DEFINE shutOld == [Old EXCEPT !.db = shut]
<1>5. shutOld \in Snapshot
  BY <1>3, <1>4 DEF Snapshot
<1>6. plane' = [plane EXCEPT ![n - 1] = shutOld]
  BY <1>2, <1>3 DEF Old
<1> HIDE DEF shutOld
<1>7. plane' \in Seq(Snapshot) /\ Len(plane') = n /\ plane'[n] = plane[n] /\ plane' # <<>>
  BY <1>3, <1>5, <1>6
<1>8. Serving' = Serving
  BY <1>7 DEF Serving
<1>9. /\ build'.pc = "idle" /\ build'.router = <<>> /\ \A s \in Site : build'.seen[s] = 0
      /\ build' \in Builds /\ PoolsOf(<<>>) = {} /\ DOMAIN <<>> = {}
  BY <1>2, NoBuildType, RouterType
<1>10. TypeOK'
  <2>1. PlaneType' /\ ReqType' /\ BuildType' /\ RestType'
    BY <1>1, <1>2, <1>7, <1>9 DEF PlaneType, ReqType, BuildType, RestType
  <2> QED
    BY <2>1, JoinParts
<1>11. Routed'
  BY <1>1, <1>2, <1>8, <1>9 DEF Routed, Working
<1>12. Drafted'
  <2>1. DOMAIN build'.router = {}
    BY <1>9
  <2>2. \A s \in Site : build'.seen[s] <= file'[s]
    BY <1>2, <1>9, ServingType
  <2> QED
    BY <1>9, <2>1, <2>2 DEF Drafted, Fitting
<1>13. Probed'
  <2>1. PoolsOf(build'.router) = {} /\ PoolsOf(build.router) = {} /\ ~Fitting /\ ~Fitting'
    BY <1>1, <1>2, <1>9 DEF Drafted, Fitting
  <2>2. PoolsOf(Serving.router) \cap PoolsOf(Old.router) \subseteq Old.keep
    BY <1>1, <1>2 DEF Closing
  <2>3. Old.keep \cap probing \subseteq PoolsOf(Serving.router)
    BY <1>1, <1>2 DEF Closing
  <2>4. failed' \subseteq {"stages"} => PoolsOf(Serving.router) \subseteq probing'
    BY <1>1, <1>2, <2>2 DEF Probed
  <2>5. "cert" \notin failed' => \A p \in probing' : p \in PoolsOf(Serving.router)
    BY <1>1, <1>2, <2>1, <2>3 DEF Probed
  <2>6. Serving.keep \cap probing' = {}
    BY <1>1, <1>2, <2>1 DEF Probed
  <2> QED
    BY <1>8, <2>1, <2>4, <2>5, <2>6 DEF Probed
<1>14. Closing' /\ Listed'
  BY <1>1, <1>2, <1>8, <1>9 DEF Closing, Listed
<1> QED
  BY <1>10, <1>11, <1>12, <1>13, <1>14 DEF Sound

LEMMA NextSound == TypeOK /\ Sound /\ [Next]_vars => TypeOK' /\ Sound'
<1> SUFFICES ASSUME TypeOK, Sound, [Next]_vars PROVE TypeOK' /\ Sound'
  OBVIOUS
<1>1. CASE Building
  BY <1>1, QuietSound, OpenSound, StampSound, AdoptSound, FailsSound, SwapSound, CloseSound
     DEF Building
<1> QED
  BY <1>1, BeginSound, QuietSound DEF Next

-----------------------------------------------------------------------------
(* The theorems.                                                           *)

\* Every step keeps the types: no router names a site it has no runtime for, no request
\* a snapshot that was never built.
THEOREM TypeCorrect == Spec => []TypeOK
<1>1. Init => TypeOK /\ Sound
  BY InitSound
<1>2. TypeOK /\ Sound /\ [Next]_vars => (TypeOK /\ Sound)'
  BY NextSound
<1> QED
  BY <1>1, <1>2, PTL DEF Spec

LEMMA SoundAlways == Spec => [](TypeOK /\ Sound)
<1>1. Init => TypeOK /\ Sound
  BY InitSound
<1>2. TypeOK /\ Sound /\ [Next]_vars => (TypeOK /\ Sound)'
  BY NextSound
<1> QED
  BY <1>1, <1>2, PTL DEF Spec

\* The serving router is that of its configuration, site for site and definition for
\* definition (router.go:158-163).
THEOREM RouterIsComplete == Spec => []RouterMatchesConfig
<1>1. Sound => RouterMatchesConfig
  BY DEF Sound, Routed, RouterMatchesConfig
<1> QED
  BY <1>1, SoundAlways, PTL

\* Adopted or new, what takes traffic is probed, as long as no router was given up
\* (router.go:149-152).
THEOREM ServedIsProbed == Spec => []ServedPoolsProbed
<1>1. Sound => ServedPoolsProbed
  BY DEF Sound, Probed, ServedPoolsProbed
<1> QED
  BY <1>1, SoundAlways, PTL

\* A prober ends with the last router that kept its pool, as long as every certificate
\* could be read (proxy.go:184-187).
THEOREM ProbersEnd == Spec => []NoOrphanProber
<1>1. Sound => NoOrphanProber
  <2> SUFFICES ASSUME Sound, AtRest, "cert" \notin failed PROVE probing \subseteq PoolsOf(Serving.router)
    BY DEF NoOrphanProber
  <2>1. build.pc = "idle" /\ build.router = <<>> /\ PoolsOf(<<>>) = {}
    BY RouterType DEF AtRest, Sound, Drafted
  <2> QED
    BY <2>1 DEF Sound, Probed, Fitting
<1> QED
  BY <1>1, SoundAlways, PTL

\* No reload misses a certificate file that was replaced before it began, unless an earlier
\* one had stamped another file than it read (router.go:219, 263-264).
THEOREM CertsAreNoticed == Spec => []ReloadNoticesCert
<1>1. Sound => ReloadNoticesCert
  BY DEF Sound, Closing, Noticed, ReloadNoticesCert
<1> QED
  BY <1>1, SoundAlways, PTL

\* Whatever fails, the lists in use after a reload that succeeded are the ones that are
\* refreshed (proxy.go:88-95).
THEOREM ListsAreFollowed == Spec => [](OneManager /\ ServedGroupsRefreshed)
<1>1. Sound => OneManager /\ ServedGroupsRefreshed
  BY DEF Sound, Listed, OneManager, ServedGroupsRefreshed
<1> QED
  BY <1>1, SoundAlways, PTL

-----------------------------------------------------------------------------
(* The pools that a reload opens (UpstreamPool).                           *)

HIDE PlaneReloadAssumption

\* A set of numbers with every number whose predecessors it has is all of Nat.
LEMMA Least ==
  ASSUME NEW X \in SUBSET Nat, \A n \in Nat : (\A m \in Nat : m < n => m \in X) => n \in X
  PROVE  X = Nat
<1> SUFFICES ASSUME Nat \ X # {} PROVE FALSE
  OBVIOUS
<1>1. PICK n \in Nat \ X : \A m \in Nat \ X : ~(<<m, n>> \in OpToRel(<, Nat))
  <2>1. IsWellFoundedOn(OpToRel(<, Nat), Nat)
    BY NatLessThanWellFounded
  <2> QED
    BY <2>1, WFMin
<1>2. \A m \in Nat : m < n => m \in X
  BY <1>1 DEF OpToRel
<1> QED
  BY <1>1, <1>2

\* The recursion of the fold behind Sum: h gives the sums of the smaller sets.
Chosen(s)     == CHOOSE x \in s : TRUE
Body(f, h, s) == IF s = {} THEN 0 ELSE f[Chosen(s)] + h[s \ {Chosen(s)}]

\* g has the sum of f over every subset of S.
Sums(f, S, g) == g = [s \in SUBSET S |-> Body(f, g, s)]

LEMMA SumIs ==
  ASSUME NEW f, NEW S
  PROVE  Sum(f, S) = (CHOOSE g : Sums(f, S, g))[S]
BY DEF Sum, MapThenSumSet, MapThenFoldSet, Body, Chosen, Sums

LEMMA Smaller ==
  ASSUME NEW S, IsFiniteSet(S), NEW s \in SUBSET S
  PROVE  /\ IsFiniteSet(s) /\ Cardinality(s) \in Nat /\ Cardinality(s) <= Cardinality(S)
         /\ s # {} => /\ Chosen(s) \in s /\ s \ {Chosen(s)} \in SUBSET S
                      /\ Cardinality(s \ {Chosen(s)}) = Cardinality(s) - 1 /\ Cardinality(s) > 0
<1>1. IsFiniteSet(s) /\ Cardinality(s) <= Cardinality(S)
  BY FS_Subset
<1>2. Cardinality(s) \in Nat /\ (Cardinality(s) = 0 <=> s = {})
  BY <1>1, FS_CardinalityType, FS_EmptySet
<1>3. s # {} => Chosen(s) \in s
  BY DEF Chosen
<1>4. s # {} => Cardinality(s \ {Chosen(s)}) = Cardinality(s) - 1
  BY <1>1, <1>3, FS_RemoveElement
<1>5. s \ {Chosen(s)} \in SUBSET S
  OBVIOUS
<1> QED
  BY <1>1, <1>2, <1>3, <1>4, <1>5

\* The fold is defined on every finite set.
LEMMA SumsExist ==
  ASSUME NEW f, NEW S, IsFiniteSet(S)
  PROVE  \E g : Sums(f, S, g)
<1> DEFINE Upto(h, n) == \A s \in SUBSET S : Cardinality(s) <= n => h[s] = Body(f, h, s)
           X == {n \in Nat : \E h : Upto(h, n)}
<1>1. ASSUME NEW n \in Nat, \A m \in Nat : m < n => m \in X PROVE n \in X
  <2>1. CASE n = 0
    <3> DEFINE h == [s \in SUBSET S |-> 0]
    <3>1. ASSUME NEW s \in SUBSET S, Cardinality(s) <= 0 PROVE h[s] = Body(f, h, s)
      BY <3>1, Smaller DEF Body
    <3>2. Upto(h, 0)
      BY <3>1
    <3> QED
      BY <2>1, <3>2
  <2>2. CASE n # 0
    <3>1. n - 1 \in Nat /\ n - 1 < n
      BY <2>2
    <3>2. PICK h : Upto(h, n - 1)
      BY <1>1, <3>1
    <3> DEFINE g == [s \in SUBSET S |-> Body(f, h, s)]
    <3>3. ASSUME NEW s \in SUBSET S, Cardinality(s) <= n PROVE g[s] = Body(f, g, s)
      <4>1. CASE s = {}
        BY <4>1 DEF Body
      <4>2. CASE s # {}
        <5> DEFINE r == s \ {Chosen(s)}
        <5>1. r \in SUBSET S /\ Cardinality(r) <= n - 1
          <6>1. r \in SUBSET S /\ Cardinality(r) = Cardinality(s) - 1 /\ Cardinality(s) \in Nat
            BY <4>2, Smaller
          <6> QED
            BY <3>3, <6>1
        <5>2. g[r] = h[r]
          BY <3>2, <5>1
        <5> QED
          BY <4>2, <5>2 DEF Body
      <4> QED
        BY <4>1, <4>2
    <3>4. Upto(g, n)
      BY <3>3
    <3> QED
      BY <3>4
  <2> QED
    BY <2>1, <2>2
<1>2. X = Nat
  <2> HIDE DEF Upto
  <2>1. X \in SUBSET Nat
    OBVIOUS
  <2> HIDE DEF X
  <2> QED
    BY <1>1, <2>1, Least
<1>3. PICK h : Upto(h, Cardinality(S))
  <2>1. Cardinality(S) \in Nat
    BY FS_CardinalityType
  <2>2. \A n \in Nat : \E h : Upto(h, n)
    BY <1>2
  <2> QED
    BY <2>1, <2>2
<1> DEFINE g == [s \in SUBSET S |-> h[s]]
<1>4. ASSUME NEW s \in SUBSET S PROVE h[s] = Body(f, g, s)
  <2>1. h[s] = Body(f, h, s)
    BY <1>3, Smaller
  <2> QED
    BY <2>1, Smaller DEF Body
<1>5. g = [s \in SUBSET S |-> Body(f, g, s)]
  BY <1>4
<1> QED
  BY <1>5 DEF Sums

\* All that a step of the recursion says.
LEMMA SumsAt ==
  ASSUME NEW f, NEW S, NEW g, Sums(f, S, g), NEW s \in SUBSET S
  PROVE  g[s] = Body(f, g, s)
<1> DEFINE b == [r \in SUBSET S |-> Body(f, g, r)]
<1>1. g = b
  BY DEF Sums
<1>2. b[s] = Body(f, g, s)
  OBVIOUS
<1> HIDE DEF b
<1> QED
  BY <1>1, <1>2

\* ... and agrees with itself wherever it is taken.
LEMMA SumsAgree ==
  ASSUME NEW f, NEW S, NEW T, IsFiniteSet(S), NEW g, NEW h, Sums(f, S, g), Sums(f, T, h),
         NEW s \in SUBSET S, s \subseteq T
  PROVE  g[s] = h[s]
<1> DEFINE X == {n \in Nat : \A r \in SUBSET S : r \subseteq T /\ Cardinality(r) = n => g[r] = h[r]}
<1>1. ASSUME NEW n \in Nat, \A m \in Nat : m < n => m \in X PROVE n \in X
  <2> SUFFICES ASSUME NEW r \in SUBSET S, r \subseteq T, Cardinality(r) = n PROVE g[r] = h[r]
    OBVIOUS
  <2>1. g[r] = Body(f, g, r) /\ h[r] = Body(f, h, r)
    BY SumsAt
  <2>2. CASE r = {}
    BY <2>1, <2>2 DEF Body
  <2>3. CASE r # {}
    <3> DEFINE q == r \ {Chosen(r)}
    <3>1. q \in SUBSET S /\ q \subseteq T /\ Cardinality(q) \in Nat /\ Cardinality(q) < n
      BY <2>3, Smaller
    <3>2. g[q] = h[q]
      BY <1>1, <3>1
    <3> QED
      BY <2>1, <2>3, <3>2 DEF Body
  <2> QED
    BY <2>2, <2>3
<1>2. X = Nat
  <2>1. X \in SUBSET Nat
    OBVIOUS
  <2> HIDE DEF X
  <2> QED
    BY <1>1, <2>1, Least
<1>3. Cardinality(s) \in Nat
  BY Smaller
<1> QED
  BY <1>2, <1>3

LEMMA SumSums ==
  ASSUME NEW f, NEW S, IsFiniteSet(S)
  PROVE  \E g : Sums(f, S, g) /\ Sum(f, S) = g[S]
<1> DEFINE g == CHOOSE g : Sums(f, S, g)
<1>1. Sums(f, S, g)
  BY SumsExist
<1>2. Sum(f, S) = g[S]
  BY SumIs
<1> QED
  BY <1>1, <1>2

\* The fold takes the chosen member first.
LEMMA SumChosen ==
  ASSUME NEW f, NEW S, IsFiniteSet(S)
  PROVE  /\ S = {} => Sum(f, S) = 0
         /\ S # {} => Sum(f, S) = f[Chosen(S)] + Sum(f, S \ {Chosen(S)})
<1>1. PICK g : Sums(f, S, g) /\ Sum(f, S) = g[S]
  BY SumSums
<1>2. g[S] = Body(f, g, S)
  BY <1>1, SumsAt
<1>3. CASE S = {}
  BY <1>1, <1>2, <1>3 DEF Body
<1>4. CASE S # {}
  <2> DEFINE T == S \ {Chosen(S)}
  <2>1. T \in SUBSET S /\ IsFiniteSet(T)
    BY FS_Subset
  <2>2. PICK h : Sums(f, T, h) /\ Sum(f, T) = h[T]
    BY <2>1, SumSums
  <2>3. g[T] = h[T]
    BY <1>1, <2>1, <2>2, SumsAgree
  <2> QED
    BY <1>1, <1>2, <1>4, <2>2, <2>3 DEF Body
<1> QED
  BY <1>3, <1>4

LEMMA SumEmpty == \A f : Sum(f, {}) = 0
BY FS_EmptySet, SumChosen

\* Every member of S has a number.
Numbers(f, S) == \A x \in S : f[x] \in Int

LEMMA SumType ==
  ASSUME NEW f, NEW S, IsFiniteSet(S), Numbers(f, S)
  PROVE  Sum(f, S) \in Int
<1> DEFINE X == {n \in Nat : \A T \in SUBSET S : Cardinality(T) = n => Sum(f, T) \in Int}
<1>1. ASSUME NEW n \in Nat, \A m \in Nat : m < n => m \in X PROVE n \in X
  <2> SUFFICES ASSUME NEW T \in SUBSET S, Cardinality(T) = n PROVE Sum(f, T) \in Int
    OBVIOUS
  <2>1. IsFiniteSet(T)
    BY Smaller
  <2>2. CASE T = {}
    BY <2>2, SumEmpty
  <2>3. CASE T # {}
    <3>1. /\ Chosen(T) \in T /\ T \ {Chosen(T)} \in SUBSET S
          /\ Cardinality(T \ {Chosen(T)}) \in Nat /\ Cardinality(T \ {Chosen(T)}) < n
      BY <2>3, Smaller
    <3>2. Sum(f, T \ {Chosen(T)}) \in Int
      BY <1>1, <3>1
    <3>3. f[Chosen(T)] \in Int
      BY <3>1 DEF Numbers
    <3> QED
      BY <2>1, <2>3, <3>2, <3>3, SumChosen
  <2> QED
    BY <2>2, <2>3
<1>2. X = Nat
  <2>1. X \in SUBSET Nat
    OBVIOUS
  <2> HIDE DEF X
  <2> QED
    BY <1>1, <2>1, Least
<1>3. Cardinality(S) \in Nat
  BY FS_CardinalityType
<1> QED
  BY <1>2, <1>3

\* Any member may be taken first.
LEMMA SumSplit ==
  ASSUME NEW f, NEW S, IsFiniteSet(S), Numbers(f, S), NEW x \in S
  PROVE  Sum(f, S) = f[x] + Sum(f, S \ {x})
<1> DEFINE X == {n \in Nat : \A T \in SUBSET S : Cardinality(T) = n =>
                   \A y \in T : Sum(f, T) = f[y] + Sum(f, T \ {y})}
<1>1. ASSUME NEW n \in Nat, \A m \in Nat : m < n => m \in X PROVE n \in X
  <2> SUFFICES ASSUME NEW T \in SUBSET S, Cardinality(T) = n, NEW y \in T
               PROVE  Sum(f, T) = f[y] + Sum(f, T \ {y})
    OBVIOUS
  <2>1. PICK z : z = Chosen(T)
    OBVIOUS
  <2>2. /\ IsFiniteSet(T) /\ z \in T /\ T \ {z} \in SUBSET S
        /\ Cardinality(T \ {z}) \in Nat /\ Cardinality(T \ {z}) < n
    BY <2>1, Smaller
  <2>3. Sum(f, T) = f[z] + Sum(f, T \ {z})
    BY <2>1, <2>2, SumChosen
  <2>4. CASE y = z
    BY <2>3, <2>4
  <2>5. CASE y # z
    <3>1. Sum(f, T \ {z}) = f[y] + Sum(f, (T \ {z}) \ {y})
      BY <1>1, <2>2, <2>5
    <3>2. IsFiniteSet(T \ {y}) /\ Cardinality(T \ {y}) = n - 1 /\ n - 1 \in Nat
      BY <2>2, FS_RemoveElement, FS_CardinalityType
    <3>3. Sum(f, T \ {y}) = f[z] + Sum(f, (T \ {y}) \ {z})
      <4>1. T \ {y} \in SUBSET S /\ z \in T \ {y} /\ n - 1 < n
        BY <2>2, <2>5
      <4> QED
        BY <1>1, <3>2, <4>1
    <3>4. (T \ {y}) \ {z} = (T \ {z}) \ {y}
      OBVIOUS
    <3>5. IsFiniteSet((T \ {z}) \ {y}) /\ Numbers(f, (T \ {z}) \ {y})
      BY <2>2, FS_Subset DEF Numbers
    <3>6. Sum(f, (T \ {z}) \ {y}) \in Int
      BY <3>5, SumType
    <3>7. f[y] \in Int /\ f[z] \in Int
      BY <2>2 DEF Numbers
    <3>8. PICK rest \in Int : rest = Sum(f, (T \ {z}) \ {y})
      BY <3>6
    <3>9. Sum(f, T) = f[z] + (f[y] + rest) /\ Sum(f, T \ {y}) = f[z] + rest
      BY <2>3, <3>1, <3>3, <3>4, <3>8
    <3> QED
      BY <3>7, <3>8, <3>9
  <2> QED
    BY <2>4, <2>5
<1>2. X = Nat
  <2>1. X \in SUBSET Nat
    OBVIOUS
  <2> HIDE DEF X
  <2> QED
    BY <1>1, <2>1, Least
<1>3. Cardinality(S) \in Nat
  BY FS_CardinalityType
<1> QED
  BY <1>2, <1>3

\* r is c with w added at the members of A.
LEMMA SumRaise ==
  ASSUME NEW S, IsFiniteSet(S), NEW A \in SUBSET S, NEW r, NEW c, NEW w,
         Numbers(c, S), Numbers(w, S),
         \A x \in S : r[x] = IF x \in A THEN c[x] + w[x] ELSE c[x]
  PROVE  Sum(r, S) = Sum(c, S) + Sum(w, A)
<1> DEFINE X == {n \in Nat : \A T \in SUBSET S : Cardinality(T) = n =>
                   Sum(r, T) = Sum(c, T) + Sum(w, A \cap T)}
<1>0. Numbers(r, S)
  BY DEF Numbers
<1>1. ASSUME NEW n \in Nat, \A m \in Nat : m < n => m \in X PROVE n \in X
  <2> SUFFICES ASSUME NEW T \in SUBSET S, Cardinality(T) = n
               PROVE  Sum(r, T) = Sum(c, T) + Sum(w, A \cap T)
    OBVIOUS
  <2>1. IsFiniteSet(T) /\ IsFiniteSet(A \cap T)
    <3>1. A \cap T \in SUBSET S
      OBVIOUS
    <3> QED
      BY <3>1, Smaller
  <2>2. CASE T = {}
    <3>1. A \cap T = {}
      BY <2>2
    <3> QED
      BY <2>2, <3>1, SumEmpty
  <2>3. CASE T # {}
    <3>1. PICK z : z = Chosen(T)
      OBVIOUS
    <3>2. /\ z \in T /\ T \ {z} \in SUBSET S /\ IsFiniteSet(T \ {z})
          /\ Cardinality(T \ {z}) \in Nat /\ Cardinality(T \ {z}) < n
      <4>1. /\ IsFiniteSet(T) /\ Cardinality(T) \in Nat
            /\ z \in T /\ T \ {z} \in SUBSET S /\ Cardinality(T \ {z}) = Cardinality(T) - 1
            /\ Cardinality(T) > 0
        BY <2>3, <3>1, Smaller
      <4>2. IsFiniteSet(T \ {z})
        BY <4>1, FS_RemoveElement
      <4> QED
        BY <4>1, <4>2
    <3>3. Sum(r, T \ {z}) = Sum(c, T \ {z}) + Sum(w, A \cap (T \ {z}))
      BY <1>1, <3>2
    <3>4. /\ Sum(r, T) = r[z] + Sum(r, T \ {z})
          /\ Sum(c, T) = c[z] + Sum(c, T \ {z})
      BY <2>1, <2>3, <3>1, SumChosen
    <3>5. Sum(c, T \ {z}) \in Int /\ Sum(w, A \cap (T \ {z})) \in Int
      <4>1. Numbers(c, T \ {z}) /\ Numbers(w, A \cap (T \ {z})) /\ A \cap (T \ {z}) \in SUBSET S
        BY DEF Numbers
      <4>2. IsFiniteSet(A \cap (T \ {z}))
        BY <4>1, Smaller
      <4> QED
        BY <3>2, <4>1, <4>2, SumType
    <3>6. c[z] \in Int /\ w[z] \in Int
      BY <3>2 DEF Numbers
    <3>7. PICK a \in Int, b \in Int :
            a = Sum(c, T \ {z}) /\ b = Sum(w, A \cap (T \ {z}))
      BY <3>5
    <3>8. Sum(r, T \ {z}) = a + b
      BY <3>3, <3>7
    <3>9. CASE z \in A
      <4>1. Numbers(w, A \cap T) /\ z \in A \cap T /\ (A \cap T) \ {z} = A \cap (T \ {z})
        BY <3>2, <3>9 DEF Numbers
      <4>2. Sum(w, A \cap T) = w[z] + Sum(w, A \cap (T \ {z}))
        BY <2>1, <4>1, SumSplit
      <4>3. r[z] = c[z] + w[z]
        BY <3>2, <3>9
      <4> QED
        BY <3>4, <3>6, <3>7, <3>8, <4>2, <4>3
    <3>10. CASE z \notin A
      <4>1. A \cap T = A \cap (T \ {z})
        BY <3>10
      <4>2. r[z] = c[z]
        BY <3>2, <3>10
      <4>3. Sum(w, A \cap T) = b
        BY <3>7, <4>1
      <4> QED
        BY <3>4, <3>6, <3>7, <3>8, <4>2, <4>3
    <3> QED
      BY <3>9, <3>10
  <2> QED
    BY <2>2, <2>3
<1>2. X = Nat
  <2>1. X \in SUBSET Nat
    OBVIOUS
  <2> HIDE DEF X
  <2> QED
    BY <1>1, <2>1, Least
<1>3. Cardinality(S) \in Nat /\ A \cap S = A
  BY FS_CardinalityType
<1> QED
  BY <1>2, <1>3

\* Functions that agree on S have the same sum.
LEMMA SumSame ==
  ASSUME NEW S, IsFiniteSet(S), NEW r, NEW c, Numbers(c, S), \A x \in S : r[x] = c[x]
  PROVE  Sum(r, S) = Sum(c, S)
<1>1. IsFiniteSet({}) /\ {} \in SUBSET S
  BY FS_EmptySet
<1>2. Sum(c, {}) = 0
  BY <1>1, SumChosen
<1>3. Sum(r, S) = Sum(c, S) + Sum(c, {})
  BY <1>1, SumRaise
<1>4. Sum(c, S) \in Int
  BY SumType
<1> QED
  BY <1>2, <1>3, <1>4

\* One value changes.
LEMMA SumChange ==
  ASSUME NEW S, IsFiniteSet(S), NEW r, NEW c, Numbers(c, S), NEW n \in S, r[n] \in Int,
         \A x \in S \ {n} : r[x] = c[x]
  PROVE  Sum(r, S) = Sum(c, S) - c[n] + r[n]
<1>1. Numbers(r, S) /\ Numbers(c, S \ {n}) /\ IsFiniteSet(S \ {n}) /\ c[n] \in Int
  BY FS_RemoveElement DEF Numbers
<1>2. Sum(r, S) = r[n] + Sum(r, S \ {n})
      /\ Sum(c, S) = c[n] + Sum(c, S \ {n})
  BY <1>1, SumSplit
<1>3. Sum(r, S \ {n}) = Sum(c, S \ {n})
  BY <1>1, SumSame
<1>4. Sum(c, S \ {n}) \in Int
  BY <1>1, SumType
<1> QED
  BY <1>1, <1>2, <1>3, <1>4

\* What is not negative anywhere has no smaller sum than any of its values.
LEMMA SumOfNats ==
  ASSUME NEW S, IsFiniteSet(S), NEW f, \A x \in S : f[x] \in Nat
  PROVE  Sum(f, S) \in Nat /\ \A x \in S : f[x] <= Sum(f, S)
<1> DEFINE X == {n \in Nat : \A T \in SUBSET S : Cardinality(T) = n => Sum(f, T) \in Nat}
<1>1. ASSUME NEW n \in Nat, \A m \in Nat : m < n => m \in X PROVE n \in X
  <2> SUFFICES ASSUME NEW T \in SUBSET S, Cardinality(T) = n PROVE Sum(f, T) \in Nat
    OBVIOUS
  <2>1. IsFiniteSet(T)
    BY Smaller
  <2>2. CASE T = {}
    BY <2>2, SumEmpty
  <2>3. CASE T # {}
    <3>1. /\ Chosen(T) \in T /\ T \ {Chosen(T)} \in SUBSET S
          /\ Cardinality(T \ {Chosen(T)}) \in Nat /\ Cardinality(T \ {Chosen(T)}) < n
      BY <2>3, Smaller
    <3>2. Sum(f, T \ {Chosen(T)}) \in Nat
      BY <1>1, <3>1
    <3>3. f[Chosen(T)] \in Nat
      BY <3>1
    <3> QED
      BY <2>1, <2>3, <3>2, <3>3, SumChosen
  <2> QED
    BY <2>2, <2>3
<1>2. X = Nat
  <2>1. X \in SUBSET Nat
    OBVIOUS
  <2> HIDE DEF X
  <2> QED
    BY <1>1, <2>1, Least
<1>3. \A T \in SUBSET S : Sum(f, T) \in Nat
  <2> TAKE T \in SUBSET S
  <2>1. Cardinality(T) \in Nat
    BY Smaller
  <2> QED
    BY <1>2, <2>1
<1>4. ASSUME NEW x \in S PROVE f[x] <= Sum(f, S)
  <2>1. Sum(f, S) = f[x] + Sum(f, S \ {x})
    BY SumSplit DEF Numbers
  <2>2. Sum(f, S \ {x}) \in Nat
    BY <1>3
  <2> QED
    BY <2>1, <2>2
<1> QED
  BY <1>3, <1>4

\* What the constants say of the nodes.
LEMMA Nodes ==
  /\ IsFiniteSet(Node) /\ Len(Weight) \in Nat /\ Len(Weight) > 0
  /\ \A n \in Node : Weight[n] \in Nat /\ Weight[n] > 0 /\ n \in Nat
                              /\ Weight[n] <= Total
  /\ Numbers(Weight, Node) /\ Total \in Nat /\ Total > 0
  /\ Weight = [n \in Node |-> Weight[n]]
<1> DEFINE N == Node
<1>1. Weight \in Seq(Nat \ {0}) /\ Weight # <<>>
  BY UpstreamPoolAssumption
<1>2. Len(Weight) \in Nat /\ Len(Weight) > 0 /\ \A n \in N : Weight[n] \in Nat /\ Weight[n] > 0 /\ n \in Nat
  BY <1>1 DEF Node
<1>3. IsFiniteSet(N)
  BY <1>2, FS_Interval DEF Node
<1>4. Total \in Nat /\ \A n \in N : Weight[n] <= Total
  BY <1>2, <1>3, SumOfNats DEF Total
<1>5. 1 \in N
  BY <1>2 DEF Node
<1>6. Total > 0
  BY <1>2, <1>4, <1>5
<1>7. Weight = [n \in N |-> Weight[n]]
  BY <1>1 DEF Node
<1> QED
  BY <1>2, <1>3, <1>4, <1>6, <1>7 DEF Numbers

\* The first of the greatest.
LEMMA Greatest ==
  ASSUME NEW S, IsFiniteSet(S), S \subseteq Nat, S # {}, NEW f, Numbers(f, S)
  PROVE  \E n \in S : \A m \in S : f[m] <= f[n] /\ (m < n => f[m] < f[n])
<1> DEFINE Top(T, n) == \A m \in T : f[m] <= f[n] /\ (m < n => f[m] < f[n])
           X == {k \in Nat : \A T \in SUBSET S : Cardinality(T) = k /\ T # {} => \E n \in T : Top(T, n)}
<1>1. ASSUME NEW k \in Nat, \A m \in Nat : m < k => m \in X PROVE k \in X
  <2> SUFFICES ASSUME NEW T \in SUBSET S, Cardinality(T) = k, T # {} PROVE \E n \in T : Top(T, n)
    OBVIOUS
  <2>1. PICK z : z = Chosen(T)
    OBVIOUS
  <2>2. /\ z \in T /\ T \ {z} \in SUBSET S /\ f[z] \in Int /\ z \in Nat
        /\ Cardinality(T \ {z}) \in Nat /\ Cardinality(T \ {z}) < k
    <3>1. z \in T /\ T \ {z} \in SUBSET S /\ Cardinality(T \ {z}) = k - 1 /\ k > 0
      BY <2>1, Smaller
    <3> QED
      BY <3>1 DEF Numbers
  <2>3. CASE T \ {z} = {}
    <3>1. Top(T, z)
      BY <2>2, <2>3
    <3> QED
      BY <2>2, <3>1
  <2>4. CASE T \ {z} # {}
    <3>1. PICK n \in T \ {z} : Top(T \ {z}, n)
      BY <1>1, <2>2, <2>4
    <3>2. f[n] \in Int /\ n \in Nat /\ \A m \in T : f[m] \in Int /\ m \in Nat
      BY DEF Numbers
    <3>3. CASE f[z] > f[n] \/ (f[z] = f[n] /\ z < n)
      <4>1. Top(T, z)
        BY <2>2, <3>1, <3>2, <3>3
      <4> QED
        BY <2>2, <4>1
    <3>4. CASE ~(f[z] > f[n] \/ (f[z] = f[n] /\ z < n))
      <4>1. Top(T, n)
        BY <2>2, <3>1, <3>2, <3>4
      <4> QED
        BY <4>1
    <3> QED
      BY <3>3, <3>4
  <2> QED
    BY <2>3, <2>4
<1>2. X = Nat
  <2>1. X \in SUBSET Nat
    OBVIOUS
  <2> HIDE DEF X
  <2> QED
    BY <1>1, <2>1, Least
<1>3. Cardinality(S) \in Nat
  BY FS_CardinalityType
<1> QED
  BY <1>2, <1>3

\* Weights and tallies are numbers.
Scales ==
  /\ cw \in [Node -> Int]
  /\ served \in [ok : BOOLEAN, picks : [Node -> Nat]]

LEMMA BestIsGreatest ==
  ASSUME Scales, Available # {}
  PROVE  /\ Best \in Available
         /\ \A m \in Available : Raised[m] <= Raised[Best]
         /\ Raised \in [Node -> Int]
<1> DEFINE A == Available
           R == Raised
<1>1. A \subseteq Node
  BY DEF Available
<1>2. \A n \in Node : Weight[n] \in Nat /\ n \in Nat
  BY Nodes
<1>3. R \in [Node -> Int]
  BY <1>2 DEF Scales, Raised
<1>4. IsFiniteSet(A) /\ Numbers(R, A) /\ A \subseteq Nat
  BY <1>1, <1>2, <1>3, Nodes, FS_Subset DEF Numbers
<1> HIDE DEF R
<1>5. PICK n \in A : \A m \in A : R[m] <= R[n] /\ (m < n => R[m] < R[n])
  BY <1>4, Greatest
<1>6. n \in A /\ \A m \in A : ~(R[m] > R[n]) /\ (m < n => R[n] > R[m])
  BY <1>4, <1>5 DEF Numbers
<1>7. \E b \in A : \A m \in A : ~Heavier(m, b) /\ (m < b => Heavier(b, m))
  BY <1>6 DEF Heavier, R
<1>8. Best \in A /\ \A m \in A : ~Heavier(m, Best)
  BY <1>7 DEF Best
<1>9. \A m \in A : ~(R[m] > R[Best])
  BY <1>8 DEF Heavier, R
<1>10. \A m \in A : R[m] <= R[Best]
  BY <1>4, <1>8, <1>9 DEF Numbers
<1> QED
  BY <1>3, <1>8, <1>10 DEF R

\* A pick, in numbers.
LEMMA Picked ==
  ASSUME Scales, NEW q \in Proxied, PickAvailable(q)
  PROVE  \E b \in Available :
           /\ \A m \in Available : cw[m] + Weight[m] <= cw[b] + Weight[b]
           /\ cw' \in [Node -> Int]
           /\ \A m \in Node \ {b} :
                cw'[m] = IF m \in Available THEN cw[m] + Weight[m] ELSE cw[m]
           /\ cw'[b] = cw[b] + Weight[b] - Sum(Weight, Available)
           /\ served' = Tally(b)
           /\ Sum(Weight, Available) \in Nat
           /\ Available \subseteq Node
<1> DEFINE A == Available
           R == Raised
<1>1. A # {} /\ A \subseteq Node
  BY DEF PickAvailable, Available
<1>2. PICK b : b = Best
  OBVIOUS
<1>3. b \in A /\ (\A m \in A : R[m] <= R[b]) /\ R \in [Node -> Int]
  BY <1>1, <1>2, BestIsGreatest
<1>4. \A m \in Node : R[m] = IF m \in A THEN cw[m] + Weight[m] ELSE cw[m]
  BY DEF Raised
<1>5. Charge = Sum(Weight, A) /\ Sum(Weight, A) \in Nat
  <2>1. IsFiniteSet(A) /\ \A x \in A : Weight[x] \in Nat
    BY <1>1, Nodes, FS_Subset
  <2> QED
    BY <2>1, SumOfNats DEF Charge
<1>6. cw' = [R EXCEPT ![b] = @ - Charge] /\ served' = Tally(b)
  BY <1>2 DEF PickAvailable
<1> HIDE DEF R
<1>7. \A m \in A : cw[m] + Weight[m] <= cw[b] + Weight[b]
  BY <1>1, <1>3, <1>4
<1>8. cw' \in [Node -> Int] /\ \A m \in Node \ {b} : cw'[m] = R[m]
  BY <1>1, <1>3, <1>5, <1>6
<1>9. cw'[b] = cw[b] + Weight[b] - Sum(Weight, A)
  <2>1. b \in Node /\ cw'[b] = R[b] - Charge
    BY <1>1, <1>3, <1>6
  <2>2. R[b] = cw[b] + Weight[b] /\ cw[b] \in Int /\ Weight[b] \in Int
    BY <1>3, <1>4, <2>1, Nodes DEF Scales
  <2> QED
    BY <1>5, <2>1, <2>2
<1> QED
  BY <1>1, <1>3, <1>4, <1>5, <1>6, <1>7, <1>8, <1>9

\* Every step but a choice leaves the weights alone, and may end the round.
LEMMA OtherSteps ==
  ASSUME [PoolNext]_poolVars
  PROVE  \/ \E q \in Proxied : PickAvailable(q)
         \/ cw' = cw /\ (served' = served \/ served' = [ok |-> FALSE, picks |-> Zero])
<1>1. CASE \E q \in Proxied : Forward(q)
  BY <1>1 DEF Forward, PickFailOpen, Fail, Open,
     Reset, Succeed
<1>2. CASE Probe
  BY <1>2 DEF Probe, ProbeTick, ProbeAnswer, ProbeFail,
     ProbeSuccess
<1>3. CASE Tick
  BY <1>3 DEF Tick
<1>4. CASE \E n \in Node : BackendDown(n) \/ BackendUp(n)
  BY <1>4 DEF BackendDown, BackendUp
<1>5. CASE UNCHANGED poolVars
  BY <1>5 DEF poolVars
<1> QED
  BY <1>1, <1>2, <1>3, <1>4, <1>5 DEF PoolNext

LEMMA TallyType ==
  ASSUME Scales, NEW b \in Node
  PROVE  Tally(b) \in [ok : BOOLEAN, picks : [Node -> Nat]]
<1>1. /\ served.ok \in BOOLEAN /\ served.picks \in [Node -> Nat]
      /\ Zero \in [Node -> Nat]
      /\ [Zero EXCEPT ![b] = 1] \in [Node -> Nat]
      /\ [served.picks EXCEPT ![b] = @ + 1] \in [Node -> Nat]
  BY DEF Scales, Zero
<1>2. (served.ok /\ Available = Node) \in BOOLEAN
  OBVIOUS
<1> QED
  BY <1>1, <1>2 DEF Tally

LEMMA ScalesKept ==
  ASSUME Scales, [PoolNext]_poolVars
  PROVE  Scales'
<1>1. CASE \E q \in Proxied : PickAvailable(q)
  <2>1. PICK q \in Proxied : PickAvailable(q)
    BY <1>1
  <2>2. PICK b \in Node : cw' \in [Node -> Int] /\ served' = Tally(b)
    BY <2>1, Picked
  <2> QED
    BY <2>2, TallyType DEF Scales, Node
<1>2. CASE cw' = cw /\ (served' = served \/ served' = [ok |-> FALSE, picks |-> Zero])
  <2>1. Zero \in [Node -> Nat]
    BY DEF Zero
  <2>2. [ok |-> FALSE, picks |-> Zero] \in [ok : BOOLEAN, picks : [Node -> Nat]]
    BY <2>1
  <2> QED
    BY <1>2, <2>2 DEF Scales, Node
<1> QED
  BY <1>1, <1>2, OtherSteps

LEMMA ZeroSum ==
  Sum(Zero, Node) = 0
<1>1. IsFiniteSet(Node) /\ Numbers(Zero, Node)
      /\ \A x \in Node : Zero[x] = 0
  BY Nodes DEF Numbers, Zero
<1> DEFINE z == Sum(Zero, Node)
<1>2. z \in Int
  BY <1>1, SumType
<1>3. z = z + z
  BY <1>1, SumRaise
<1> HIDE DEF z
<1>4. z = 0
  BY <1>2, <1>3
<1> QED
  BY <1>4 DEF z

\* What the chosen node pays is what the available ones were given.
LEMMA PickBalances ==
  ASSUME Scales, NEW b \in Available, NEW d,
         Available \subseteq Node,
         d \in [Node -> Int],
         \A m \in Node \ {b} :
           d[m] = IF m \in Available THEN cw[m] + Weight[m] ELSE cw[m],
         d[b] = cw[b] + Weight[b] - Sum(Weight, Available)
  PROVE  Sum(d, Node) = Sum(cw, Node)
<1> DEFINE N == Node
           A == Available
           R == [m \in N |-> IF m \in A THEN cw[m] + Weight[m] ELSE cw[m]]
<1>1. IsFiniteSet(N) /\ Numbers(cw, N) /\ Numbers(Weight, N) /\ Numbers(d, N) /\ Numbers(R, N)
      /\ \A x \in N : R[x] = IF x \in A THEN cw[x] + Weight[x] ELSE cw[x]
  <2>1. \A x \in N : R[x] = IF x \in A THEN cw[x] + Weight[x] ELSE cw[x]
    OBVIOUS
  <2> HIDE DEF R
  <2>2. IsFiniteSet(N) /\ Numbers(Weight, N)
    BY Nodes
  <2>3. Numbers(cw, N) /\ Numbers(d, N)
    BY DEF Numbers, Scales
  <2>4. ASSUME NEW x \in N PROVE R[x] \in Int
    <3>1. cw[x] \in Int /\ cw[x] + Weight[x] \in Int
      BY <2>2, <2>3 DEF Numbers
    <3> QED
      BY <2>1, <3>1
  <2> QED
    BY <2>1, <2>2, <2>3, <2>4 DEF Numbers
<1> HIDE DEF R
<1>2. Sum(R, N) = Sum(cw, N) + Sum(Weight, A)
  BY <1>1, SumRaise
<1>3. b \in N /\ d[b] \in Int /\ \A x \in N \ {b} : d[x] = R[x]
  BY <1>1
<1>4. Sum(d, N) = Sum(R, N) - R[b] + d[b]
  BY <1>1, <1>3, SumChange
<1>5. R[b] = cw[b] + Weight[b] /\ cw[b] \in Int /\ Weight[b] \in Int
  BY <1>1, <1>3 DEF Numbers
<1>6. IsFiniteSet(A) /\ Numbers(Weight, A)
  BY <1>1, FS_Subset DEF Numbers
<1>7. PICK k \in Int : k = Sum(cw, N)
  BY <1>1, SumType
<1>8. PICK a \in Int : a = Sum(Weight, A)
  BY <1>6, SumType
<1> QED
  BY <1>2, <1>4, <1>5, <1>7, <1>8

LEMMA BalanceKept ==
  ASSUME Scales, WeightsBalance,
         [PoolNext]_poolVars
  PROVE  WeightsBalance'
<1>1. CASE \E q \in Proxied : PickAvailable(q)
  <2>1. PICK q \in Proxied : PickAvailable(q)
    BY <1>1
  <2>2. PICK d : d = cw'
    OBVIOUS
  <2>3. Sum(d, Node) = Sum(cw, Node)
    BY <2>1, <2>2, Picked, PickBalances
  <2> QED
    BY <2>2, <2>3 DEF WeightsBalance, Node
<1>2. CASE cw' = cw
  BY <1>2 DEF WeightsBalance, Node
<1> QED
  BY <1>1, <1>2, OtherSteps

\* Whatever nodes go in and out of service, the current weights sum to zero.
THEOREM DebtsBalance ==
  PoolSpec => []WeightsBalance
<1>1. PoolInit => Scales /\ WeightsBalance
  <2>1. Zero \in [Node -> Nat]
    BY DEF Zero
  <2> QED
    BY <2>1, ZeroSum DEF PoolInit, Scales, WeightsBalance
<1>2. Scales /\ WeightsBalance /\ [PoolNext]_poolVars
      => (Scales /\ WeightsBalance)'
  BY ScalesKept, BalanceKept
<1> QED
  BY <1>1, <1>2, PTL DEF PoolSpec

\* The round: what a node is owed is its share of the picks so far less those it got.
Round ==
  served.ok =>
    /\ Sum(served.picks, Node) <= Total
    /\ \A n \in Node :
         /\ cw[n] = Sum(served.picks, Node) * Weight[n]
                      - Total * served.picks[n]
         /\ cw[n] >= 1 - Total

LEMMA Products ==
  \A t, a, b \in Nat : t * a \in Nat /\ t * (a + b) = t * a + t * b /\ (a + b) * t = a * t + b * t
<1> TAKE t, a, b \in Nat
<1>1. t * a \in Nat
  OBVIOUS
<1>2. t * (a + b) = t * a + t * b
  OBVIOUS
<1>3. (a + b) * t = a * t + b * t
  OBVIOUS
<1> QED
  BY <1>1, <1>2, <1>3

LEMMA PicksSum ==
  ASSUME Scales
  PROVE  Sum(served.picks, Node) \in Nat
<1>1. IsFiniteSet(Node) /\ \A n \in Node : served.picks[n] \in Nat
  BY Nodes DEF Scales
<1> QED
  BY <1>1, SumOfNats

\* When the round is complete every node has had its weight, and nothing is owed.
LEMMA RoundEnds ==
  ASSUME Scales, Round, served.ok,
         Sum(served.picks, Node) = Total
  PROVE  \A n \in Node : served.picks[n] = Weight[n] /\ cw[n] = 0
<1> DEFINE N == Node
           d == [n \in N |-> Weight[n] - served.picks[n]]
<1>1. ASSUME NEW n \in N PROVE d[n] \in Nat /\ Weight[n] = served.picks[n] + d[n]
  <2>1. PICK T \in Nat, w \in Nat, p \in Nat :
          T = Total /\ w = Weight[n] /\ p = served.picks[n] /\ T > 0
    BY Nodes DEF Scales
  <2>2. T * w - T * p >= 1 - T
    BY <2>1 DEF Round
  <2>3. w - p >= 0
    <3> SUFFICES ASSUME w + 1 <= p PROVE FALSE
      BY <2>1
    <3>1. PICK e \in Nat : p = w + 1 + e
      <4>1. p - (w + 1) \in Nat /\ p = w + 1 + (p - (w + 1))
        OBVIOUS
      <4> QED
        BY <4>1
    <3>2. T * p = T * (w + 1) + T * e /\ T * (w + 1) = T * w + T * 1 /\ T * 1 = T
      <4>1. w + 1 \in Nat /\ 1 \in Nat /\ T * 1 = T
        OBVIOUS
      <4> QED
        BY <3>1, <4>1, Products
    <3>3. PICK u \in Nat, v \in Nat : u = T * w /\ v = T * e
      BY Products
    <3>4. u - ((u + T) + v) >= 1 - T
      BY <2>2, <3>2, <3>3
    <3> QED
      BY <3>4
  <2> QED
    BY <2>1, <2>3
<1>2. \A x \in N : Weight[x] = IF x \in N THEN served.picks[x] + d[x] ELSE served.picks[x]
  BY <1>1
<1>3. IsFiniteSet(N) /\ Numbers(served.picks, N) /\ Numbers(d, N) /\ N \in SUBSET N
  BY <1>1, Nodes DEF Numbers, Scales
<1>4. \A n \in N : d[n] \in Nat
  BY <1>1
<1> HIDE DEF d
<1>5. Sum(Weight, N) = Sum(served.picks, N) + Sum(d, N)
  BY <1>2, <1>3, SumRaise
<1>6. Sum(d, N) \in Nat /\ \A n \in N : d[n] <= Sum(d, N)
  BY <1>3, <1>4, SumOfNats
<1>7. Sum(d, N) = 0
  BY <1>5, <1>6, Nodes DEF Total
<1>8. ASSUME NEW n \in N PROVE served.picks[n] = Weight[n]
  BY <1>1, <1>4, <1>6, <1>7, <1>3 DEF Numbers
<1>9. ASSUME NEW n \in N PROVE cw[n] = 0
  <2>1. cw[n] = Total * Weight[n] - Total * served.picks[n]
    BY DEF Round
  <2>2. Total * Weight[n] \in Int
    BY Nodes
  <2> QED
    BY <1>8, <2>1, <2>2
<1> QED
  BY <1>8, <1>9

\* With every node up, the chosen one has something to come.
LEMMA BestIsOwed ==
  ASSUME Scales, WeightsBalance,
         NEW b \in Node,
         \A m \in Node : cw[m] + Weight[m] <= cw[b] + Weight[b]
  PROVE  cw[b] + Weight[b] >= 1
<1> DEFINE N == Node
           d == [n \in N |-> 0 - (cw[n] + Weight[n])]
           R == [n \in N |-> cw[n] + Weight[n]]
<1>0. /\ IsFiniteSet(N) /\ Numbers(cw, N) /\ Numbers(Weight, N) /\ N \in SUBSET N
      /\ Numbers(R, N) /\ Numbers(d, N)
      /\ \A n \in N : cw[n] \in Int /\ Weight[n] \in Int /\ Zero[n] = 0
  <2>1. IsFiniteSet(N) /\ Numbers(Weight, N)
    BY Nodes
  <2>2. \A n \in N : cw[n] \in Int /\ Weight[n] \in Int /\ Zero[n] = 0
    BY <2>1 DEF Numbers, Scales, Zero
  <2>3. \A n \in N : d[n] \in Int /\ R[n] \in Int
    BY <2>2
  <2> HIDE DEF d, R
  <2> QED
    BY <2>1, <2>2, <2>3 DEF Numbers
<1> SUFFICES ASSUME cw[b] + Weight[b] <= 0 PROVE FALSE
  BY <1>0
<1>1. \A n \in N : d[n] \in Nat
  BY <1>0
<1>2. \A x \in N : Zero[x] = IF x \in N THEN R[x] + d[x] ELSE R[x]
  BY <1>0
<1>3. \A x \in N : R[x] = IF x \in N THEN cw[x] + Weight[x] ELSE cw[x]
  OBVIOUS
<1> HIDE DEF d, R
<1>4. Sum(Zero, N) = Sum(R, N) + Sum(d, N)
  BY <1>0, <1>2, SumRaise
<1>5. Sum(R, N) = Sum(cw, N) + Sum(Weight, N)
  BY <1>0, <1>3, SumRaise
<1>6. Sum(d, N) \in Nat
  BY <1>0, <1>1, SumOfNats
<1>7. Sum(cw, N) = 0 /\ Sum(Weight, N) > 0 /\ Sum(Weight, N) \in Nat
  BY Nodes DEF WeightsBalance, Total
<1> QED
  BY <1>4, <1>5, <1>6, <1>7, ZeroSum

LEMMA RoundKept ==
  ASSUME Scales, WeightsBalance, Round,
         [PoolNext]_poolVars
  PROVE  Round'
<1> DEFINE N == Node
           T == Total
<1>0. N' = N /\ T' = T
  BY DEF Node, Total
<1>1. CASE cw' = cw /\ (served' = served \/ served' = [ok |-> FALSE, picks |-> Zero])
  BY <1>1 DEF Round, Node, Total
<1>2. CASE \E q \in Proxied : PickAvailable(q)
  <2>1. PICK q \in Proxied : PickAvailable(q)
    BY <1>2
  <2>2. PICK b \in Available :
           /\ \A m \in Available : cw[m] + Weight[m] <= cw[b] + Weight[b]
           /\ cw' \in [N -> Int]
           /\ \A m \in N \ {b} : cw'[m] = IF m \in Available THEN cw[m] + Weight[m] ELSE cw[m]
           /\ cw'[b] = cw[b] + Weight[b] - Sum(Weight, Available)
           /\ served' = Tally(b)
           /\ Available \subseteq N
    BY <2>1, Picked
  <2>3. CASE ~(served.ok /\ Available = N)
    <3>1. ~served'.ok
      BY <2>2, <2>3 DEF Tally
    <3> QED
      BY <3>1 DEF Round
  <2>4. CASE served.ok /\ Available = N
    <3>1. /\ b \in N /\ \A m \in N \ {b} : cw'[m] = cw[m] + Weight[m]
          /\ cw'[b] = cw[b] + Weight[b] - T
          /\ IsFiniteSet(N) /\ T \in Nat /\ T > 0
          /\ \A m \in N : Weight[m] \in Nat /\ Weight[m] > 0 /\ cw[m] \in Int /\ served.picks[m] \in Nat
      BY <2>2, <2>4, Nodes DEF Total, Scales
    <3>2. cw[b] + Weight[b] >= 1
      BY <2>2, <2>4, BestIsOwed
    <3>3. \A m \in N : cw[m] >= 1 - T
      BY <2>4 DEF Round
    <3>4. ASSUME NEW m \in N PROVE cw'[m] >= 1 - T
      <4>1. CASE m = b
        BY <3>1, <3>2, <4>1
      <4>2. CASE m # b
        <5>1. cw'[m] = cw[m] + Weight[m] /\ cw[m] \in Int /\ Weight[m] \in Nat /\ cw[m] >= 1 - T
          BY <3>1, <3>3, <4>2
        <5> QED
          BY <3>1, <5>1
      <4> QED
        BY <4>1, <4>2
    <3>5. PICK k \in Nat : k = Sum(served.picks, N) /\ k <= T
      BY <2>4, PicksSum DEF Round
    <3>6. PICK p : p = served'.picks
      OBVIOUS
    <3>7. CASE k = T
      <4>1. \A n \in N : served.picks[n] = Weight[n] /\ cw[n] = 0
        BY <2>4, <3>5, <3>7, RoundEnds
      <4>2. p = [Zero EXCEPT ![b] = 1]
        BY <2>2, <2>4, <3>5, <3>6, <3>7 DEF Tally
      <4>3. /\ p[b] = 1 /\ \A x \in N \ {b} : p[x] = 0
            /\ \A x \in N : Zero[x] = 0 /\ Numbers(Zero, N)
        BY <3>1, <4>2 DEF Zero, Numbers
      <4>4. Sum(p, N) = 1
        <5>1. Sum(p, N) = Sum(Zero, N) - Zero[b] + p[b]
          <6>1. Numbers(Zero, N) /\ p[b] \in Int /\ \A x \in N \ {b} : p[x] = Zero[x]
            BY <3>1, <4>3
          <6> QED
            BY <3>1, <6>1, SumChange
        <5> QED
          BY <3>1, <4>3, <5>1, ZeroSum
      <4>5. ASSUME NEW m \in N PROVE cw'[m] = 1 * Weight[m] - T * p[m]
        <5>1. CASE m = b
          BY <3>1, <4>1, <4>3, <5>1
        <5>2. CASE m # b
          <6>1. cw'[m] = Weight[m] /\ Weight[m] \in Nat /\ p[m] = 0
            BY <3>1, <4>1, <4>3, <5>2
          <6> QED
            BY <3>1, <6>1
        <5> QED
          BY <5>1, <5>2
      <4> QED
        BY <1>0, <3>1, <3>4, <3>6, <4>4, <4>5 DEF Round
    <3>8. CASE k # T
      <4>1. p = [served.picks EXCEPT ![b] = @ + 1]
        BY <2>2, <2>4, <3>5, <3>6, <3>8 DEF Tally
      <4>2. p[b] = served.picks[b] + 1 /\ \A x \in N \ {b} : p[x] = served.picks[x]
        BY <3>1, <4>1 DEF Scales
      <4>3. Sum(p, N) = k + 1
        <5>1. Numbers(served.picks, N) /\ p[b] \in Int
          BY <3>1, <4>2 DEF Numbers
        <5>2. Sum(p, N) = Sum(served.picks, N) - served.picks[b] + p[b]
          BY <3>1, <4>2, <5>1, SumChange
        <5> QED
          BY <3>1, <3>5, <4>2, <5>2
      <4>4. ASSUME NEW m \in N PROVE cw'[m] = (k + 1) * Weight[m] - T * p[m]
        <5>1. cw[m] = k * Weight[m] - T * served.picks[m]
          BY <2>4, <3>5 DEF Round
        <5>2. PICK w \in Nat, o \in Nat : w = Weight[m] /\ o = served.picks[m]
          BY <3>1
        <5>3. PICK u \in Nat, v \in Nat : u = k * w /\ v = T * o
          BY <3>1, Products
        <5>4. (k + 1) * w = u + w /\ T * (o + 1) = v + T
          <6>1. 1 \in Nat /\ 1 * w = w /\ T * 1 = T
            BY <3>1
          <6> QED
            BY <3>1, <5>3, <6>1, Products
        <5>5. cw[m] = u - v
          BY <5>1, <5>2, <5>3
        <5>6. CASE m = b
          <6>1. cw'[m] = (u - v) + w - T /\ p[m] = o + 1
            BY <3>1, <4>2, <5>2, <5>5, <5>6
          <6>2. cw'[m] = (u + w) - (v + T)
            BY <3>1, <6>1
          <6> QED
            BY <5>2, <5>4, <6>1, <6>2
        <5>7. CASE m # b
          <6>1. cw'[m] = (u - v) + w /\ p[m] = o
            BY <3>1, <4>2, <5>2, <5>5, <5>7
          <6>2. cw'[m] = (u + w) - v
            BY <6>1
          <6> QED
            BY <5>2, <5>3, <5>4, <6>1, <6>2
        <5> QED
          BY <5>6, <5>7
      <4>5. k + 1 <= T
        BY <3>1, <3>5, <3>8
      <4> QED
        BY <1>0, <3>4, <3>6, <4>3, <4>4, <4>5 DEF Round
    <3> QED
      BY <3>7, <3>8
  <2> QED
    BY <2>3, <2>4
<1> QED
  BY <1>1, <1>2, OtherSteps

\* While every node is up, a complete round has given every node its weight.
THEOREM RoundsAreFair ==
  PoolSpec => []RoundIsFair
<1>1. PoolInit => Round
  <2> SUFFICES ASSUME PoolInit PROVE Round
    OBVIOUS
  <2>1. /\ cw = Zero /\ served.picks = Zero
        /\ \A n \in Node : Zero[n] = 0 /\ Weight[n] \in Nat
        /\ Total \in Nat /\ Total > 0
    BY Nodes DEF PoolInit, Zero
  <2> QED
    BY <2>1, ZeroSum DEF Round
<1>2. Scales /\ WeightsBalance /\ Round /\ [PoolNext]_poolVars => Round'
  BY RoundKept
<1>3. Scales /\ Round => RoundIsFair
  BY RoundEnds DEF RoundIsFair
<1>4. PoolInit => Scales
  <2>1. Zero \in [Node -> Nat]
    BY DEF Zero
  <2> QED
    BY <2>1 DEF PoolInit, Scales
<1>5. Scales /\ [PoolNext]_poolVars => Scales'
  BY ScalesKept
<1>6. PoolSpec => []WeightsBalance
  BY DebtsBalance
<1> QED
  BY <1>1, <1>2, <1>3, <1>4, <1>5, <1>6, PTL DEF PoolSpec

\* The sum over at most three nodes, written out.
Part(f, A, x) == IF x \in A THEN f[x] ELSE 0

LEMMA SumOfThree ==
  ASSUME NEW f, NEW i, NEW j, NEW k, i # j, j # k, i # k, NEW A \in SUBSET {i, j, k}, Numbers(f, A)
  PROVE  Sum(f, A) = Part(f, A, i) + Part(f, A, j) + Part(f, A, k)
<1>1. /\ IsFiniteSet({i, j, k}) /\ IsFiniteSet(A)
      /\ IsFiniteSet(A \ {i}) /\ IsFiniteSet((A \ {i}) \ {j}) /\ IsFiniteSet(((A \ {i}) \ {j}) \ {k})
  <2>1. IsFiniteSet({i}) /\ IsFiniteSet({i} \cup {j}) /\ IsFiniteSet(({i} \cup {j}) \cup {k})
    BY FS_Singleton, FS_AddElement
  <2>2. ({i} \cup {j}) \cup {k} = {i, j, k}
    OBVIOUS
  <2>3. IsFiniteSet(A)
    BY <2>1, <2>2, FS_Subset
  <2>4. IsFiniteSet(A \ {i})
    BY <2>3, FS_RemoveElement
  <2>5. IsFiniteSet((A \ {i}) \ {j})
    BY <2>4, FS_RemoveElement
  <2>6. IsFiniteSet(((A \ {i}) \ {j}) \ {k})
    BY <2>5, FS_RemoveElement
  <2> QED
    BY <2>1, <2>2, <2>3, <2>4, <2>5, <2>6
<1>2. ASSUME NEW B \in SUBSET A, NEW x, IsFiniteSet(B)
      PROVE  Sum(f, B) = Part(f, B, x) + Sum(f, B \ {x})
             /\ Sum(f, B) \in Int /\ Sum(f, B \ {x}) \in Int
  <2>1. Numbers(f, B) /\ Numbers(f, B \ {x}) /\ IsFiniteSet(B \ {x})
    BY <1>2, FS_RemoveElement DEF Numbers
  <2>2. Sum(f, B) \in Int /\ Sum(f, B \ {x}) \in Int
    BY <1>2, <2>1, SumType
  <2>3. CASE x \in B
    BY <1>2, <2>1, <2>2, <2>3, SumSplit DEF Part
  <2>4. CASE x \notin B
    <3>1. B \ {x} = B /\ Part(f, B, x) = 0
      BY <2>4 DEF Part
    <3>2. Sum(f, B \ {x}) = Sum(f, B)
      BY <3>1
    <3>3. PICK v \in Int : v = Sum(f, B)
      BY <2>2
    <3> QED
      BY <3>1, <3>2, <3>3
  <2> QED
    BY <2>2, <2>3, <2>4
<1> DEFINE B == A \ {i}
           C == (A \ {i}) \ {j}
           D == ((A \ {i}) \ {j}) \ {k}
<1>3. D = {} /\ Sum(f, D) = 0
  BY SumEmpty
<1>4. Sum(f, A) = Part(f, A, i) + Sum(f, B)
  BY <1>1, <1>2
<1>5. Sum(f, B) = Part(f, A, j) + Sum(f, C)
  <2>1. B \in SUBSET A /\ Part(f, B, j) = Part(f, A, j)
    BY DEF Part
  <2> QED
    BY <1>1, <1>2, <2>1
<1>6. Sum(f, C) = Part(f, A, k) + Sum(f, D)
  <2>1. C \in SUBSET A /\ Part(f, C, k) = Part(f, A, k)
    BY DEF Part
  <2> QED
    BY <1>1, <1>2, <2>1
<1>7. PICK x \in Int, y \in Int, z \in Int :
        /\ x = Part(f, A, i) /\ y = Part(f, A, j)
        /\ z = Part(f, A, k)
  BY DEF Numbers, Part
<1>8. Sum(f, A) = x + (y + (z + 0))
  BY <1>3, <1>4, <1>5, <1>6, <1>7
<1> QED
  BY <1>7, <1>8

\* What a pick among two, or among three, does to the weights, as arithmetic: the
\* heaviest raised weight is at least half of what the others leave.
LEMMA PairStays ==
  ASSUME NEW T \in Nat, NEW wi \in Nat, NEW wj \in Nat, NEW wk \in Nat, T = wi + wj + wk,
         NEW ci \in Int, NEW cj \in Int, NEW ck \in Int, ci + cj + ck = 0,
         wi > 0, wj > 0, wk > 0 \/ ck = 0,
         ci \in (1 - T)..(T - 1), cj \in (1 - T)..(T - 1), ck \in (1 - T)..(T - 1),
         cj + wj <= ci + wi
  PROVE  ci - wj \in (1 - T)..(T - 1) /\ cj + wj \in (1 - T)..(T - 1)
OBVIOUS

LEMMA ThreeStay ==
  ASSUME NEW T \in Nat, NEW wi \in Nat, NEW wj \in Nat, NEW wk \in Nat, T = wi + wj + wk,
         NEW ci \in Int, NEW cj \in Int, NEW ck \in Int, ci + cj + ck = 0,
         wi > 0, wj > 0, wk > 0,
         ci \in (1 - T)..(T - 1), cj \in (1 - T)..(T - 1), ck \in (1 - T)..(T - 1),
         cj + wj <= ci + wi, ck + wk <= ci + wi
  PROVE  ci + wi - T \in (1 - T)..(T - 1) /\ cj + wj \in (1 - T)..(T - 1)
         /\ ck + wk \in (1 - T)..(T - 1)
OBVIOUS

LEMMA PickFloodsNone ==
  ASSUME Scales, WeightsBalance,
         NoNodeIsFlooded, Len(Weight) <= 3, NEW q \in Proxied, PickAvailable(q)
  PROVE  \A n \in Node : cw'[n] \in (1 - Total)..(Total - 1)
<1> DEFINE N == Node
           A == Available
           InRange(x) == x \in (1 - Total)..(Total - 1)
<1>1. PICK b \in A :
         /\ \A m \in A : cw[m] + Weight[m] <= cw[b] + Weight[b]
         /\ cw' \in [N -> Int]
         /\ \A m \in N \ {b} : cw'[m] = IF m \in A THEN cw[m] + Weight[m] ELSE cw[m]
         /\ cw'[b] = cw[b] + Weight[b] - Sum(Weight, A)
         /\ A \subseteq N
  BY Picked
<1>2. N \subseteq {1, 2, 3} /\ b \in {1, 2, 3} /\ b \in N
  <2>1. PICK len \in Nat : len = Len(Weight) /\ len <= 3
    BY Nodes
  <2>2. 1..len \subseteq {1, 2, 3}
    BY <2>1
  <2>3. N = 1..len
    BY <2>1 DEF Node
  <2> QED
    BY <1>1, <2>2, <2>3
<1>3. PICK j \in {1, 2, 3}, k \in {1, 2, 3} : b # j /\ j # k /\ b # k /\ {1, 2, 3} = {b, j, k}
  <2>1. CASE b = 1
    <3>1. {1, 2, 3} = {b, 2, 3}
      BY <2>1
    <3> QED
      BY <2>1, <3>1
  <2>2. CASE b = 2
    <3>1. {1, 2, 3} = {b, 1, 3}
      BY <2>2
    <3> QED
      BY <2>2, <3>1
  <2>3. CASE b = 3
    <3>1. {1, 2, 3} = {b, 1, 2}
      BY <2>3
    <3> QED
      BY <2>3, <3>1
  <2> QED
    BY <1>2, <2>1, <2>2, <2>3
<1>5. /\ Numbers(cw, N) /\ Numbers(Weight, N) /\ Numbers(Weight, A) /\ Total \in Nat
      /\ \A n \in N : Weight[n] \in Nat /\ Weight[n] > 0 /\ cw[n] \in Int /\ InRange(cw[n])
      /\ Total > 0
  BY <1>1, Nodes DEF Numbers, Scales, NoNodeIsFlooded
<1>4. N \in SUBSET {b, j, k} /\ A \in SUBSET {b, j, k}
  BY <1>1, <1>2, <1>3
\* The numbers of the three, a missing node counting as nothing.
<1>6. PICK ci \in Int, cj \in Int, ck \in Int :
         /\ ci = cw[b] /\ cj = (IF j \in N THEN cw[j] ELSE 0) /\ ck = (IF k \in N THEN cw[k] ELSE 0)
  BY <1>2, <1>5
<1>7. PICK wi \in Nat, wj \in Nat, wk \in Nat :
         /\ wi = Weight[b] /\ wj = (IF j \in N THEN Weight[j] ELSE 0)
         /\ wk = (IF k \in N THEN Weight[k] ELSE 0)
  BY <1>2, <1>5
<1>8. ci + cj + ck = 0
  <2>1. Sum(cw, N) = Part(cw, N, b) + Part(cw, N, j) + Part(cw, N, k)
    BY <1>3, <1>4, <1>5, SumOfThree
  <2> QED
    BY <1>2, <1>6, <2>1 DEF WeightsBalance, Part
<1>9. Total = wi + wj + wk
  <2>1. Sum(Weight, N) = Part(Weight, N, b) + Part(Weight, N, j) + Part(Weight, N, k)
    BY <1>3, <1>4, <1>5, SumOfThree
  <2> QED
    BY <1>2, <1>7, <2>1 DEF Total, Part
<1>10. Sum(Weight, A) = wi + (IF j \in A THEN wj ELSE 0) + (IF k \in A THEN wk ELSE 0)
  <2>1. Sum(Weight, A) = Part(Weight, A, b) + Part(Weight, A, j) + Part(Weight, A, k)
    BY <1>3, <1>4, <1>5, SumOfThree
  <2>2. (j \in A => j \in N) /\ (k \in A => k \in N)
    BY <1>1
  <2> QED
    BY <1>1, <1>7, <2>1, <2>2 DEF Part
<1>11. /\ wi > 0 /\ (wj > 0 \/ cj = 0) /\ (wk > 0 \/ ck = 0)
       /\ (j \in A => wj > 0 /\ cj = cw[j] /\ wj = Weight[j] /\ j \in N)
       /\ (k \in A => wk > 0 /\ ck = cw[k] /\ wk = Weight[k] /\ k \in N)
       /\ InRange(ci) /\ InRange(cj) /\ InRange(ck)
  <2>1. InRange(0)
    BY <1>5
  <2> HIDE DEF InRange
  <2>2. InRange(ci) /\ InRange(cj) /\ InRange(ck)
    BY <1>2, <1>5, <1>6, <2>1
  <2>3. wi > 0 /\ (wj > 0 \/ cj = 0) /\ (wk > 0 \/ ck = 0)
    BY <1>2, <1>5, <1>6, <1>7
  <2>4. \A m \in A : m \in N /\ Weight[m] > 0
    BY <1>1, <1>5
  <2>5. j \in A => wj > 0 /\ cj = cw[j] /\ wj = Weight[j] /\ j \in N
    BY <1>6, <1>7, <2>4
  <2>6. k \in A => wk > 0 /\ ck = cw[k] /\ wk = Weight[k] /\ k \in N
    BY <1>6, <1>7, <2>4
  <2> QED
    BY <2>2, <2>3, <2>5, <2>6
<1>12. cw'[b] = ci + wi - Sum(Weight, A)
  BY <1>1, <1>6, <1>7
<1>13. \A n \in N \ {b, j, k} : FALSE
  BY <1>2, <1>3
<1>14. (j \in A => cj + wj <= ci + wi) /\ (k \in A => ck + wk <= ci + wi)
  BY <1>1, <1>6, <1>7, <1>11
<1>15. /\ (j \in A => cw'[j] = cj + wj) /\ (j \in N \ A => cw'[j] = cj)
       /\ (k \in A => cw'[k] = ck + wk) /\ (k \in N \ A => cw'[k] = ck)
  BY <1>1, <1>3, <1>6, <1>11
<1>16. InRange(cw'[b]) /\ (j \in N => InRange(cw'[j])) /\ (k \in N => InRange(cw'[k]))
  <2>1. CASE j \notin A /\ k \notin A
    BY <1>10, <1>11, <1>12, <1>15, <2>1
  <2>2. CASE j \in A /\ k \notin A
    <3>1. InRange(ci - wj) /\ InRange(cj + wj)
      BY <1>8, <1>9, <1>11, <1>14, <2>2, PairStays
    <3>2. cw'[b] = ci - wj
      BY <1>10, <1>12, <2>2
    <3> QED
      BY <1>11, <1>15, <2>2, <3>1, <3>2
  <2>3. CASE j \notin A /\ k \in A
    <3>1. ci + ck + cj = 0 /\ Total = wi + wk + wj
      BY <1>8, <1>9
    <3>2. InRange(ci - wk) /\ InRange(ck + wk)
      BY <1>11, <1>14, <2>3, <3>1, PairStays
    <3>3. cw'[b] = ci - wk
      BY <1>10, <1>12, <2>3
    <3> QED
      BY <1>11, <1>15, <2>3, <3>2, <3>3
  <2>4. CASE j \in A /\ k \in A
    <3>1. InRange(ci + wi - Total) /\ InRange(cj + wj) /\ InRange(ck + wk)
      BY <1>8, <1>9, <1>11, <1>14, <2>4, ThreeStay
    <3>2. cw'[b] = ci + wi - Total
      BY <1>9, <1>10, <1>12, <2>4
    <3> QED
      BY <1>11, <1>15, <2>4, <3>1, <3>2
  <2> QED
    BY <2>1, <2>2, <2>3, <2>4
<1> HIDE DEF InRange
<1>17. \A n \in N : InRange(cw'[n])
  BY <1>13, <1>16
<1> QED
  BY <1>17 DEF InRange

\* In a pool of up to three nodes none is ever owed a round, or a round ahead.
THEOREM NoneIsFlooded ==
  PoolSpec => []NoNodeIsFlooded
<1>1. PoolInit => Scales /\ NoNodeIsFlooded
  <2> SUFFICES ASSUME PoolInit PROVE Scales /\ NoNodeIsFlooded
    OBVIOUS
  <2>1. Zero \in [Node -> Nat] /\ \A n \in Node : Zero[n] = 0
    BY DEF Zero
  <2>2. 0 \in (1 - Total)..(Total - 1)
    BY Nodes
  <2> QED
    BY <2>1, <2>2 DEF PoolInit, Scales, NoNodeIsFlooded
<1>2. Scales /\ WeightsBalance /\ NoNodeIsFlooded
        /\ [PoolNext]_poolVars => NoNodeIsFlooded'
  <2> SUFFICES ASSUME Scales, WeightsBalance, NoNodeIsFlooded,
                      [PoolNext]_poolVars, Len(Weight) <= 3
               PROVE  \A n \in Node : cw'[n] \in (1 - Total)..(Total - 1)
    BY DEF NoNodeIsFlooded, Node, Total
  <2>1. CASE cw' = cw
    BY <2>1 DEF NoNodeIsFlooded
  <2>2. CASE \E q \in Proxied : PickAvailable(q)
    BY <2>2, PickFloodsNone
  <2> QED
    BY <2>1, <2>2, OtherSteps
<1>3. Scales /\ [PoolNext]_poolVars => Scales'
  BY ScalesKept
<1>4. PoolSpec => []WeightsBalance
  BY DebtsBalance
<1> QED
  BY <1>1, <1>2, <1>3, <1>4, PTL DEF PoolSpec

\* The other variables of a pool.
PoolType ==
  /\ cursor \in 0..(Len(Weight) - 1)
  /\ healthy \in [Node -> BOOLEAN]
  /\ fails \in [Node -> Nat] /\ down \in [Node -> 0..Cooldown]
  /\ prober \in [pc : {"tick", "get", "fail", "up", "forgive", "close"}, node : Node]
  /\ forwards \in [Proxied -> [pc : {"idle", "sent", "open", "reset", "forgive", "close"},
                               node : Node]]
  /\ alive \subseteq Node /\ flaps \in 0..MaxFlap
  /\ streak \in [Node -> Nat]

\* What the breaker's counts keep.
Counted ==
  /\ \A n \in Node : fails[n] < Threshold + Cardinality(Opening(n))
  /\ FailuresAreConsecutive

LEMMA OpeningFinite ==
  \A n : IsFiniteSet(Opening(n)) /\ Cardinality(Opening(n)) \in Nat
<1> TAKE n
<1>1. Opening(n) \in SUBSET Proxied /\ IsFiniteSet(Proxied)
  BY UpstreamPoolAssumption DEF Opening
<1> QED
  BY <1>1, FS_Subset, FS_CardinalityType

\* A request that moves without opening, or stopping to open, a breaker.
LEMMA SameOpening ==
  ASSUME PoolType, NEW q \in Proxied, NEW r, forwards' = [forwards EXCEPT ![q] = r],
         r.pc \in {"open", "reset"} <=> forwards[q].pc \in {"open", "reset"},
         r.pc \in {"open", "reset"} => r.node = forwards[q].node
  PROVE  \A n : Opening(n)' = Opening(n)
<1> TAKE n
<1>1. \A p \in Proxied : forwards'[p] = IF p = q THEN r ELSE forwards[p]
  BY DEF PoolType
<1>2. \A p \in Proxied : (forwards'[p].pc \in {"open", "reset"} /\ forwards'[p].node = n)
                         <=> (forwards[p].pc \in {"open", "reset"} /\ forwards[p].node = n)
  BY <1>1
<1> QED
  BY <1>2 DEF Opening

LEMMA PoolConstants ==
  /\ Threshold \in Nat /\ Threshold > 0 /\ Cooldown \in Nat /\ Cooldown > 0 /\ MaxFlap \in Nat
  /\ Len(Weight) \in Nat /\ Len(Weight) > 0
  /\ Node = 1..Len(Weight) /\ 1 \in Node
BY Nodes, UpstreamPoolAssumption DEF Node

\* The steps of a request.
LEMMA ChoiceCounts ==
  ASSUME Scales, PoolType, Counted, NEW q \in Proxied,
         PickAvailable(q) \/ PickFailOpen(q)
  PROVE  PoolType' /\ Counted'
<1>1. PICK n \in Node :
        forwards' = [forwards EXCEPT ![q] = [pc |-> "sent", node |-> n]] /\ cursor' \in 0..(Len(Weight) - 1)
  <2>1. CASE PickAvailable(q)
    <3>1. Best \in Node
      BY <2>1, BestIsGreatest DEF PickAvailable, Available
    <3> QED
      BY <2>1, <3>1 DEF PickAvailable, Send, PoolType
  <2>2. CASE PickFailOpen(q)
    <3>1. cursor + 1 \in Node /\ (cursor + 1) % Len(Weight) \in 0..(Len(Weight) - 1)
      BY PoolConstants DEF PoolType
    <3> QED
      BY <2>2, <3>1 DEF PickFailOpen, Send
  <2> QED
    BY <2>1, <2>2
<1>2. /\ forwards[q].pc = "idle"
      /\ UNCHANGED <<healthy, fails, down, prober, alive, flaps, streak, Node>>
  BY DEF PickAvailable, PickFailOpen, Node
<1>3. \A m : Opening(m)' = Opening(m)
  BY <1>1, <1>2, SameOpening
<1>4. forwards' \in [Proxied -> [pc : {"idle", "sent", "open", "reset", "forgive", "close"},
                                 node : Node]]
  BY <1>1 DEF PoolType
<1>5. PoolType'
  BY <1>1, <1>2, <1>4 DEF PoolType
<1> QED
  BY <1>2, <1>3, <1>5 DEF Counted, FailuresAreConsecutive

LEMMA FailCounts ==
  ASSUME PoolType, Counted, NEW q \in Proxied, Fail(q)
  PROVE  PoolType' /\ Counted'
<1>1. PICK n \in Node : n = forwards[q].node
  BY DEF PoolType
<1>2. /\ forwards[q].pc = "sent" /\ fails' = [fails EXCEPT ![n] = @ + 1]
      /\ streak' = [streak EXCEPT ![n] = @ + 1]
      /\ UNCHANGED <<cursor, healthy, down, prober, alive, flaps, Node>>
  BY <1>1 DEF Fail, Node
<1>3. PICK pc \in {"open", "idle"} :
        /\ forwards' = [forwards EXCEPT ![q].pc = pc]
        /\ pc = "open" <=> fails[n] + 1 >= Threshold
  BY <1>1 DEF Fail, Go, Opens
<1>4. PoolType'
  <2>1. forwards' \in [Proxied -> [pc : {"idle", "sent", "open", "reset", "forgive", "close"},
                                   node : Node]]
    BY <1>3 DEF PoolType
  <2>2. fails' \in [Node -> Nat] /\ streak' \in [Node -> Nat]
    <3>1. fails[n] + 1 \in Nat /\ streak[n] + 1 \in Nat
      BY DEF PoolType
    <3>2. fails' = [fails EXCEPT ![n] = fails[n] + 1] /\ streak' = [streak EXCEPT ![n] = streak[n] + 1]
      BY <1>2
    <3> QED
      BY <3>1, <3>2 DEF PoolType
  <2> QED
    BY <1>2, <2>1, <2>2 DEF PoolType
<1>5. \A p \in Proxied : p # q => forwards'[p] = forwards[p]
  BY <1>3 DEF PoolType
<1>6. forwards'[q].pc = pc /\ forwards'[q].node = n
  BY <1>1, <1>3 DEF PoolType
<1>7. ASSUME NEW m \in Node, m # n
      PROVE  Opening(m)' = Opening(m) /\ fails'[m] = fails[m]
  BY <1>1, <1>2, <1>5, <1>6, <1>7 DEF Opening, PoolType
<1>8. fails'[n] < Threshold + Cardinality(Opening(n)')
  <2>1. fails'[n] = fails[n] + 1 /\ fails[n] \in Nat
    BY <1>2 DEF PoolType
  <2>2. CASE pc = "open"
    <3>1. Opening(n)' = Opening(n) \cup {q} /\ q \notin Opening(n)
      BY <1>2, <1>5, <1>6, <2>2 DEF Opening
    <3>2. Cardinality(Opening(n) \cup {q}) = Cardinality(Opening(n)) + 1
      BY <3>1, OpeningFinite, FS_AddElement
    <3>3. fails[n] < Threshold + Cardinality(Opening(n))
      BY DEF Counted
    <3> QED
      BY <2>1, <3>1, <3>2, <3>3, OpeningFinite, PoolConstants
  <2>3. CASE pc = "idle"
    <3>1. Opening(n)' = Opening(n)
      BY <1>2, <1>5, <1>6, <2>3 DEF Opening
    <3> QED
      BY <1>3, <2>1, <2>3, <3>1, OpeningFinite, PoolConstants
  <2> QED
    BY <2>2, <2>3
<1>9. \A m \in Node : fails'[m] <= streak'[m]
  BY <1>2 DEF PoolType, Counted, FailuresAreConsecutive
<1> QED
  BY <1>2, <1>4, <1>7, <1>8, <1>9 DEF Counted, FailuresAreConsecutive

\* A count that is cleared, with no request between fails.Add and the clearing but the
\* one that clears.
LEMMA Cleared ==
  ASSUME PoolType, Counted, NEW n \in Node,
         fails' = [fails EXCEPT ![n] = 0], streak' = [streak EXCEPT ![n] = 0],
         \A m \in Node \ {n} : Opening(m)' = Opening(m),
         Cardinality(Opening(n)') \in Nat
  PROVE  Counted'
<1>1. /\ fails'[n] = 0 /\ streak'[n] = 0
      /\ \A m \in Node \ {n} : fails'[m] = fails[m] /\ streak'[m] = streak[m]
  BY DEF PoolType
<1>2. \A m \in Node : fails'[m] < Threshold + Cardinality(Opening(m)')
  BY <1>1, PoolConstants DEF Counted
<1>3. \A m \in Node : fails'[m] <= streak'[m]
  BY <1>1 DEF Counted, FailuresAreConsecutive
<1>4. Node' = Node
  BY DEF Node
<1> QED
  BY <1>2, <1>3, <1>4 DEF Counted, FailuresAreConsecutive

LEMMA MovesCount ==
  ASSUME PoolType, Counted, NEW q \in Proxied,
         Open(q) \/ Reset(q) \/ Succeed(q)
  PROVE  PoolType' /\ Counted'
<1>1. PICK n \in Node : n = forwards[q].node
  BY DEF PoolType
<1>2. PICK pc \in {"reset", "idle", "forgive", "close"} :
        /\ forwards' = [forwards EXCEPT ![q].pc = pc]
        /\ UNCHANGED <<cursor, prober, alive, flaps, Node>>
        /\ \/ /\ forwards[q].pc = "open" /\ pc = "reset" /\ down' = [down EXCEPT ![n] = Cooldown]
              /\ UNCHANGED <<healthy, fails, streak>>
           \/ /\ forwards[q].pc = "reset" /\ pc = "idle" /\ fails' = [fails EXCEPT ![n] = 0]
              /\ streak' = [streak EXCEPT ![n] = 0] /\ UNCHANGED <<healthy, down>>
           \/ /\ forwards[q].pc = "sent" /\ pc = "forgive" /\ healthy' = [healthy EXCEPT ![n] = TRUE]
              /\ UNCHANGED <<fails, down, streak>>
           \/ /\ forwards[q].pc = "forgive" /\ pc = "close" /\ fails' = [fails EXCEPT ![n] = 0]
              /\ streak' = [streak EXCEPT ![n] = 0] /\ UNCHANGED <<healthy, down>>
           \/ /\ forwards[q].pc = "close" /\ pc = "idle" /\ down' = [down EXCEPT ![n] = 0]
              /\ UNCHANGED <<healthy, fails, streak>>
  <2>1. CASE Open(q)
    BY <1>1, <2>1 DEF Open, Go, Node
  <2>2. CASE Reset(q)
    BY <1>1, <2>2 DEF Reset, Go, Node
  <2>3. CASE Succeed(q)
    BY <1>1, <2>3 DEF Succeed, Go, Node, MarkHealthy,
       Recovers, Forgive, Forgiven, CloseBreaker
  <2> QED
    BY <2>1, <2>2, <2>3
<1>3. PoolType'
  <2>1. forwards' \in [Proxied -> [pc : {"idle", "sent", "open", "reset", "forgive", "close"},
                                   node : Node]]
    BY <1>2 DEF PoolType
  <2>2. /\ healthy' \in [Node -> BOOLEAN] /\ fails' \in [Node -> Nat]
        /\ streak' \in [Node -> Nat] /\ down' \in [Node -> 0..Cooldown]
    <3>1. /\ [healthy EXCEPT ![n] = TRUE] \in [Node -> BOOLEAN]
          /\ [fails EXCEPT ![n] = 0] \in [Node -> Nat]
          /\ [streak EXCEPT ![n] = 0] \in [Node -> Nat]
      BY DEF PoolType
    <3>2. /\ [down EXCEPT ![n] = 0] \in [Node -> 0..Cooldown]
          /\ [down EXCEPT ![n] = Cooldown] \in [Node -> 0..Cooldown]
      <4>1. 0 \in 0..Cooldown /\ Cooldown \in 0..Cooldown
        BY PoolConstants
      <4> QED
        BY <4>1 DEF PoolType
    <3>3. /\ healthy' = healthy \/ healthy' = [healthy EXCEPT ![n] = TRUE]
          /\ fails' = fails \/ fails' = [fails EXCEPT ![n] = 0]
          /\ streak' = streak \/ streak' = [streak EXCEPT ![n] = 0]
          /\ \/ down' = down \/ down' = [down EXCEPT ![n] = 0]
             \/ down' = [down EXCEPT ![n] = Cooldown]
      BY <1>2
    <3> QED
      BY <3>1, <3>2, <3>3 DEF PoolType
  <2> QED
    BY <1>2, <2>1, <2>2 DEF PoolType
<1>4. PICK r : r = [forwards[q] EXCEPT !.pc = pc]
  OBVIOUS
<1>5. forwards' = [forwards EXCEPT ![q] = r] /\ r.pc = pc /\ r.node = n
  BY <1>1, <1>2, <1>4 DEF PoolType
<1>6. CASE ~(forwards[q].pc = "reset")
  <2>1. \A m : Opening(m)' = Opening(m)
    <3>1. (r.pc \in {"open", "reset"} <=> forwards[q].pc \in {"open", "reset"})
          /\ r.node = forwards[q].node
      BY <1>1, <1>2, <1>5, <1>6
    <3> QED
      BY <1>5, <3>1, SameOpening
  <2>2. CASE fails' = fails /\ streak' = streak
    <3>1. Node' = Node
      BY <1>2
    <3> QED
      BY <1>3, <2>1, <2>2, <3>1 DEF Counted, FailuresAreConsecutive
  <2>3. CASE fails' = [fails EXCEPT ![n] = 0] /\ streak' = [streak EXCEPT ![n] = 0]
    <3>1. Cardinality(Opening(n)') \in Nat
      BY <2>1, OpeningFinite
    <3> QED
      BY <1>3, <2>1, <2>3, <3>1, Cleared
  <2>4. \/ fails' = fails /\ streak' = streak
        \/ fails' = [fails EXCEPT ![n] = 0] /\ streak' = [streak EXCEPT ![n] = 0]
    BY <1>2
  <2> QED
    BY <2>2, <2>3, <2>4
<1>7. CASE forwards[q].pc = "reset"
  <2>1. fails' = [fails EXCEPT ![n] = 0] /\ streak' = [streak EXCEPT ![n] = 0] /\ pc = "idle"
    BY <1>2, <1>7
  <2>2. \A p \in Proxied : p # q => forwards'[p] = forwards[p]
    BY <1>5 DEF PoolType
  <2>3. forwards'[q].pc = "idle" /\ forwards'[q].node = n
    BY <1>5, <2>1 DEF PoolType
  <2>4. ASSUME NEW m \in Node \ {n} PROVE Opening(m)' = Opening(m)
    BY <1>1, <2>2, <2>3 DEF Opening
  <2>5. Opening(n)' \in SUBSET Opening(n)
    BY <2>2, <2>3 DEF Opening
  <2>6. Cardinality(Opening(n)') \in Nat
    BY <2>5, OpeningFinite, FS_Subset, FS_CardinalityType
  <2> QED
    BY <1>3, <2>1, <2>4, <2>6, Cleared
<1> QED
  BY <1>6, <1>7

\* The steps of the prober.
LEMMA ProbesCount ==
  ASSUME PoolType, Counted, Probe
  PROVE  PoolType' /\ Counted'
<1>1. PICK n \in Node : n = prober.node
  BY DEF PoolType
<1>2. NextNode \in [pc : {"tick", "get"}, node : Node]
  BY <1>1, PoolConstants DEF NextNode
<1>3. /\ prober' \in [pc : {"tick", "get", "fail", "up", "forgive", "close"}, node : Node]
      /\ UNCHANGED <<cursor, forwards, alive, flaps, Node>>
      /\ \/ fails' = fails /\ streak' = streak
         \/ fails' = [fails EXCEPT ![n] = 0] /\ streak' = [streak EXCEPT ![n] = 0]
      /\ healthy' = healthy \/ \E h \in BOOLEAN : healthy' = [healthy EXCEPT ![n] = h]
      /\ down' = down \/ down' = [down EXCEPT ![n] = 0]
  <2>1. CASE ProbeTick
    BY <2>1, PoolConstants DEF ProbeTick, Node
  <2>2. CASE ProbeAnswer
    BY <1>1, <2>2 DEF ProbeAnswer, Node, PoolType
  <2>3. CASE ProbeFail
    BY <1>1, <1>2, <2>3 DEF ProbeFail, Node
  <2>4. CASE ProbeSuccess
    BY <1>1, <1>2, <2>4 DEF ProbeSuccess, Node, MarkHealthy,
       Recovers, Forgive, Forgiven, CloseBreaker, PoolType
  <2> QED
    BY <2>1, <2>2, <2>3, <2>4 DEF Probe
<1>4. PoolType'
  <2>1. healthy' \in [Node -> BOOLEAN]
    <3>1. \A h \in BOOLEAN : [healthy EXCEPT ![n] = h] \in [Node -> BOOLEAN]
      BY DEF PoolType
    <3> QED
      BY <1>3, <3>1 DEF PoolType
  <2>2. fails' \in [Node -> Nat] /\ streak' \in [Node -> Nat]
    <3>1. /\ [fails EXCEPT ![n] = 0] \in [Node -> Nat]
          /\ [streak EXCEPT ![n] = 0] \in [Node -> Nat]
      BY DEF PoolType
    <3> QED
      BY <1>3, <3>1 DEF PoolType
  <2>3. down' \in [Node -> 0..Cooldown]
    <3>1. [down EXCEPT ![n] = 0] \in [Node -> 0..Cooldown]
      BY PoolConstants DEF PoolType
    <3> QED
      BY <1>3, <3>1 DEF PoolType
  <2> QED
    BY <1>3, <2>1, <2>2, <2>3 DEF PoolType
<1>5. \A m : Opening(m)' = Opening(m)
  BY <1>3 DEF Opening
<1>6. CASE fails' = fails /\ streak' = streak
  BY <1>3, <1>4, <1>5, <1>6 DEF Counted, FailuresAreConsecutive
<1>7. CASE fails' = [fails EXCEPT ![n] = 0] /\ streak' = [streak EXCEPT ![n] = 0]
  BY <1>4, <1>5, <1>7, OpeningFinite, Cleared
<1> QED
  BY <1>3, <1>6, <1>7

LEMMA RestCounts ==
  ASSUME PoolType, Counted,
         \/ Tick
         \/ \E n \in Node : BackendDown(n) \/ BackendUp(n)
         \/ UNCHANGED poolVars
  PROVE  PoolType' /\ Counted'
<1>1. /\ UNCHANGED <<cursor, healthy, fails, prober, forwards, streak, Node>>
      /\ down' = down \/ down' = [n \in Node |-> IF down[n] = 0 THEN 0 ELSE down[n] - 1]
      /\ \/ alive' = alive /\ flaps' = flaps
         \/ \E n \in Node : alive' = alive \ {n} /\ flaps < MaxFlap /\ flaps' = flaps + 1
         \/ \E n \in Node : alive' = alive \cup {n} /\ flaps' = flaps
  BY DEF Tick, BackendDown, BackendUp, poolVars, Node
<1>2. down' \in [Node -> 0..Cooldown]
  <2>1. \A n \in Node : (IF down[n] = 0 THEN 0 ELSE down[n] - 1) \in 0..Cooldown
    BY PoolConstants DEF PoolType
  <2>2. [n \in Node |-> IF down[n] = 0 THEN 0 ELSE down[n] - 1] \in [Node -> 0..Cooldown]
    BY <2>1
  <2> QED
    BY <1>1, <2>2 DEF PoolType
<1>3. alive' \subseteq Node /\ flaps' \in 0..MaxFlap
  <2>1. alive' \subseteq Node
    BY <1>1 DEF PoolType
  <2>2. flaps' = flaps \/ (flaps < MaxFlap /\ flaps' = flaps + 1)
    BY <1>1
  <2>3. flaps \in 0..MaxFlap /\ MaxFlap \in Nat
    BY PoolConstants DEF PoolType
  <2> QED
    BY <2>1, <2>2, <2>3
<1>4. PoolType'
  BY <1>1, <1>2, <1>3 DEF PoolType
<1>5. \A m : Opening(m)' = Opening(m)
  BY <1>1 DEF Opening
<1> QED
  BY <1>1, <1>4, <1>5 DEF Counted, FailuresAreConsecutive

\* Every variable of a pool keeps its type, and its breaker counts no more failures
\* than were reported since the last success or opening.
THEOREM BalancerTypeCorrect ==
  PoolSpec => [](PoolTypeOK /\ FailuresAreConsecutive)
<1> DEFINE IInv == Scales /\ PoolType /\ Counted
<1>1. PoolInit => IInv
  <2> SUFFICES ASSUME PoolInit PROVE IInv
    OBVIOUS
  <2>1. Zero \in [Node -> Nat] /\ \A n \in Node : Zero[n] = 0
    BY DEF Zero
  <2>2. Scales /\ PoolType
    BY <2>1, PoolConstants DEF PoolInit, Scales, PoolType, Zero
  <2>3. Counted
    BY <2>1, PoolConstants, OpeningFinite DEF PoolInit, Counted, FailuresAreConsecutive
  <2> QED
    BY <2>2, <2>3
<1>2. IInv /\ [PoolNext]_poolVars => IInv'
  <2> SUFFICES ASSUME IInv, [PoolNext]_poolVars PROVE IInv'
    OBVIOUS
  <2>1. Scales'
    BY ScalesKept
  <2>2. CASE \E q \in Proxied : Forward(q)
    BY <2>1, <2>2, ChoiceCounts, FailCounts, MovesCount DEF Forward
  <2>3. CASE Probe
    BY <2>1, <2>3, ProbesCount
  <2> QED
    BY <2>1, <2>2, <2>3, RestCounts DEF PoolNext
<1>3. IInv => PoolTypeOK /\ FailuresAreConsecutive
  BY DEF Scales, PoolType, Counted, PoolTypeOK
<1> QED
  BY <1>1, <1>2, <1>3, PTL DEF PoolSpec
=============================================================================
