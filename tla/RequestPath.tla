---------------------------- MODULE RequestPath -----------------------------
(***************************************************************************)
(* Handler.ServeHTTP (internal/proxy), the detection pipeline              *)
(* (internal/pipeline, internal/stages) and the attack penalty engine      *)
(* (internal/penalty): what becomes of a request, and what the requests    *)
(* of a client do to the next ones.                                        *)
(*                                                                         *)
(* Requests overlap.  Each keeps the snapshot it arrived on; what it       *)
(* shares with the others is that snapshot's disable registry and penalty  *)
(* manager, and the audit store's hook, which a reload moves to the        *)
(* manager of the snapshot about to serve.                                 *)
(***************************************************************************)
EXTENDS Naturals, Sequences, FiniteSets

CONSTANTS
  Site, Client,
  Kind,          \* what a request carries: path, headers and payload, by what the rules make of it
  Input,         \* the requests that may arrive
  Revision,      \* the configurations, by name
  Content,       \* the configuration of each name
  Boot,          \* the one the process starts on
  Published,     \* those that may be published while it runs
  Slot,          \* requests served at the same time
  AuditIsSQLite, \* the audit store handed to the handler is a *SQLiteStore
  Window, Ban, ThrottlePerMin, Minute, \* the rest of PenaltySettings, in ticks
  MaxRequests, MaxBuilds, MaxClock     \* bounds

\* config.DisableableStages.
Disableable == {"botdetect", "botchallenge", "captcha", "ratelimit", "semantic", "coraza"}
Detectors   == {"botdetect", "semantic", "coraza"}

\* A site: mode, pre-flight switches, ACL, geo (white = {}: blacklist mode; countries
\* stand for their clients), challenges, and the kinds each detector denies.
SiteConfig ==
  [disabled : BOOLEAN, intercept : BOOLEAN, auth : BOOLEAN, reject : BOOLEAN, white : SUBSET Client, black : SUBSET Client,
   geo : [white : SUBSET Client, trusted : BOOLEAN, black : SUBSET Client],
   bot : BOOLEAN, captcha : BOOLEAN, challenge : SUBSET Kind, ratelimit : BOOLEAN,
   denies : [Detectors -> SUBSET Kind]]

Rule == [sites : SUBSET Site, hits : SUBSET Kind, log : BOOLEAN, stages : SUBSET Disableable,
         action : {"deny", "allow", "monitor", "disable"}]

\* exempt: the kinds on a path with a whole-path exception, or a semantic rule excepted.
PolicyDocument ==
  [site : [Site -> SiteConfig], white : SUBSET Client, black : SUBSET Client,
   exempt : [Site -> SUBSET Kind], excepted : [Site -> SUBSET Kind],
   matchers : Seq(Rule),
   penalty : [mode : {"off", "deny", "throttle"}, threshold : Nat \ {0}]]

\* host: the site's domain or one that no site has.
Inputs ==
  [host : Site \cup {"unknown"}, client : Client, kind : Kind, creds : BOOLEAN,
   over : BOOLEAN, pass : BOOLEAN]

ASSUME RequestPathAssumption ==
  /\ Content \in [Revision -> PolicyDocument]
  /\ Boot \in Revision /\ Published \subseteq Revision /\ Input \subseteq Inputs
  /\ AuditIsSQLite \in BOOLEAN
  /\ {Window, Ban, ThrottlePerMin, Minute} \subseteq Nat \ {0}
  /\ {MaxRequests, MaxBuilds} \subseteq Nat /\ MaxClock \in Nat \ {0}

VARIABLES
  snaps,    \* the snapshots built: configuration, disable registry, penalty manager
  serving,  \* Handler.state
  hook,     \* the snapshot whose manager the audit hook calls; 0: none
  req,      \* the requests in progress
  arrived,  \* how many requests have arrived
  events,   \* history: the blocked and challenged events written
  clock

vars == <<snaps, serving, hook, req, arrived, events, clock>>

NoWindow == [start |-> 0, n |-> 0]

\* off: the disable registry; counts and bans: penalty.Manager (0: no ban).
Fresh(rev) == [rev |-> rev, off |-> {}, counts |-> [c \in Client |-> NoWindow],
               bans |-> [c \in Client |-> 0]]

Doc(s) == Content[s.rev]

Built(rev) == Fresh(rev)

\* held: the ban in force at arrival (history).
Idle == [pc |-> "idle", snap |-> 1, at |-> 0, in |-> CHOOSE in \in Input : TRUE,
         trusted |-> FALSE, rule |-> 0, act |-> "allow", held |-> 0]

Init ==
  /\ snaps = <<Fresh(Boot)>>
  /\ serving = 1
  /\ hook = IF AuditIsSQLite THEN 1 ELSE 0
  /\ req = [r \in Slot |-> Idle]
  /\ arrived = 0
  /\ events = <<>>
  /\ clock = 1

-----------------------------------------------------------------------------
(* The penalty manager.  Its maps are dropped only past 4096 entries, and  *)
(* then only what has expired: gcLocked is left out.                       *)

\* Bug of Counted: a window, once open, never ends.
CountedForever(w, span) ==
  IF w.n = 0 THEN [start |-> clock, n |-> 1] ELSE [w EXCEPT !.n = @ + 1]
Counted(w, span) ==
  IF w.n = 0 \/ clock - w.start >= span
  THEN [start |-> clock, n |-> 1]
  ELSE [w EXCEPT !.n = @ + 1]

Cleared(w) == NoWindow

\* Observe.
Observed(s, c) ==
  LET w == Counted(s.counts[c], Window) IN
  IF Doc(s).penalty.mode = "off" THEN s
  ELSE IF w.n < Doc(s).penalty.threshold THEN [s EXCEPT !.counts[c] = w]
  ELSE [s EXCEPT !.counts[c] = Cleared(w), !.bans[c] = clock + Ban]

Banned(s, c) == Doc(s).penalty.mode # "off" /\ s.bans[c] # 0

\* Bug of Expired: the last tick of the ban is not part of it.
ExpiredEarly(s, c) == clock >= s.bans[c]
Expired(s, c) == clock > s.bans[c]

InForce(s, c) == Banned(s, c) /\ ~Expired(s, c)

\* Check: what it leaves, and its answer.  In throttle mode the allowance is counted
\* in the window Observe counts events in.
Checked(s, c) ==
  IF Banned(s, c) /\ Expired(s, c) THEN [s EXCEPT !.bans[c] = 0]
  ELSE IF InForce(s, c) /\ Doc(s).penalty.mode = "throttle"
  THEN [s EXCEPT !.counts[c] = Counted(@, Minute)]
  ELSE s
CheckBlocks(s, c) ==
  /\ InForce(s, c)
  /\ Doc(s).penalty.mode = "throttle" => Counted(s.counts[c], Minute).n > ThrottlePerMin

-----------------------------------------------------------------------------
(* The pipeline.                                                           *)

Snap(r)   == snaps[req[r].snap]
Policy(r) == Doc(Snap(r))
In(r)     == req[r].in
SiteOf(r) == Policy(r).site[In(r).host]

\* One captcha site replaces the JS challenge of all.
CaptchaEnabled(doc) == \E s \in Site : doc.site[s].captcha
Stages ==
  [rev \in Revision |->
     <<"acl", "penalty", "geo", "exceptions", "matcher", "botdetect",
       IF CaptchaEnabled(Content[rev]) THEN "captcha" ELSE "bot",
       "ratelimit", "semantic", "coraza">>]
Pipe(r) == Stages[Snap(r).rev]

\* Bug of Disabled: a module switched off for one site is off for all.
DisabledAnywhere(s, host, st) == \E h \in Site : <<h, st>> \in s.off
Disabled(s, host, st) == <<host, st>> \in s.off

\* The stage about to run, the ones the gate skips passed over.
At(r, st) ==
  /\ req[r].pc = "inspect"
  /\ req[r].at \in DOMAIN Pipe(r)
  /\ Pipe(r)[req[r].at] = st
Runs(r, st) == At(r, st) /\ ~Disabled(Snap(r), In(r).host, st)

Go(r)          == req' = [req EXCEPT ![r].at = @ + 1]
Trust(r)       == req' = [req EXCEPT ![r].at = @ + 1, ![r].trusted = TRUE]
Refuse(r, act) == req' = [req EXCEPT ![r].pc = "decide", ![r].act = act]

\* A stage that refuses, trusts, or lets pass.
Rules(r, refused, act, trusted) ==
  \/ refused /\ Refuse(r, act)
  \/ ~refused /\ trusted /\ Trust(r)
  \/ ~refused /\ ~trusted /\ Go(r)

others == <<serving, hook, arrived, events, clock>>

SkipStage(r) ==
  /\ \E st \in Disableable : At(r, st) /\ Disabled(Snap(r), In(r).host, st)
  /\ Go(r)
  /\ UNCHANGED <<snaps, others>>

\* Global white, global black, site white, site black: the first list that has the client.
Whitelisted(doc, host, c) ==
  c \in doc.white \/ (c \notin doc.black /\ c \in doc.site[host].white)
Blacklisted(doc, host, c) ==
  /\ ~Whitelisted(doc, host, c)
  /\ c \in doc.black \cup doc.site[host].black

AclStage(r) ==
  /\ Runs(r, "acl")
  /\ Rules(r, Blacklisted(Policy(r), In(r).host, In(r).client), "deny",
              Whitelisted(Policy(r), In(r).host, In(r).client))
  /\ UNCHANGED <<snaps, others>>

\* The one stage that does not look at trusted.
PenaltyStage(r) ==
  /\ Runs(r, "penalty")
  /\ snaps' = [snaps EXCEPT ![req[r].snap] = Checked(@, In(r).client)]
  /\ Rules(r, CheckBlocks(Snap(r), In(r).client), "deny", FALSE)
  /\ UNCHANGED others

GeoStage(r) ==
  LET geo == SiteOf(r).geo
      in  == In(r).client \in geo.white
  IN /\ Runs(r, "geo")
     /\ Rules(r, /\ ~req[r].trusted /\ ~in
                 /\ geo.white # {} \/ In(r).client \in geo.black, "deny",
                 in /\ geo.trusted)
     /\ UNCHANGED <<snaps, others>>

Exempt(doc, host, kind) == kind \in doc.exempt[host]

ExceptionsStage(r) ==
  /\ Runs(r, "exceptions")
  /\ Rules(r, FALSE, "deny", Exempt(Policy(r), In(r).host, In(r).kind))
  /\ UNCHANGED <<snaps, others>>

\* The rules a request hits: the first one decides.
Hits(doc, host, kind) ==
  {i \in DOMAIN doc.matchers :
     /\ doc.matchers[i].sites = {} \/ host \in doc.matchers[i].sites
     /\ kind \in doc.matchers[i].hits}
FirstHit(doc, host, kind) ==
  CHOOSE i \in Hits(doc, host, kind) : \A j \in Hits(doc, host, kind) : i <= j

MatcherPasses(r) ==
  /\ Runs(r, "matcher")
  /\ req[r].trusted \/ Hits(Policy(r), In(r).host, In(r).kind) = {}
  /\ Go(r)
  /\ UNCHANGED <<snaps, others>>

MatcherHits(r) ==
  LET i    == FirstHit(Policy(r), In(r).host, In(r).kind)
      rule == Policy(r).matchers[i]
  IN /\ Runs(r, "matcher")
     /\ ~req[r].trusted /\ Hits(Policy(r), In(r).host, In(r).kind) # {}
     /\ req' = [req EXCEPT ![r].rule = i,
                           ![r].trusted = rule.action = "allow",
                           ![r].at = IF rule.action = "deny" THEN @ ELSE @ + 1,
                           ![r].pc = IF rule.action = "deny" THEN "decide" ELSE @,
                           ![r].act = IF rule.action = "deny" THEN "deny" ELSE @]
     /\ snaps' = IF rule.action = "disable"
                 THEN [snaps EXCEPT ![req[r].snap].off = @ \cup ({In(r).host} \X rule.stages)]
                 ELSE snaps
     /\ UNCHANGED others

\* "challenge" of a site without a signer is observed only.
BotDetectStage(r) ==
  LET s         == SiteOf(r)
      denied    == In(r).kind \in s.denies["botdetect"]
      challenge == In(r).kind \in s.challenge /\ s.bot /\ ~CaptchaEnabled(Policy(r))
  IN /\ Runs(r, "botdetect")
     /\ Rules(r, ~req[r].trusted /\ (denied \/ challenge),
              IF denied THEN "deny" ELSE "challenge", FALSE)
     /\ UNCHANGED <<snaps, others>>

\* pass: a valid cookie, or a verified good bot the site lets by.
BotStage(r) ==
  /\ Runs(r, "bot")
  /\ Rules(r, ~req[r].trusted /\ SiteOf(r).bot /\ ~In(r).pass, "challenge", FALSE)
  /\ UNCHANGED <<snaps, others>>

CaptchaStage(r) ==
  /\ Runs(r, "captcha")
  /\ Rules(r, ~req[r].trusted /\ SiteOf(r).captcha /\ ~In(r).pass, "challenge", FALSE)
  /\ UNCHANGED <<snaps, others>>

\* The buckets are left out: a limited request may be over or not.
RateLimitStage(r) ==
  /\ Runs(r, "ratelimit")
  /\ \E over \in BOOLEAN :
       Rules(r, ~req[r].trusted /\ SiteOf(r).ratelimit /\ over, "deny", FALSE)
  /\ UNCHANGED <<snaps, others>>

SemanticStage(r) ==
  /\ Runs(r, "semantic")
  /\ Rules(r, /\ ~req[r].trusted /\ In(r).kind \in SiteOf(r).denies["semantic"]
              /\ In(r).kind \notin Policy(r).excepted[In(r).host], "deny", FALSE)
  /\ UNCHANGED <<snaps, others>>

CorazaStage(r) ==
  /\ Runs(r, "coraza")
  /\ Rules(r, ~req[r].trusted /\ In(r).kind \in SiteOf(r).denies["coraza"], "deny", FALSE)
  /\ UNCHANGED <<snaps, others>>

-----------------------------------------------------------------------------
(* ServeHTTP.                                                              *)

\* What may refuse a request before the pipeline, in this order.  The redirect to HTTPS
\* and the captcha's verify endpoint answer and touch no state: left out.
Preflight(doc, in) ==
  IF in.host \notin Site THEN "no_site"
  ELSE LET s == doc.site[in.host] IN
    IF s.disabled THEN "disabled"
    ELSE IF s.auth /\ ~in.creds THEN "auth"
    ELSE IF s.reject /\ in.over THEN "body_limit"
    ELSE "inspect"
PreflightRefusals == {"no_site", "disabled", "auth", "body_limit"}

Arrive(r) ==
  /\ req[r].pc = "idle"
  /\ arrived < MaxRequests
  /\ arrived' = arrived + 1
  /\ \E in \in Input :
       LET doc == Doc(snaps[serving])
           by  == Preflight(doc, in)
           new == [Idle EXCEPT !.snap = serving, !.in = in, !.held = snaps[serving].bans[in.client]]
       IN \/ /\ by \in PreflightRefusals
             /\ req' = [req EXCEPT ![r] = [new EXCEPT !.pc = "decide", !.act = "deny"]]
          \/ /\ by = "inspect"
             /\ req' = [req EXCEPT ![r] = [new EXCEPT !.pc = "inspect", !.at = 1]]
  /\ UNCHANGED <<snaps, serving, hook, events, clock>>

\* Who refused the request.
By(r) == IF req[r].at = 0 THEN Preflight(Policy(r), In(r)) ELSE Pipe(r)[req[r].at]

\* Preflight refusals always; a verdict unless the flow is trusted or its rule does not log.
Audited(r) ==
  \/ req[r].at = 0
  \/ /\ ~req[r].trusted
     /\ By(r) = "matcher" => Policy(r).matchers[req[r].rule].log

\* Blocked and challenged answers; audit.Write calls the hook before it queues.
Answer(r) ==
  /\ req[r].pc = "decide"
  /\ req[r].at = 0 \/ SiteOf(r).intercept
  /\ IF Audited(r)
     THEN /\ events' = Append(events,
                [client |-> In(r).client, host |-> In(r).host, kind |-> In(r).kind, by |-> By(r),
                 run |-> req[r].snap, under |-> serving, fed |-> hook, at |-> clock])
          /\ snaps' = IF hook = 0 THEN snaps
                      ELSE [snaps EXCEPT ![hook] = Observed(@, In(r).client)]
     ELSE UNCHANGED <<events, snaps>>
  /\ req' = [req EXCEPT ![r] = Idle]
  /\ UNCHANGED <<serving, hook, arrived, clock>>

\* No verdict, or a monitored one, whose event has an action Observe does not count.
Forward(r) ==
  /\ \/ req[r].pc = "inspect" /\ req[r].at > Len(Pipe(r))
     \/ req[r].pc = "decide" /\ req[r].at # 0 /\ ~SiteOf(r).intercept
  /\ req' = [req EXCEPT ![r].pc = "forward"]
  /\ UNCHANGED <<snaps, others>>

Leave(r) ==
  /\ req[r].pc = "forward"
  /\ req' = [req EXCEPT ![r] = Idle]
  /\ UNCHANGED <<snaps, others>>

-----------------------------------------------------------------------------
(* Reload: the hook moves to the new manager, then the snapshot is swapped *)
(* in.  What else it does, and its failures, are PlaneReload's.            *)

Hooked(g) == IF AuditIsSQLite THEN g ELSE 0

Wire ==
  /\ serving = Len(snaps)
  /\ Len(snaps) < MaxBuilds
  /\ \E rev \in Published : snaps' = Append(snaps, Built(rev))
  /\ hook' = Hooked(Len(snaps'))
  /\ UNCHANGED <<serving, req, arrived, events, clock>>

Swap ==
  /\ serving < Len(snaps)
  /\ serving' = Len(snaps)
  /\ UNCHANGED <<snaps, hook, req, arrived, events, clock>>

Tick ==
  /\ clock < MaxClock
  /\ clock' = clock + 1
  /\ UNCHANGED <<snaps, serving, hook, req, arrived, events>>

Stage(r) ==
  \/ SkipStage(r) \/ AclStage(r) \/ PenaltyStage(r) \/ GeoStage(r) \/ ExceptionsStage(r)
  \/ MatcherPasses(r) \/ MatcherHits(r) \/ BotDetectStage(r) \/ BotStage(r) \/ CaptchaStage(r)
  \/ RateLimitStage(r) \/ SemanticStage(r) \/ CorazaStage(r)

Next ==
  \/ \E r \in Slot : Arrive(r) \/ Stage(r) \/ Answer(r) \/ Forward(r) \/ Leave(r)
  \/ Wire \/ Swap \/ Tick

Spec == Init /\ [][Next]_vars

-----------------------------------------------------------------------------
(* Properties.                                                             *)

Tick0 == 0..(MaxClock + Ban)
Snapshots == [rev : Revision, off : SUBSET (Site \X Disableable),
              counts : [Client -> [start : 0..MaxClock, n : Nat]],
              bans : [Client -> Tick0]]
Requests(builds) ==
  [pc : {"idle", "inspect", "decide", "forward"}, snap : 1..builds, at : 0..11,
   in : Input \cup {Idle.in}, trusted : BOOLEAN, rule : Nat, act : {"allow", "deny", "challenge"},
   held : Tick0]

Refusers ==
  PreflightRefusals \cup {"acl", "penalty", "geo", "exceptions", "matcher", "botdetect", "captcha",
                          "bot", "ratelimit", "semantic", "coraza"}

\* Types; and a manager that bans (not throttles) never holds a count at the threshold.
TypeOK ==
  /\ snaps \in Seq(Snapshots)
  /\ \A g \in DOMAIN snaps :
       Doc(snaps[g]).penalty.mode = "deny" =>
         \A c \in Client : snaps[g].counts[c].n < Doc(snaps[g]).penalty.threshold
  /\ serving \in DOMAIN snaps /\ Len(snaps) - serving \in 0..1
  /\ hook \in 0..Len(snaps)
  /\ arrived \in 0..MaxRequests /\ clock \in 1..MaxClock
  /\ req \in [Slot -> Requests(Len(snaps))]
  /\ events \in Seq([client : Client, host : Site \cup {"unknown"}, kind : Kind,
                     by : Refusers, run : DOMAIN snaps, under : DOMAIN snaps,
                     fed : 0..Len(snaps), at : 1..clock])

Fed(g, c, from, to) ==
  {i \in DOMAIN events : /\ events[i].fed = g /\ events[i].client = c
                         /\ events[i].at \in from..to}

\* "Blocked plus challenged events in the window": in deny mode nobody is banned by
\* fewer than `threshold' events, of which the oldest is younger than Window
\* (docs/CONFIG.md:336, penalty.go:62-96).
BanIsEarned ==
  \A g \in DOMAIN snaps, c \in Client :
    Doc(snaps[g]).penalty.mode = "deny" /\ snaps[g].bans[c] # 0 =>
      LET t == snaps[g].bans[c] - Ban
      IN Cardinality({i \in Fed(g, c, 0, t) : t - events[i].at < Window}) >= Doc(snaps[g]).penalty.threshold

\* The other way round: `threshold' events written at one moment under the serving
\* snapshot leave the client banned, whatever reload or old request was in between.
\* Between Wire and Swap the manager that checks is not the one that counts
\* (proxy.go:301-311, 335-336).
PenaltyAnswersThreshold ==
  \A c \in Client :
    LET now == {i \in DOMAIN events : /\ events[i].client = c /\ events[i].at = clock
                                      /\ events[i].under = serving}
    IN /\ serving = Len(snaps)
       /\ Doc(snaps[serving]).penalty.mode # "off"
       /\ Cardinality(now) >= Doc(snaps[serving]).penalty.threshold
       => snaps[serving].bans[c] = clock + Ban

\* What operators have cleared does not count against a client: nothing from a
\* whitelisted client, from an exempt path past the exceptions stage, or from a
\* monitored site feeds the penalty, except refusals before the pipeline
\* (proxy.go:759-771, 802-810).
SparedFlowsNeverFeed ==
  \A i \in DOMAIN events :
    LET e   == events[i]
        doc == Doc(snaps[e.run])
    IN e.by \notin PreflightRefusals =>
         /\ ~Whitelisted(doc, e.host, e.client)
         /\ Exempt(doc, e.host, e.kind) => e.by \in {"acl", "penalty", "geo"}
         /\ doc.site[e.host].intercept

\* Whitelisted, or excepted: what docs/CONFIG.md:340 puts before the penalty.
Preferred(r) ==
  \/ Whitelisted(Policy(r), In(r).host, In(r).client)
  \/ Exempt(Policy(r), In(r).host, In(r).kind)

\* A ban that was in force when the request arrived and still is when it goes to the
\* upstream was never overlooked, whatever the other requests of the client did, unless
\* the request is one the documentation puts before the penalty (penalty.go:98-117,
\* stages/penalty.go:32-46).
PenaltyIsEnforced ==
  [][\A r \in Slot :
       /\ req[r].pc # "forward" /\ req'[r].pc = "forward"
       /\ Policy(r).penalty.mode = "deny" /\ SiteOf(r).intercept
       => req[r].held < clock \/ Preferred(r)]_vars

\* And those requests the penalty does not refuse: "whitelist-trusted clients (already
\* allowed there) are never affected by penalty decisions" (stages/penalty.go:1-3,
\* docs/CONFIG.md:340).
PreferredAreNotPenalised ==
  \A r \in Slot : req[r].pc = "decide" /\ By(r) = "penalty" => ~Preferred(r)

\* Why a stage may have let a request of this kind pass on this snapshot.
Allowed(doc, host, kind) ==
  /\ Hits(doc, host, kind) # {}
  /\ doc.matchers[FirstHit(doc, host, kind)].action = "allow"
Spared(r) ==
  LET doc == Policy(r)
      h   == In(r).host
  IN \/ Whitelisted(doc, h, In(r).client)
     \/ In(r).client \in doc.site[h].geo.white /\ doc.site[h].geo.trusted
     \/ Exempt(doc, h, In(r).kind) \/ Allowed(doc, h, In(r).kind)

\* On an intercepting site what a detector denies reaches the upstream only if the
\* flow was spared, the rule excepted, or the detector switched off for this site by
\* a rule of the request's own configuration (pipeline.go:121-136).
ForwardedWasCleared ==
  \A r \in Slot :
    req[r].pc = "forward" /\ SiteOf(r).intercept /\ ~Spared(r) =>
      \A st \in Detectors :
        In(r).kind \in SiteOf(r).denies[st] =>
          \/ <<In(r).host, st>> \in Snap(r).off
          \/ st = "semantic" /\ In(r).kind \in Policy(r).excepted[In(r).host]

\* A module is off only where a disable rule of the same configuration says so:
\* requests of an older snapshot do not switch anything off in the new one
\* (stages/disable.go:25-46).
OffWasAsked ==
  \A g \in DOMAIN snaps : \A o \in snaps[g].off :
    \E i \in DOMAIN Doc(snaps[g]).matchers :
      LET rule == Doc(snaps[g]).matchers[i]
      IN /\ rule.action = "disable" /\ o[2] \in rule.stages
         /\ rule.sites = {} \/ o[1] \in rule.sites
=============================================================================
