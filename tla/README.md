# KingMoat WAF: TLA+ models, checks and proofs

This directory keeps TLA+ models of KingMoat WAF beside its code. The modules are
translated from the Go sources under `src/` and from the web console's Vue and
JavaScript sources under `src/web/console/src/`; `PROJECT.json` maps every definition
to the lines it stands for. TLC checks each model on a small instance; TLAPS proves
most of the safety properties, and the refinement of the configuration center, for
every value of the constants.

    tlasany RequestPath.tla
    tlc -workers 2 -config cc_one.cfg MCConfigCenter.tla
    tlapm ConfigCenterProofs.tla

Paths below are relative to `src/`; `proxy.go`, `router.go`, `upstream.go` are in
`internal/proxy/`, `center.go` and `consume.go` in `internal/configcenter/`,
`replace.go` and `rollback.go` in `internal/upgrade/`, `*.vue` in
`web/console/src/views/` (`Layout.vue`, `MyAccount.vue` in its `components/`), `api.js`
and `router.js` in `web/console/src/`.

## 1. The system

KingMoat is one process: a reverse proxy with a detection pipeline (the *traffic
plane*), a console API that publishes configurations (the *control plane*), and side
services. It keeps its state in a SQLite database, in two installed binaries and their
backups, and in memory. Its web console is a single-page application: several browsers,
each with several tabs, act on the one process and keep in every page a copy of what
they read from it.

| component | state | operations | talks to |
|---|---|---|---|
| configuration center (`configcenter`, `store`) | the `revisions` table; the live `*config.Config` and its revision; subscriber channels; the outcomes of applies | Publish, PublishSite, Rollback, in-place handlers (AI key, exceptions), WaitForApply, Subscribe, Consume | console handlers call it; Consume calls `Handler.Reload` and `hotReloadAfter` |
| traffic plane (`proxy.Handler`) | an atomic pointer to a snapshot (pipeline, router, disable registry, penalty manager); the IP group manager | Reload, ServeHTTP | the consumer reloads it; requests read the snapshot they started on |
| router and upstream pools | per site: pool, transport, certificate and its file stamp; per node: health, failures, breaker deadline, round-robin weight | build, adopt, close; pick, report success or failure, probe | requests and the prober goroutine write the same atomics |
| pipeline and stages | the order of the stages; per snapshot: disabled modules, penalty counts and bans, rate buckets | Inspect | stages share `rc.Values` within a request and the snapshot between requests |
| audit and attack log (`logstore`) | write queue, SQLite files, archives, a write hook | Write, query, prune, archive | its hook feeds the penalty manager |
| self-upgrade (`upgrade`, `deploy/kingmoatwaf.service`, `kmwafctl`) | installed pair of binaries, `.bak` files by version, the intent marker, one task | Start (stages), restart API, CheckUpgradeIntent, PerformRollback | systemd starts and stops the process; its `ExecStartPre` runs the check |
| certificate manager (`certmgr`) | certificate cache, running requests, cooldowns, task history, renewal loop | request, renew, restart the renewer | writes the files the router stamps |
| log shipping, access log | bounded queues, batches, rings | Write, flush, Close | pushes to S3, Kafka, syslog, webhook |
| console authentication | users, sessions, MFA secrets, login failures | login, logout, change password, roles | guards every console handler |
| alerts | continuous-over state and cooldown per rule | evaluate, deliver | replaced on publish |
| AI assistant | supervisor of one service, key store | start, replace, stop, dialogue | replaced on publish |
| console: configuration pages (`Policy.vue`, `Settings.vue`, `AIChat.vue`) | what the page loaded, what was edited, the rule its dialog holds, saves and loads under way | open, edit, save a tab, a rule, a switch, a group, the form, the model, the key | read the whole document, change their part, post it back whole |
| console: sites page (`Sites.vue`) | the draft, the drawer, the revision shown, "unpublished changes" | load, edit, publish all or one site, switch, delete, roll back | the same document; its own loads answer late |
| console: session (`api.js`, `router.js`, `Layout.vue`, `Login.vue`, `ChangePassword.vue`, `MyAccount.vue`, `api.go`) | cookie, local and session storage of the browser, memory and address of the tab; signature key and last logout of the server | login, logout, password change, guard, badge poll | tabs share the browser's storage; every call may be told that its session is gone |
| console: upgrade and restart cards (`Settings.vue`) | the task on the card, the generation and timer of its polls, failed rounds; the restart's probes | attach, start, poll, judge, restart, probe | the upgrade task of a server that dies under it |
| console: certificate request (`Certs.vue`, `certmgr/request.go`) | the dialog's phase, task and timer; the service's tasks, running keys, cooldowns, cache | submit, poll, close, back, leave; run, end, forget, restart | several administrators, one service |
| console: lists and chat (`Logs.vue`, `AccessLogs.vue`, `Dashboard.vue`, `Risks.vue`, `Assets.vue`, `Users.vue`, `Certs.vue`, `AIChat.vue`) | what each list asks for, what it shows; the chat's session, messages and stream; the question handed over | load, filter, page, act on a row; start, pick, send, delete | answers overtake each other and outlive their page |
| the rest | telemetry, host statistics, metrics, API assets, geo databases, intercept pages | | |

### What is hard in it

* **Interleaving.** Console requests overlap; each publish appends a row and installs
  it under no common lock. The consumer goroutine, publishers and requests run at the
  same time. A node's breaker is three separate atomics.
* **Stale reads.** `catchUp` reads the active revision twice; a single-site publish
  merges into a document it read earlier; a certificate is read, then stamped; a
  request uses its snapshot long after a newer one serves.
* **Partial failure.** A build can fail after it adopted live pools, replaced the IP
  group manager or opened databases; a replace stage can fail between two renames.
* **Bounds.** A channel of eight events that drops, a registry of 64 outcomes, two
  backups kept by file name.
* **Crash and restart.** Everything but the database is lost; a death inside the swap
  of the binaries, or inside a rollback.
* **Pages that are behind.** A console page posts a document it read two round trips
  ago, in a form it loaded an hour ago; an answer arrives at a page whose filter, draft,
  session or task has changed since, or that is gone.
* **Polls.** A card follows a task by a timer or a call; attaching again, a refusal, a
  closed dialog and a page mounted twice must not leave two chains, or none. The verdict
  is drawn from silence, and silence has several causes.
* **Order.** The penalty hook moves to the manager of a snapshot that does not serve
  yet; one request disables a module while others are between two stages.

`PROJECT.json` lists each such place under `hazards`, with the properties that cover it
or the reason none does.

### What makes each component correct

* *Configuration center:* nothing invalid is stored or live; the plane and the side
  components run the documents stored under the revisions they report, and a component
  that cannot be built anew keeps an older one; a newer revision
  is eventually run and never undone; publishers learn the outcome of their own revision.
* *Reload:* a failed build changes nothing a serving request depends on; a successful
  one serves exactly its configuration and leaks no goroutine.
* *Upstream pool:* fair and balanced round-robin, a breaker that counts consecutive
  failures, recovery.
* *Request path:* what a detector denies is forwarded only if something the operator
  configured spares it; a penalty is earned, is enforced on those the operator has not
  cleared, and is not fed by what the operator cleared.
* *Upgrade:* a failed swap restores every binary that can be restored, a rollback leaves
  the pair it was told of, the self-heal net does not undo a good installation.
* *Configuration pages and sites page:* a save changes its own part and carries nothing
  stale, however many are under way; a failed save leaves the page showing a stored
  document; a site's own publish takes nothing of the draft of other sites along.
* *Session:* a logout is final; a tab whose session died leaves the console.
* *Cards and dialogs that follow a task:* one chain of polls per task shown; no success
  that nothing backs; a verdict in the end. One issuing per domain at a time.
* *Lists and chat:* a list ends up showing what its controls ask for; the conversation
  shown is the one the next question goes to; a question is asked once.
* *Not modelled yet:* tokens per second never exceeded (rate limiter); every line
  written, shipped or counted as dropped (log store, shipper); accounts and roles under
  overlapping administrators (console authentication).

## 2. Modules

| module | models | MC module, runs |
|---|---|---|
| `RevisionLog` | abstract specification: an append-only log and a plane that only moves forward | property of `cc_one` |
| `ConfigCenter` | `center.go`, `consume.go`, the publishing handlers, `hotReloadAfter` | `MCConfigCenter`: `cc_one`, `cc_two` |
| `PlaneReload` | `Handler.Reload`, `buildState`, `buildRouter`, `SiteRouter.Close` | `MCPlaneReload`: `pr_reload` |
| `UpstreamPool` | `upstream.go` | `MCUpstreamPool`: `up_pool` |
| `RequestPath` | `ServeHTTP`, the pipeline, the stages' decisions, `penalty.Manager`, the audit hook | `MCRequestPath`: `rp_path` |
| `Upgrade` | `replace.go`, `rollback.go`, `restart.go`, the task, the restart API, `kmwafctl upgrade-rollback`, the unit file | `MCUpgrade`: `ug_upgrade` |
| `ConfigPages` | the saves and loads of `Policy.vue`, `Settings.vue` and `AIChat.vue`'s model dialog, overlapping in a page and by several administrators | `MCConfigPages`: `cp_pages` |
| `SitesPage` | `Sites.vue` | `MCSitesPage`: `sp_sites` |
| `ConsoleSession` | `api.js`, `router.js`, `Login.vue`, `ChangePassword.vue`, `Layout.vue`, `MyAccount.vue`; the cookie checks of `internal/api/api.go` | `MCConsoleSession`: `cs_session` |
| `UpgradePanel` | the upgrade and restart cards of `Settings.vue`; the task endpoints of `internal/api/upgrade_api.go` | `MCUpgradePanel`: `ug_panel` |
| `AcmePanel` | the request dialog of `Certs.vue`; `internal/certmgr/request.go` | `MCAcmePanel`: `am_panel` |
| `ConsoleViews` | the loads, filters and row actions of seven list pages, and the chat | `MCConsoleViews`: `vw_views` |
| `ConfigCenterProofs`, `PlaneReloadProofs`, `RequestPathProofs`, `UpgradeProofs`, `ConfigPagesProofs`, `UpgradePanelProofs`, `AcmePanelProofs`, `ConsoleViewsProofs` | theorems about the module of that name (section 4); those about `UpstreamPool` are in `PlaneReloadProofs`, those about `SitesPage` and `ConsoleSession` in `ConsoleViewsProofs` | |

`ConfigCenter` takes `Reload` as one step that succeeds or fails; `PlaneReload` opens
that step up, and `RequestPath` looks at its last part (hook, then swap) from the side of
the requests. `UpstreamPool` is one pool of one site of `PlaneReload`. `RevisionLog` is
what `ConfigCenter` implements, through `INSTANCE RevisionLog WITH log <- store,
running <- ...`. The console's modules compose a page with as much of the server as it
talks to: `ConfigPages` and `SitesPage` see of `ConfigCenter` only the stored documents
(a publish is atomic for a page), `UpgradePanel` sees of `Upgrade` only a task's outcome,
the process's death and the version it comes back with, `AcmePanel` has the issuing
service in full.

In every module an action is one step that the code does without another goroutine being
able to look in between: a critical section, one atomic store, one rename, one SQL
statement; in the browser, the code between two awaits. A call is served in one step and
its answer handled in another, so every answer may be old when it arrives, and may be
lost before or after it was served. Names follow the source. An operator "Bug of X" or
"Mutant" before X is a plausible mistake in that code; `PROJECT.json` names, for each
checked property, the one that breaks it.

### ConfigCenter

`store` is the `revisions` table, its positions the AUTOINCREMENT ids. `center` is
`Center.rev` and the object `Center.cfg` points to; since pointers are shared and two
handlers edit the live object, `heap` keeps what each object holds now. `queue` and
`subscribed` are the consumer's channel, `results` and `lastApply` the registry of
outcomes, `plane` what the traffic plane runs and `side` what each side component
(`Builder`) runs. A component in `Fallible` may fail to be built anew (the shipper, the
access log): it keeps what it had, and the apply counts as done all the same. A
publisher goes through *encode* (Validate, Marshal), *compare* (no changes), *append*,
*install* (with the non-blocking fan-out) and *wait*; the consumer through *missed* and
*snapshot* (`catchUp`), *select*, *drain*, *reload*, *status*, *after*. `Crash` loses
everything but the table; `Boot` is `configcenter.Open` and main's first build.

The AI-key handler reads `Current()` in one step and edits that object in another. If the
row of the active revision cannot be read, *compare* is skipped, as in the code.

A configuration is a function from sections to values. Validation and buildability are
the sets `Invalid` and `Unbuildable`; `MaxFlaky` lets a build fail for a reason outside
the configuration (a list that cannot be fetched).

### PlaneReload

`plane` is the sequence of snapshots swapped in so far (requests may still hold an older
one), `build` the reload in progress. `probing`, `refreshed` and `embedded` are the
resources outside any snapshot: prober goroutines, refresh loops, the process-wide geo
reader. `AdoptSite`, `OpenPool`, `ReadCert`, `StampCert` are the loop of `buildRouter`;
`StagesFail` and `RouterFails` its error returns and those of `buildState`; `CloseOld` is
`old.close()` after the swap. `WriteCert` replaces a certificate file at any time, between
`ReadCert` and `StampCert` too; a runtime keeps the version it read and the one it stamped.

### UpstreamPool

The nodes' atomics (`healthy`, `fails`, `down`), the mutex-guarded current weights `cw`,
the prober, and requests between pick and report. Each `Store` or `Add` of
`ReportSuccess` and `ReportFailure` is a step of its own. `pickNode` holds the pool's
mutex and is one step; it reads the availability of the nodes one after the other, and
the model reads them at once. The algorithm is `wrr`; with passive checks switched off
the reports do nothing, which is left out.

### RequestPath

`snaps` are the snapshots built, each with its disable registry and penalty manager;
`hook` is the manager the audit store feeds; `req` the requests, each at a stage of the
pipeline of the snapshot it arrived on. One action per stage; `SkipStage` is the gate for
disabled modules. `Answer` writes the event (and so feeds the penalty) and `Forward` goes
to the upstream. What a detector makes of a payload is a constant per site and *kind* of
request; matcher rules, exceptions, geo and ACL lists act as in the code, first hit
first. A rate-limited request may be over the limit or not. Left out: cookies and the
captcha's verify endpoint (a request has a valid pass or not), the HTTPS redirect,
real-IP, the scoped exceptions of Coraza's own engine, `gcLocked` of the penalty maps
(only expired entries, past 4096).

### Upgrade

`file` are the two installed binaries, `bak` the backups by version and name, `marker`
the intent file, `running` the release in memory, `proc` the start sequence (hook, exec,
main's check), `task` the upgrade stage machine. `Crash` and `Stop` (systemd executing a
queued restart) end the process between any two steps; a backup being copied stays torn,
a rename is atomic. The release feed, download and verification are one step (`Fetch`).
Every file operation of a task may fail, and up to `MaxFault` of those of a restore or a
rollback: the restore ignores its errors and goes on, the rollback stops and leaves its
marker. `lost` are the binaries the task under way has failed to restore. Not modelled:
the mode bits a failed chmod leaves, reordering of writes by a power loss.

### ConfigPages

`revs` are the stored documents. A document is a function from keys to values; one key
stands for each way a page merges: a field of the form, one that an emptied field does not
remove, the stored AI key no form shows, what the settings form loses because it builds
the block anew (`rest`), a tab read before or after the re-read, an IP group, a rule found
by its name and its log switch, what only other pages edit.

A save is *get* (`Answer`: the server is asked for the document), *got* (`Merge`: the answer
arrives, the page's part is merged in, or the save refused), *post* (`Commit`, `Fails`),
*stored* (`Succeeds`, `AnswerLost`). A load is *load*, *loaded* (`Loads`: the configuration)
and, on the policy page, *groups* (`LoadsGroups`: a request of its own, to the live
configuration, which may be behind, and whose failure shows no groups). What a save takes
from the page is read when the code reads it: at the click, or when the answer of its
re-read arrives (`About` asks the dialog only then which rule it is about). Calls of one
page overlap except where a flag of the page forbids it (`Busy`); the form, the dialog and
the rows may change under any of them. A log switch flips at the click and flips back on
failure; `row` says whether the row the save was clicked on is still the one shown.
`MaxRev`, `MaxEdits`, `MaxValue` and the set `Call` are bounds.

### SitesPage

`form`, `rev`, `listed`, `dirty`, `drawer` and `edit` are the page; `reading` and
`listing` count the loads that wait for the document and for the list of revisions, two
requests one after the other. A document is its sites and `mail`, which stands for the keys
the server leaves out when they are empty: a load merges the document into the draft
(`Merged`), so such a key survives there. A site is its domain, whether it is off, and
whether it has settings of its own; the form reaches a site by position, the server by
domain. A save of the drawer first asks the server for its listeners, and uses the position
and the draft of the moment that is answered (`DrawerChecked`). Publishing one site puts the
draft back if it fails. Loads, edits and saves overlap without any assumption about the
user. An edit of the JSON view changes the draft and marks nothing; it is modelled by what
it publishes. Not modelled: two saves of one page at once, the hole a position further out
leaves in the list, filter and paging of the list.

### ConsoleSession

The server keeps no session: a cookie is accepted while its key is the server's, it is
young enough, and it was issued after the last logout (`Accepted`). The browser has one
`jar` and one local storage `store` for all tabs; the modelled tab has its memory `mem`,
its `pending` password change, address `hash`, the `view` it shows, a badge `poll` and one other
`call`. `Navigate` is the router's guard. Other tabs sign in and out at any time. Every
answer may be a success, a 401, a 403 that demands a password change, or lost. `Anchored`
says whether `KINGMOAT_ADMIN_HASH` fixes the signature key over restarts; the run takes
FALSE.

### UpgradePanel

`st`, `up`, `boots`, `ver` are the server; `shown` the task on the card, `calls` and
`timers` its polls. `upgGen` is kept as one bit: a call is live or it is not. `Judge` is the
look at the version after the process that ran the task is gone; after `MaxLost` failed
rounds the card gives up. The restart card is `rst` and `verdict`. A probe may be lost or denied
at any time, since a session ends for many reasons; the ghosts `died` and `doubt` in `rst`
record whether, since the restart was asked for, the process died, and whether a probe of
the living process was lost or denied. `OneCard` uses one card at a time (they share nothing
but the server).

### AcmePanel

`tasks`, `cooling`, `cached` are the service: single flight per key, `Slots` at once,
the last `History` finished tasks remembered, a cooldown after a failure, an answer from
the cache. A certificate is obtained in one step (`Obtain`, recorded in the ghost `issued`)
and the task ends in another, whether or not the cache was written. The dialog has `phase`, `shown` and a handle of its last timer; so clearing the
timer stops a chain only between two calls (`held`). `SingleSubmit` says a request is
submitted with the button, which waits for the answer, and not with the Enter key, which
does not.

### ConsoleViews

What the server has is a version `ver`; a list asks for a query (`want`: a filter and a page)
and shows a query and a version. `Serve` answers a call, `Arrive` shows it whether or not a
later one has arrived, `Lose` fails it; `Interval` is the page's timer, `Debounced` the log
filter's. Thirteen actions on rows reload their list when they succeed (`Deeds`). The chat
starts with three awaits (*config*, *list*, *history*), and a page left in the middle goes
on without being seen (`dead`); `seed` is the question in the tab's storage, `asked` counts
how often it was sent. `Orphaned` is the answer to a question whose page is gone. `CalmChat`
is an assumption about the user, which the page does not enforce: an answer, a history or a
deletion of the chat arrives before anything else is done there.

## 3. Runs

| run | instance | what it shows |
|---|---|---|
| `cc_one` | one publisher, one site, values good / invalid / unbuildable, two side components of which one may fail, channel of 1, registry of 2, four revisions, one crash, one flaky build | with requests one at a time the center implements `RevisionLog`; nothing invalid is live; the plane runs its revision and each side component follows or keeps what it had; a buildable active revision is run or superseded although events are dropped |
| `cc_two` | two publishers, the in-place AI section, channel of 1, three revisions | overlap and an edit in place do not make a publisher believe the outcome of another revision |
| `pr_reload` | two sites, two definitions, four documents, three reloads, one certificate replacement per site, one request | which resources a snapshot can rely on after each kind of failure; adoption, pools and their probers, the certificates served |
| `up_pool` | weights 2:1, threshold 2, cooldown of 1 tick, two requests, one outage | no flooding, fair rounds; a node that stays up serves again (the first two by theorem for other pools, section 4) |
| `rp_path` | two sites, two clients, five different requests, three of them in all and two at a time, one reload, three ticks | bans are earned, and enforced on whom nothing clears; nothing denied is forwarded unless something configured spares it |
| `ug_upgrade` | five releases, the newest broken, three tasks, two deaths, two I/O errors | failures restore what they can, the net spares good installations, a rollback that comes to its end restores both binaries |
| `cp_pages` | one page of any kind, two calls at a time, every kind of save, one rule name, values off and on, three revisions, one typed edit | a save publishes nothing stale outside its own part; a rule's save finds its rule; a page shows a stored document |
| `sp_sites` | two domains, three revisions, one edit, one load at once | a site's own publish changes that site only |
| `cs_session` | one auditor's account in all tabs, sessions of one tick, three ticks, one restart | a revoked session stays dead; a tab with a dead session leaves the console |
| `ug_panel` | two tasks, one death, two calls at once, two probes, one failed round tolerated | one chain of polls; success only if something was installed; a verdict in the end; no restart reported of a server that just goes on answering |
| `am_panel` | two domains, two tasks, one slot, a history of one, two polls per chain, one restart, `SingleSubmit` | one issuing per domain; one chain per request shown; success only if a certificate was obtained; the waiting ends |
| `vw_views` | two versions of the data, four steps of the user or losses, two loads of a list at once, two chat sessions, `CalmChat` | lists catch up; the chat shows the session it talks to; a question is asked once |

Each module also states properties that no run checks by name (its type invariant where a run
has none, `StatusTellsThePlane`, `NewestOutcomeKept`, `OneManager`,
`ServedGroupsRefreshed`, `EmbeddedGeoDecides`, `WeightsBalance`,
`FailuresAreConsecutive`, `SuccessIsInstalled`, `SparedFlowsNeverFeed`,
`OffWasAsked`). They hold on the same instances; add them to a .cfg to see it.

Fourteen more configurations are counterexamples: each states one property in the words of a
comment or a document of the repository, and TLC finds it violated by what the code does.
They are `cc_race`, `cc_sites`, `cc_edit` (`MCConfigCenter`), `pr_cert` (`MCPlaneReload`),
`ug_replace`, `ug_names`, `ug_cut`, `ug_loop` (`MCUpgrade`), `rp_cleared`
(`MCRequestPath`), `cp_ips`, `cp_dialog` (`MCConfigPages`), `sp_failed`, `sp_drawer`
(`MCSitesPage`) and `ug_restart` (`MCUpgradePanel`); section 6 says what each shows.

**Bounds.** They are constants (`MaxRev`, `MaxCrash`, `MaxFlaky`, `MaxReload`,
`MaxWrite`, `MaxFlap`, `MaxRequests`, `MaxBuilds`, `MaxClock`, `MaxTask`, `MaxEdits`,
`MaxLoads`, `MaxFault`, `MaxRestart`, `MaxBoot`, `MaxCalls`, `MaxVer`, `MaxStep`,
`MaxSession`) and
occur only in guards of actions that start something; `MaxLost`, `MaxPoll` and `MaxProbe`
stand for limits the code has, made small. They were chosen so that the cases of interest
occur. For the process's modules this was confirmed with invariants that deny them: a
dropped event followed by a catch-up jump, a prune of the registry while a publisher waits, a failed build after an
adoption, a third reload that adopts what the second one adopted, a breaker that opens
while another request is between two stores, a ban and its expiry, a challenge, a death
inside the rollback of a death. In `cc_one` a channel of one event stands for eight:
what matters is that it can be full with a newer revision to come; four revisions allow
the sequence run, dropped, dropped, caught up. Three requests reach a threshold of two
and one more; two slots give the overlap of a request of the old snapshot with one of the
new. Time is in ticks, and every duration is one or two: shorter than, equal to and
longer than one another all occur. `cc_two`, `rp_path`, `cp_pages` and `sp_sites` use the
symmetry of publishers, request slots, calls, and domains; nothing but
invariants and step properties is checked with it, `PenaltyIsEnforced` among them. For the
console's modules every mutant is a case that the bounds reach, and so is every
counterexample of section 6: the interesting overlaps occur. Two calls of one page are enough
for every overlap of two of them, and changes published elsewhere stand for the other
administrators; three revisions allow a save to be overtaken between its re-read and its
post. `cp_pages` has one rule name, so that a renaming onto another rule does not occur there.
With two names, three smaller instances were checked, all without error: the policy page with
tabs, groups, switches and removals, the rule dialog with switches and removals (both without
typed edits), and two settings pages. A history of one task for two lets one be
forgotten while it is shown; with three tasks and a history of two, the safety properties of
`am_panel` were checked too. Deadlock is not checked in
the runs that have bounds on everything that starts, where the system comes to rest.

**Fairness.** `ConfigCenter!FairSpec`: weak fairness of the consumer (a goroutine the
runtime keeps scheduling) and of `Boot` (a service manager restarts the process); nothing
is assumed of publishers, who may stop anywhere. `PoolFairSpec`: weak fairness
of the prober (a ticker and a client with a timeout). `Upgrade!FairSpec`: weak fairness of
the start sequence (`Restart=on-failure`, `RestartSec=3`). `Up` implies nothing about
`Boot` if the newest stored revision cannot be built: then the process exits on every
start, and `NewestRevisionRuns` makes no claim while the process is down.

In the console nothing is assumed of users, of other administrators, or of the server's
return. `ConsoleSession`: the router runs (`Navigate`) and the badge's timer fires
(`Poll`), weakly fair, since both are the browser's event loop; `PollAnswered` is strongly
fair: a request that is sent every minute is not lost every time. `UpgradePanel`: polls
are answered or fail and their timers fire, and a task ends (its stages run under a
timeout). `AcmePanel`: polls and submissions are answered or fail; no issuing need ever
end. `ConsoleViews`: for each group of lists separately, calls are answered or fail,
answers are handled and intervals fire; one condition for all of them would let the lists
of one page starve another's.

**Excuses.** Some properties are stated with the exception the code really has:
`ServedPoolsProbed` and `NoOrphanProber` name the failures after which they do not hold;
`SideFollowsPlane` the components whose constructor may fail, and what those keep;
`ReloadNoticesCert` a file replaced between its reading and its stamping (`Mistaken`);
`BanIsEarned` the deny mode; `PenaltyIsEnforced` what the documentation puts before the
penalty (`Preferred`); `FailedReplaceRestores` a binary whose own restore failed (`lost`);
`NetSparesGoodInstall` a death inside the swap and files that could not be read, restored or
removed; `RollbackRestoresPair` such files; all three make no claim while a backup is kept
under a name that sorts after that of the release they rest on (`NoLaterBackup`);
`SavesCarryNothingStale` the blocks the settings form builds anew (`Rebuilt`);
`RestartWasReal` a probe of the living process that was lost or denied (`doubt`). Two of the
checked properties rest on assumptions about the user: `ShownIsFollowedOnce` on
`SingleSubmit`, `ChatShowsItsSession` on `CalmChat`. Section 6 describes what happens in the
excepted cases.

## 4. Proofs

Eight modules hold theorems, each named after the component it is about. Two of them also
extend other components: `PlaneReloadProofs` has the theorems of `UpstreamPool`, since pools
are what a reload opens, and `ConsoleViewsProofs` those of `ConsoleSession` and `SitesPage`.
For that the three have names of their own where others say `Init`, `Next`, `Spec` and
`TypeOK`: `PoolInit`, `SessionInit`, `SitesInit` and so on. The theorems are about any number
of publishers, nodes, sites, administrators, requests, tasks, losses and deaths, and any
capacity, threshold or bound, from the named assumption of the module on its constants
(`ConfigCenterAssumption`, `UpstreamPoolAssumption`, ...) alone unless said otherwise. Every
module has its type invariant proved (`TypeCorrect`, `BalancerTypeCorrect`,
`SessionTypeCorrect`, `SitesTypeCorrect`). An invariant of the kind the runs check is
seldom inductive; what follows says for each module what had to be added and why. All
strengthenings were checked with TLC before they were proved.

**ConfigCenter.**

* `LiveConfigIsValid`: `LiveConfigAlwaysValid`. The conjunct on the store alone is not
  inductive: a request between *compare* and *append* carries a document that was checked
  earlier, so `OnlyAccepted` adds that its body is valid, and that every object of the
  heap is. The AI handler's edit keeps a valid object valid, because each section is
  judged by itself.
* `LayersAgree`: `SideFollowsPlane`, for any components, of which any may fail to be built:
  each moves to the plane's revision or not at all. `SideInStep` says when a component that
  cannot fail may differ from the plane: in *status* and *after*, with a successful apply,
  and then the plane is on the event's revision.
* `RepliesAreHonest`: `ReplyIsHonest`, for overlapping requests and in-place edits too.
  `HonestSoFar` follows an outcome from the apply through the registry, its pruning and
  `lastApply` to the answer.
* `PlaneRunsStoredDocument`: `PlaneRunsItsRevision`, assuming `NoInPlaceEdits`.
  `PointersMatchRows` says every pointer in the center, the queue, the consumer and the
  requests reaches the row of its revision. With the in-place handlers it is false.
* `CurrentIsNewestRevision`, `RunningRevisionGrows`: `CurrentIsNewest` and
  `RunningNeverRegresses`, assuming `SinglePublisher`. `Serialized` says that the one row
  not yet installed is the last, and that what is about to be reloaded is ahead of the
  plane. Without the assumption both are false (section 6).
* `CenterImplementsLog`: under both assumptions, `Spec => ImplementsRevisionLog`: each
  step of the center is a step of `RevisionLog` or a stutter.

**PlaneReload.** One invariant `Sound` carries all: the serving router is complete and
older than the attempt under way (`Routed`); in the router under construction every pool
is new or one that the serving snapshot keeps (`Drafted`); the probed pools are those
served or drafted and no others, up to the failures that spoil it (`Probed`); the snapshot
that is closed gives up what its successor does not route to (`Closing`); one IP group
manager is refreshed, and a snapshot of the last attempt uses it (`Listed`). What is served
of a certificate is as new as its stamp unless the file was replaced between the two
(`Mistaken`); the theorem is about contents, and the excuse is the whole of the window. From it:
`RouterIsComplete` (`RouterMatchesConfig`), `ServedIsProbed` (`ServedPoolsProbed`),
`ProbersEnd` (`NoOrphanProber`), `CertsAreNoticed` (`ReloadNoticesCert`) and
`ListsAreFollowed` (`OneManager`, `ServedGroupsRefreshed`).

**UpstreamPool.** What is checked is about sums over the nodes, which the model takes with
a fold. `SumIs` unfolds that fold once, on a function on the finite subsets whose existence
is proved first (`SumsExist`); everything else about sums (a node added, a value raised,
two functions that agree) follows by taking a least set that would be a counterexample
(`Least`), so no induction over data is left to the prover.

* `DebtsBalance`: `WeightsBalance`. A pick raises the weights of the available nodes by
  their total and takes that total from one of them.
* `RoundsAreFair`: `RoundIsFair`, for a pool of any size. `Round` ties the current weight
  of a node to its picks: after *k* picks of a round it is *k* times its weight minus the
  total times its own picks, and above minus the total. Of the available nodes the heaviest
  is above zero after the raise, since the weights sum to zero (`BestIsOwed`); at the end
  of a round no node can have had more than its weight, and the picks add up to the total,
  so each has had exactly its weight (`RoundEnds`).
* `NoneIsFlooded`: `NoNodeIsFlooded`, for any weights but at most three nodes, which come and
  go. A pick with two nodes available, or with all, keeps each weight within a round; with
  four nodes it need not, and the attempt to prove it for any number led TLC to the example
  in section 6.
* `BalancerTypeCorrect`: `PoolTypeOK` and `FailuresAreConsecutive`. A node counts at most the
  threshold and one failure for each request that is opening its breaker (`Counted`).

**RequestPath.** A property of what reaches the upstream needs to know what happened at
every stage before:

* `ForwardIsCleared`: `ForwardedWasCleared`. `Vetted` says that a request at stage *n* has
  been let by every detector among the stages before, and for which of the allowed reasons;
  trust is only ever given for a reason the operator configured.
* `BanIsEnforced`: `PenaltyIsEnforced`, an action property, for every request the
  documentation does not put before the penalty. `HeldOff`: until the penalty
  stage is behind it, a request that arrived under a ban finds a ban at least as long in its
  own snapshot, whatever other requests, reloads and the hook do meanwhile.
* `BansAreEarned`: `BanIsEarned`. `Earned` ties each count to as many events of its window,
  each ban to `threshold` events within one window before it; it is about cardinalities of
  sets of event positions, so the lemmas say that an event appended adds one to the windows
  it falls into and none to the others.
* `SparedNeverFeeds` (`SparedFlowsNeverFeed`) from `SparedIsTrusted`: what the operator
  cleared is trusted from the stage that clears it on. `OffIsAsked` (`OffWasAsked`): a
  disable rule acts on its own snapshot only.

**Upgrade.** `Sound` says what each stage has done so far (`Progress`), what a failed stage
restores from (`Kept`), and what a marker tells of the disk (`Marked`): it names a complete
upgrade whose process is still the old one, so a mismatch at a start comes from a swap that
a second task of that process began, and the backup it names then holds the marker's own
release. From it `FailureRestores` (`FailedReplaceRestores`: every binary whose restore met no error
is the one before, whatever restores failed in earlier tasks), `SuccessIsComplete`
(`SuccessIsInstalled`), `NetIsSparing` (`NetSparesGoodInstall`) and `RollbackIsWhole`
(`RollbackRestoresPair`). `FailureRestores` is for any number of I/O errors; what the other
two say of the net they say while none has happened. The proof attempt without the condition
`NoLaterBackup` failed for a reason (section 6), and led to the condition.

**ConfigPages.** For any number of pages and of calls that overlap. What a call carries is a
whole document the server has stored since its click (`Good`), and after the merge one that
was current for every key that is not the save's own (`Fresh`); what a page shows of the
configuration is one stored document outside its edits (`Shows`), its groups one perhaps
another (`Groups`); the switch a save has flipped is where the save believes it to be, or its
row is gone (`Matches`). `Soundness` puts them together; `Frame` is what a step of one call or
page leaves the others: revisions are only appended, so what has been seen since a click stays
seen. From it `PageIsARevision` (`PagesShowARevision`), and the action properties
`NothingStaleIsSaved` (`SavesCarryNothingStale`) and `RuleIsFound`
(`RuleSavesFindTheirRule`): the name a save finds its rule by is the one the dialog holds when
the re-read arrives, and the proof is about that name.

**UpgradePanel.** `ActiveIsFollowed` (`ActiveIsFollowedOnce`) from `OneChain`: live calls
and timers together are at most one, and at least one while the open page shows a running
task. `SuccessIsReal` (`SuccessWasReal`) from `Real`: no answer on its way says more than
what has happened. `RestartIsReal` (`RestartWasReal`), without any assumption on the probes:
the restart card has one call at most, it waits for a silence only after the process died or a
probe of the living one was lost, and an answer that denies the session is of a process that
died or of a session that ended.

**AcmePanel.** `OneIssuingAtATime` (`OneIssuing`): one busy task per domain, and no more
running than slots; a request never moves a task into a slot. `SuccessHasItsCertificate`
(`SuccessWasIssued`), assuming `SingleSubmit`, from `OneCall` (one call or timer at all) and
`Honest` (an answer of success names a task whose domain has had a certificate obtained).
`ShownIsFollowed` (`ShownIsFollowedOnce`) holds under the same assumption. It is a lemma of
the module rather than a result: the page does not enforce the assumption (section 6), and
without it the property is false.

**ConsoleViews.** `SeedIsAskedOnce` (`SeedAskedOnce`), for any user, from `Handed`: a question
is named after the step it was asked at, the one in the storage was sent by nobody yet, and no
later one was asked. `ChatIsItsSessions` (`ChatShowsItsSession`) is conditional in the same way
as `ShownIsFollowed`: it assumes `CalmChat`, which the page does not enforce.

**SitesPage.** `SitesTypeCorrect` says besides the types that no stored document has a
domain twice: the server counts the domains (`Valid`), and a count equal to the length
means that all differ. `SitePublishIsAlone` is the action property
`SitePublishSparesOthers`, for any user; a save under way carries one site (`Saved`), and
`UpsertSpares` is what replacing or adding it leaves of the rest and of its order.

**ConsoleSession.** `LogoutIsFinal` is the action property `LogoutIsForGood`, assuming
`~Anchored`. `Judging` lists all that a step may do to what cookies are judged by: the
clock passes, a logout takes its second, or a start draws a new key. `SessionTypeCorrect`
needs that the cookie in an answer on its way was issued no later than now, too.

**What stays with TLC.** Every invariant and action property that a run checks is the
statement of a theorem, under the assumption of the run where it has one. Liveness (`NewestRevisionRuns`, `RecoveredNodeServes`,
`DeadTabsLeave`, `VerdictComes`, `IssuingEnds`, `ViewsCatchUp`) is out of reach of the
prover. So is the converse of each assumption above: that a property fails without it is
shown by TLC (section 6).

## 5. Plan

In this order:

1. *Proofs.* The safety half of the liveness properties: what a
   tab, a card or a list is in whenever it has not caught up (a poll or a call is there that
   will bring it on).
2. `RateLimit`: buckets, refill, the sweeper that deletes idle buckets while a request
   holds one, the limiter of the old snapshot after a reload; abstract specification: at
   most burst plus rate times elapsed requests per key.
3. `Accounts`: the users' store under overlapping administrators: the last enabled
   administrator, second factors in two calls, API keys, the login limiter.
4. `CertRenewal`: the renewal pass beside `AcmePanel`'s service: the shared slots,
   restarts of the renewer that read the cancel function outside the lock.
5. `LogPipeline`: write queue and writer of the log store with Close and a failing
   insert, the shipper's bounded queue and flush; accounting: accepted = stored + lost,
   each lost line counted.
6. `WhitelistMigration` (`Policy.vue:698-712` with `api/policy_api.go:48-68`): a sequence
   of calls that may stop anywhere and be started again.
7. `Alerts` and the AI supervisor's replacement on publish, with main's wiring of the
   side builders (`main.go:671-728`).
8. Configuration validation across sections as a pure operator against a reference
   definition.

### Not modelled

Besides the components with that status in `PROJECT.json`: the console's change of its
own port and certificate (`Settings.vue:813-855`: the page moves to another origin, and
what it was is gone), the dialogs of the certificate library and of accounts beyond the
calls and reloads `ConsoleViews` has, the dashboard's origins and recent events, the log
detail page, charts, exports, release notes, and the ACME protocol itself. They are
renderings of one read, or wait for the module of the component behind them.

## 6. Divergences found while modelling

Each of the first two groups can be reproduced: a configuration in parentheses is a
counterexample (section 3), found by `tlc -config <name>.cfg <its MC module>`; elsewhere a
property or constant to change in the .cfg of a run is named.

*The process.*

* Two overlapping publishes install out of order, and `catchUp` (`consume.go:76-86`),
  which reads `MissedSince` and `Current` separately, takes the plane back to an older
  revision, against `consume.go:46-55` (`cc_race`: `RunningNeverRegresses`). The same overlap
  leaves the active revision behind the newest stored one (`center.go:152-159`), which the
  next restart undoes (`CurrentIsNewest` there).
* The second of two overlapping single-site publishes undoes the first
  (`center.go:186`), against `center.go:173-180` (`cc_sites`: `SitePublishKeepsOtherSites`).
* A publish refused by the store in the AI-key handler leaves the live configuration changed
  (`api/ai_key.go:51`; `center.go:110-111` says it is untouched), and the edit reaches a
  snapshot still queued for the consumer (`cc_edit`: `LiveMatchesStored`). The exception
  handlers edit in place too (`api/policy_api.go:201`, `227`).
* A reload that fails in `buildRouter` closes the router under construction, adopted live
  pools included (`router.go:192`), against `proxy.go:320-321`; the next successful reload
  adopts the pools whose probers are dead (`pr_reload.cfg` with the invariant
  `FailedReloadKeepsProbers`).
* A certificate replaced between its reading and its stamping (`router.go:219`) gets the
  stamp of the new file with the content of the old one: every later reload takes it for
  current and adopts it, against `router.go:263-264` (`pr_cert`: `ContentSwapsInvalidate`).
* The marker is consumed at the first start whose checksum matches, before the binary has
  proved that it starts (`rollback.go:67-83`), against `deploy/README.md:337`
  (`ug_loop`: `ServiceComesBack`).
* A restore that fails on one of the two binaries is logged nowhere and leaves a mixed pair:
  `restoreFromBackups` ignores the errors of `atomicInstall` (`replace.go:106-119`), against
  `replace.go:46-49` (`ug_replace`: `FailedReplaceIsWhole`).
* Death inside the swap of the two binaries leaves a mixed pair and no marker
  (`replace.go:72-99`), which the hook does not mend, against `replace.go:286-289`
  (`ug_cut`: `CutSwapIsMended`); a restart job accepted before a task starts can be that
  death.
* Backups are kept by file name, and `v0.7.10` sorts before `v0.7.8`
  (`replace.go:267-276`): the backup just made is the one removed, and a failed replace
  cannot restore although no operation of the restore failed, against `replace.go:46-49`
  (`ug_names`: `RestoresAreWhole`).
* The same pruning without a digit carried, on a unit without the hook: main's own check
  rolls the files back below the release that is running; upgraded again from there and
  restarted, the process runs a release older than two kept backups, and the backup made
  by its next task is the one removed (`RestoresAreWhole` with names in order and seven
  tasks).
* A marker and an interrupted swap meet only when a process that has upgraded, and was not
  restarted, upgrades again; the backup the marker names then holds the marker's own target
  (`MarkedLeads` in `UpgradeProofs`). So a rollback that dies after the server was restored
  is taken for a success by the next start (`rollback.go:72-83`), which consumes the marker
  and leaves the cli of the interrupted release, against `rollback.go:97-99`.
  `RollbackRestoresPair` claims the pair only of a rollback that comes to its end.
* `wirePenaltyHook` (`proxy.go:307`) looks for a `*logstore.SQLiteStore`; main passes the
  result of `logstore.Multi` (`main.go:361`, `582`). No event reaches the penalty engine of
  the assembled process (`rp_path.cfg` with `AuditIsSQLite = FALSE` and the invariant
  `PenaltyAnswersThreshold`). `rp_path` checks the engine with a store that is one, as the
  tests of the handler do.
* The penalty stage does not look at trust (`stages/penalty.go:37`), against
  `docs/CONFIG.md:340` and the head comment of that file: a client banned before it was
  whitelisted stays banned (`rp_cleared`: `PreferredAreNotPenalised`).
* Smooth weighted round-robin among four uneven nodes that come and go can owe a node
  a full round (`upstream.go:112-135`): a node that is out keeps its current weight, and the
  others are charged against one another meanwhile.
  `NoNodeIsFlooded` without `Len(Weight) <= 3`, with `Weight` `<<1, 1, 1, 5>>`, `Threshold`
  1, `Cooldown` 2.
* A server anchored by `KINGMOAT_ADMIN_HASH` keeps its key over a restart but not the
  second of the last logout (`api.go:166`): logged-out cookies are good again
  (`cs_session.cfg` with `Anchored = TRUE`: `LogoutIsForGood`).

*The console.*

* The settings form posts the console's IP list it loaded (`Settings.vue:1424`), against
  the comment two lines below, and takes back what another administrator changed since
  (`cp_ips`: `SettingsSpareConsoleIPs`).
* The settings form builds several blocks anew (`Settings.vue:1329-1330`, `1341-1346`,
  `1385`, `1414`, `1443`), so keys of them that the form does not show are lost, the limits of
  the audit query among them, against `Settings.vue:1319-1320` (`cp_ips.cfg` with the
  property `SettingsKeepTheRest`).
* The rule dialog is asked after the await which rule it holds, and nothing keeps it closed
  or its button still (`Policy.vue:961-1001`): the rule saved can be another one than at the
  click, or a deleted one brought back (`cp_dialog`: `SaveChangesItsRule`).
* A load of the sites page merges into the draft (`Sites.vue:677`): keys the answer omits
  survive from the draft, and an edit between a load's two answers does too, while the page
  then says "published" (`:680`). A site's failed save puts back the list of before the
  click although a load has replaced it (`Sites.vue:958-959`; `sp_failed`:
  `FailedSaveIsNotMistaken`).
* The drawer of a site looks up the categories by the position the site had when it was
  opened (`Sites.vue:891-892`): after a load that position may be another site's
  (`sp_drawer`: `DrawerKeepsCategories`).
* A probe lost on its way counts as the death of the server, and the next answer as its
  return (`Settings.vue:1064`); and any 401, from whatever ended the session (its age, a
  logout in another tab, a changed password, a disabled account), counts as a finished
  restart (`Settings.vue:1049`, `1065-1069`), against `Settings.vue:1040-1043` (`ug_restart`:
  `RestartImpliesDeath`).
* The Enter key submits a certificate request again while the first is under way
  (`Certs.vue:223`): two chains of polls (`am_panel.cfg` with `SingleSubmit = FALSE`:
  `ShownIsFollowedOnce`).
* The chat can show one conversation and send to another: a session picked while the chat
  starts, a stream whose last frame names another session than the one picked meanwhile
  (`AIChat.vue:11`, `279-282`; `vw_views.cfg` with `CalmChat = FALSE`:
  `ChatShowsItsSession`).

*Without a model* (described, and left to readers of the code):

* `least_conn` picks the first node among equal weights: `Rewrite` (`router.go:312`) calls
  `pickNode`, nothing raises the in-flight count; `source_ip` falls back to weighted
  round-robin for the same reason (`config.go:28-29`, `upstream.go:193-194`).
* A process whose newest stored revision cannot be built keeps its old plane until it is
  restarted, and then exits (`main.go:582`; `docs/API.md:187`).
* A certificate error in `buildRouter` leaves the prober of the failing site's new pool
  running (`router.go:205`). The IP group manager is replaced before a build that may fail
  (`proxy.go:104`).
* A request reads the serving state a second time for its event (`proxy.go:832`); a geo
  database read from a file can be closed under it, and it passes (`proxy.go:343`).
* Any success, a probe's too, closes an open breaker before its cooldown has run.
* One site with the captcha replaces the JS challenge of every site (`proxy.go:232`); a
  disable rule for `botchallenge` switches nothing off, since the stage is named `bot`
  (`config/matcher.go:72`, `stages/bot.go:82`).
* A second factor is confirmed by reading the pending secret and enabling it in two calls
  (`api/credentials.go:104-116`, `store/users.go:323-334`): a setup in between makes a secret
  nobody has confirmed the active one, against the comment at `api/credentials.go:295-297`.
* The last enabled administrator is counted and then demoted (`api/users.go:289-316`): two
  demotions at once leave none. The account dialog posts the role and the switch of the
  row it was opened on (`Users.vue:201-222`) and enables an account disabled meanwhile.
* The migration of legacy exceptions deletes by index, in the list as it is by then
  (`Policy.vue:698-712`); an entry for all sites never counts as already migrated and is
  doubled by a second run, while one migrated to a disabled rule does count
  (`api/policy_api.go:48-68`).
* One failed poll, a task pushed out of the history, or a restart shows "签发失败" although
  the issuing goes on or has succeeded (`Certs.vue:466-469`).
* The upgrade card stops at "success", so that a rollback by the self-heal net afterwards
  is not noticed; a query lost just after the success, in the process that is about to
  restart, can end as "interrupted".
* A late 401 to a call of an earlier session clears the login that has replaced it
  (`api.js:32`); a login in the same second as a logout is dead on arrival.
* The first question of a conversation whose stream breaks leaves a session the page does
  not know, and the next question starts a second one. A chat page that is left before it
  has started takes the question handed over and is not there to show the answer.
* The dashboard's trend of seven days shows the 48 hours that were loaded
  (`Dashboard.vue:324-345`). The dashboard's origins and the users' list have no interval:
  an answer that was overtaken stays. The risk drawer shows a new status before the server
  has it (`Risks.vue:94-95`).
* On the sites page a load discards the draft but for the keys above, a switch publishes the
  draft's edits of its site, the drawer drops `disabled`, and the position a deletion keeps
  may be another site's after a load.
