---------------------------- MODULE ConfigPages -----------------------------
(***************************************************************************)
(* The console pages that change the configuration, for several            *)
(* administrators at once.  The server keeps one document and publishes    *)
(* whatever whole document it is sent: POST /api/config/publish carries no *)
(* base revision.  Each page therefore reads the document again when its   *)
(* save button is clicked, changes its own part of it and posts the rest   *)
(* back.  Between the click and the post lie two round trips, during which *)
(* others publish, and the same page may be edited, saved and loaded       *)
(* again: few of its buttons wait for the save before.                     *)
(*                                                                         *)
(* The document is a function from keys to values, 0 meaning absent or     *)
(* off.  One key stands for each kind of merge the pages make:             *)
(*   listen           written from the settings form, as are its limits    *)
(*   ips              cfg.console.allowed_ips, written from that form too  *)
(*   hook             the webhook: an emptied field does not remove it     *)
(*   ai, aikey        the provider, and the stored key no form shows       *)
(*   rest             fields no form shows, of blocks the settings form    *)
(*                    builds anew or deletes (the limits of audit_query)   *)
(*   thresholds, cats a policy tab read after the re-read, and one before  *)
(*   group            an IP group                                          *)
(*   sites            everything other pages alone edit                    *)
(*   rule n, log n    a matcher by its name, and its log switch            *)
(***************************************************************************)
EXTENDS Naturals, Sequences, FiniteSets

CONSTANTS
  Page,       \* the page components mounted in the administrators' browsers
  Call,       \* the saves and loads in progress at one time
  Name,       \* names of matcher rules
  NoName,     \* what the rule dialog has for a new rule
  Views,      \* the pages that are opened
  Saves,      \* the kinds of saves that are clicked
  Others,     \* the keys published from elsewhere
  MaxValue,   \* the values of a field, besides 0
  MaxRev,     \* bound on the revisions
  MaxEdits    \* bound on the edits typed into forms

ASSUME PagesAssumption ==
  /\ NoName \notin Name
  /\ Views \subseteq {"policy", "settings", "chat"}
  /\ Saves \subseteq {"tab", "log", "rule", "del", "group", "ungroup", "settings", "model", "key"}
  /\ MaxValue \in Nat \ {0} /\ MaxRev \in Nat \ {0} /\ MaxEdits \in Nat

VARIABLES
  revs,    \* the stored documents, oldest first; the last one is current
  view,    \* which page a component is
  form,    \* what it shows: what its loads brought, and edits
  dirty,   \* the keys it shows that no load brought, or that were edited since
  dlg,     \* the rule its dialog was last opened on (mEditIndex, mEditName)
  op,      \* the calls in progress
  edits    \* edits typed so far (a bound)

vars == <<revs, view, form, dirty, dlg, op, edits>>

Value == 0..MaxValue
S(s) == <<"sec", s>>
Rule(n) == <<"rule", n>>
Log(n) == <<"log", n>>
SettingsKeys == {S("listen"), S("ips"), S("hook"), S("ai")}
TabKeys == {S("thresholds"), S("cats")}
RuleKeys == {Rule(n) : n \in Name} \cup {Log(n) : n \in Name}
PolicyKeys == TabKeys \cup {S("group")} \cup RuleKeys
Key == SettingsKeys \cup PolicyKeys \cup {S("aikey"), S("rest"), S("sites")}

\* What a page shows: all from one answer of GET /api/config, except the IP
\* groups, which a request of their own brings from the live configuration.
Shown(v) == CASE v = "policy" -> PolicyKeys
              [] v = "settings" -> SettingsKeys
              [] v = "chat" -> {}
Config(v) == Shown(v) \ {S("group")}
Typed(v) == CASE v = "policy" -> TabKeys
              [] v = "settings" -> SettingsKeys
              [] v = "chat" -> {}

doc == revs[Len(revs)]
Blank == [k \in Key |-> 0]

Idle(c) == op[c].kind = "none"
At(c, step) == ~Idle(c) /\ op[c].at = step
Of(c, a) == ~Idle(c) /\ op[c].by = a
Busy(a, kind) == \E c \in Call : Of(c, a) /\ op[c].kind = kind

NoOp == [kind |-> "none", at |-> "idle"]
\* A save begins with GET /api/config.  row is the row of the table whose log
\* switch was clicked: "first" and "again" while the page shows it (clicked
\* once since it was loaded, or more), "gone" once a load replaced the rows.
Save(a, kind) ==
  [kind |-> kind, by |-> a, at |-> "get", key |-> S("ai"), val |-> 0, name |-> NoName,
   to |-> NoName, row |-> "gone", cfg |-> <<>>, since |-> Len(revs)]
Load(a) == [Save(a, "load") EXCEPT !.at = "load", !.since = 0]

Start(o) == \E c \in Call : Idle(c) /\ op' = [op EXCEPT ![c] = o]
StartSave(o) == o.kind \in Saves /\ Len(revs) < MaxRev /\ Start(o)  \* bound

FirstDoc(n) == [k \in Key |-> IF k \in RuleKeys \ {Rule(n)} THEN 0 ELSE 1]
\* Pages whose first load has failed.
Init ==
  /\ \E n \in Name : revs = <<FirstDoc(n)>>
  /\ view \in [Page -> Views]
  /\ form = [a \in Page |-> Blank]
  /\ dirty = [a \in Page |-> Shown(view[a])]
  /\ dlg = [a \in Page |-> NoName]
  /\ op = [c \in Call |-> NoOp]
  /\ edits = 0

-----------------------------------------------------------------------------
(* What an administrator does.                                             *)

\* A page is opened: its component mounts, with a form of defaults, and loads.
\* (A component left behind stays in Page until its calls have ended.)
Open(a, v) ==
  /\ \A c \in Call : ~Of(c, a)
  /\ view' = [view EXCEPT ![a] = v]
  /\ form' = [form EXCEPT ![a] = Blank]
  /\ dirty' = [dirty EXCEPT ![a] = Shown(v)]
  /\ dlg' = [dlg EXCEPT ![a] = NoName]
  /\ IF v = "chat" THEN UNCHANGED op ELSE Start(Load(a))
  /\ UNCHANGED <<revs, edits>>

\* A field of the page is edited; no save or load in progress locks the form.
Edit(a) ==
  /\ edits < MaxEdits
  /\ \E k \in Typed(view[a]), v \in Value :
       /\ v # form[a][k]
       /\ form' = [form EXCEPT ![a][k] = v]
       /\ dirty' = [dirty EXCEPT ![a] = @ \cup {k}]
  /\ edits' = edits + 1
  /\ UNCHANGED <<revs, view, dlg, op>>

\* The rule dialog is opened on a listed rule or on a new one, also while a
\* save of what it held before is still in progress.
OpenMatcher(a, n) ==
  /\ view[a] = "policy" /\ n # dlg[a]
  /\ n # NoName => form[a][Rule(n)] # 0
  /\ dlg' = [dlg EXCEPT ![a] = n]
  /\ UNCHANGED <<revs, view, form, dirty, op, edits>>

\* The tabs of the policy page share one saving flag.  The categories are
\* collected before the re-read, and may not all be off.
ClickTab(a, k) ==
  /\ view[a] = "policy" /\ ~Busy(a, "tab")
  /\ k = S("cats") => form[a][k] # 0
  /\ StartSave([Save(a, "tab") EXCEPT !.key = k, !.val = form[a][k]])
  /\ UNCHANGED <<revs, view, form, dirty, dlg, edits>>

\* The log switch of a rule in the table flips before anything is sent.
ClickLog(a, n) ==
  /\ view[a] = "policy" /\ form[a][Rule(n)] # 0
  /\ StartSave([Save(a, "log") EXCEPT !.name = n, !.val = form[a][Log(n)],
                                      !.row = IF Log(n) \in dirty[a] THEN "again" ELSE "first"])
  /\ form' = [form EXCEPT ![a][Log(n)] = 1 - @]
  /\ dirty' = [dirty EXCEPT ![a] = @ \cup {Log(n)}]
  /\ UNCHANGED <<revs, view, dlg, edits>>

\* The button of the rule dialog: nothing stops a second click, and of what
\* the dialog holds only the rule's new name is fixed here.
ClickRule(a, to) ==
  /\ view[a] = "policy"
  /\ StartSave([Save(a, "rule") EXCEPT !.name = dlg[a], !.to = to])
  /\ UNCHANGED <<revs, view, form, dirty, dlg, edits>>

ClickRemove(a, n) ==
  /\ view[a] = "policy" /\ form[a][Rule(n)] # 0
  /\ StartSave([Save(a, "del") EXCEPT !.name = n])
  /\ UNCHANGED <<revs, view, form, dirty, dlg, edits>>

\* An IP group is saved, one at a time, or deleted after a confirmation.
ClickGroup(a, v) ==
  /\ view[a] = "policy"
  /\ IF v # 0 THEN ~Busy(a, "group") ELSE form[a][S("group")] # 0
  /\ StartSave([Save(a, IF v # 0 THEN "group" ELSE "ungroup") EXCEPT
                  !.key = S("group"), !.val = v])
  /\ UNCHANGED <<revs, view, form, dirty, dlg, edits>>

\* The settings page: an empty listen pair is refused before anything is
\* sent.  Its save() never sets the flag its button waits for.
ClickSettings(a) ==
  /\ view[a] = "settings" /\ form[a][S("listen")] # 0
  /\ StartSave(Save(a, "settings"))
  /\ UNCHANGED <<revs, view, form, dirty, dlg, edits>>

\* The AI key is stored or cleared by an endpoint of its own.
ClickKey(a, v) ==
  /\ view[a] = "settings" /\ ~Busy(a, "key")
  /\ StartSave([Save(a, "key") EXCEPT !.at = "post", !.key = S("aikey"), !.val = v])
  /\ UNCHANGED <<revs, view, form, dirty, dlg, edits>>

\* The model dialog of the chat: the model name is required.
ClickModel(a, v) ==
  /\ view[a] = "chat" /\ v # 0 /\ ~Busy(a, "model")
  /\ StartSave([Save(a, "model") EXCEPT !.val = v])
  /\ UNCHANGED <<revs, view, form, dirty, dlg, edits>>

\* Another page, of another administrator perhaps, or the API publishes: a
\* site, the console's IP list, a limit, a rule.
Elsewhere ==
  /\ Len(revs) < MaxRev  \* bound
  /\ \E k \in Others \cap Key, v \in Value :
       /\ v # doc[k] /\ (k \in {Log(n) : n \in Name} => v \in {0, 1})
       /\ revs' = Append(revs, [doc EXCEPT ![k] = v])
  /\ UNCHANGED <<view, form, dirty, dlg, op, edits>>

-----------------------------------------------------------------------------
(* The document read again is merged and posted.                           *)

\* The settings form.  An emptied webhook is removed or left alone, as the
\* alert channels have it.  Of a block that is switched off or built anew
\* only what the form shows survives; of one that is spread, all.
Hooks(fresh, f) == IF f[S("hook")] # 0 THEN {f[S("hook")]} ELSE {0, fresh[S("hook")]}
\* Mutant: the provider is built anew too, and drops the stored key.
SettingsMergeDropsKey(fresh, f, hook, rest) ==
  [fresh EXCEPT ![S("listen")] = f[S("listen")],
                ![S("ips")] = f[S("ips")],
                ![S("hook")] = hook,
                ![S("ai")] = f[S("ai")],
                ![S("aikey")] = 0,
                ![S("rest")] = rest]
SettingsMerge(fresh, f, hook, rest) ==
  [fresh EXCEPT ![S("listen")] = f[S("listen")],
                ![S("ips")] = f[S("ips")],
                ![S("hook")] = hook,
                ![S("ai")] = f[S("ai")],
                ![S("rest")] = rest]

\* removeMatcher takes the rule out of the list it read again, not out of the
\* list on the page.
RemoveMerge(o, fresh) == [fresh EXCEPT ![Rule(o.name)] = 0, ![Log(o.name)] = 0]

\* Mutant: the uniqueness check is forgotten, as in the button's own checks.
RuleRefusedEditsOnly(o, fresh) == o.name # NoName /\ fresh[Rule(o.name)] = 0
\* saveMatcher refuses a name another rule has, and an edit whose rule is gone.
RuleRefused(o, fresh) ==
  \/ fresh[Rule(o.to)] # 0 /\ o.to # o.name
  \/ o.name # NoName /\ fresh[Rule(o.name)] = 0
RuleMerge(o, fresh, body, log) ==
  [k \in Key |-> CASE k = Rule(o.to) -> body
                   [] k = Log(o.to) -> log
                   [] o.name # NoName /\ o.name # o.to
                        /\ k \in {Rule(o.name), Log(o.name)} -> 0
                   [] OTHER -> fresh[k]]

Refused(o, fresh) ==
  CASE o.kind \in {"log", "del"} -> fresh[Rule(o.name)] = 0
    [] o.kind = "rule" -> RuleRefused(o, fresh)
    [] OTHER -> FALSE

\* The position of the log switch: a row the page shows no more may have been
\* flipped by the failure of another save.
Switch(o, f) == IF o.row = "gone" THEN {0, 1} ELSE {f[Log(o.name)]}

\* The documents a save may post.  A rule's fields are what the dialog holds
\* when the answer arrives.
Merged(o, f, fresh) ==
  CASE o.kind = "tab" -> {[fresh EXCEPT ![o.key] = IF o.key = S("cats") THEN o.val ELSE f[o.key]]}
    [] o.kind = "log" -> {[fresh EXCEPT ![Log(o.name)] = l] : l \in Switch(o, f)}
    [] o.kind = "rule" -> {RuleMerge(o, fresh, b, l) : b \in 1..MaxValue, l \in {0, 1}}
    [] o.kind = "del" -> {RemoveMerge(o, fresh)}
    [] o.kind \in {"group", "ungroup"} -> {[fresh EXCEPT ![S("group")] = o.val]}
    [] o.kind = "settings" -> {SettingsMerge(fresh, f, h, r) :
                                 h \in Hooks(fresh, f), r \in {0, fresh[S("rest")]}}
    [] o.kind = "model" -> {[fresh EXCEPT ![S("ai")] = o.val]}

\* Mutant: the error path leaves the switch where the click put it.
UnflipForgotten(c) ==
  LET a == op[c].by  k == Log(op[c].name) IN
  /\ dirty' = IF op[c].kind = "log" /\ op[c].row = "first"
              THEN [dirty EXCEPT ![a] = @ \ {k}] ELSE dirty
  /\ UNCHANGED form
\* The error paths of a save: the log switch goes back.  The key counts as
\* loaded again when that leaves it as the load brought it.
Unflip(c) ==
  LET a == op[c].by  k == Log(op[c].name) IN
  IF op[c].kind = "log" /\ op[c].row # "gone"
  THEN /\ form' = [form EXCEPT ![a][k] = 1 - @]
       /\ dirty' = [dirty EXCEPT ![a] =
                      IF op[c].row = "first" /\ 1 - form[a][k] = op[c].val
                      THEN @ \ {k} ELSE @ \cup {k}]
  ELSE UNCHANGED <<form, dirty>>
End(c) == op' = [op EXCEPT ![c] = NoOp]
GiveUp(c) == End(c) /\ Unflip(c) /\ UNCHANGED <<revs, view, dlg, edits>>

\* The server answers GET /api/config, of a save or of a load.
Answer(c) ==
  /\ \E step \in {"get", "load"} :
       /\ At(c, step)
       /\ op' = [op EXCEPT ![c].cfg = doc, ![c].at = IF step = "get" THEN "got" ELSE "loaded"]
  /\ UNCHANGED <<revs, view, form, dirty, dlg, edits>>

\* The answer of a save's re-read arrives.  saveMatcher asks the dialog only
\* now which rule it is about.
About(c) == IF op[c].kind = "rule" THEN [op[c] EXCEPT !.name = dlg[op[c].by]] ELSE op[c]
Merge(c) ==
  /\ At(c, "got")
  /\ LET o == About(c) IN
     IF Refused(o, o.cfg)
     THEN GiveUp(c)
     ELSE /\ \E cfg \in Merged(o, form[o.by], o.cfg) :
               op' = [op EXCEPT ![c] = [o EXCEPT !.at = "post", !.cfg = cfg]]
          /\ UNCHANGED <<revs, view, form, dirty, dlg, edits>>

\* The re-read fails, or the post: refused by the server, or lost on its way.
Fails(c) == (At(c, "get") \/ At(c, "post")) /\ GiveUp(c)

\* The server stores the posted document; the key endpoint edits the current
\* one itself.  A document equal to the current one is refused (no_changes),
\* and one without a listen address.
Stored(o) == IF o.kind = "key" THEN [doc EXCEPT ![S("aikey")] = o.val] ELSE o.cfg
Commit(c) ==
  /\ At(c, "post") /\ Len(revs) < MaxRev
  /\ Stored(op[c]) # doc /\ Stored(op[c])[S("listen")] # 0
  /\ revs' = Append(revs, Stored(op[c]))
  /\ op' = [op EXCEPT ![c].at = "stored", ![c].cfg = <<>>, ![c].since = 0]
  /\ UNCHANGED <<view, form, dirty, dlg, edits>>

\* The answer is lost: to the page this is a failed save.
AnswerLost(c) == At(c, "stored") /\ GiveUp(c)

\* The answer arrives and the page loads again; the tabs' saving flag waits
\* for that load.  The AI key and the chat's dialog load nothing.
Succeeds(c) ==
  /\ At(c, "stored")
  /\ op' = [op EXCEPT ![c] =
              CASE op[c].kind \in {"key", "model"} -> NoOp
                [] op[c].kind = "tab" -> [Load(op[c].by) EXCEPT !.kind = "tab"]
                [] OTHER -> Load(op[c].by)]
  /\ UNCHANGED <<revs, view, form, dirty, dlg, edits>>

\* A load that fails leaves the page as it was.
LoadFails(c) == At(c, "load") /\ End(c) /\ UNCHANGED <<revs, view, form, dirty, dlg, edits>>

\* GET /api/config arrives: every field it brings is overwritten, edited or
\* not, and the rows of the rule table are replaced.
Loads(c) ==
  /\ At(c, "loaded")
  /\ LET a == op[c].by
         keys == Config(view[a])
     IN /\ form' = [form EXCEPT ![a] = [k \in Key |-> IF k \in keys THEN op[c].cfg[k] ELSE @[k]]]
        /\ dirty' = [dirty EXCEPT ![a] = @ \ keys]
        /\ op' = [d \in Call |->
             CASE d = c -> IF view[a] = "policy"
                           THEN [op[c] EXCEPT !.at = "groups", !.cfg = <<>>] ELSE NoOp
               [] d # c /\ Of(d, a) -> [op[d] EXCEPT !.row = "gone"]
               [] OTHER -> op[d]]
  /\ UNCHANGED <<revs, view, dlg, edits>>

\* GET /api/ipgroups answers from the live configuration, which may be behind
\* the stored one, or fails: then the page shows no groups.
LoadsGroups(c) ==
  /\ At(c, "groups")
  /\ LET a == op[c].by  k == S("group") IN
     \/ \E r \in 1..Len(revs) : /\ form' = [form EXCEPT ![a][k] = revs[r][k]]
                                /\ dirty' = [dirty EXCEPT ![a] = @ \ {k}]
     \/ /\ form' = [form EXCEPT ![a][k] = 0]
        /\ dirty' = [dirty EXCEPT ![a] = @ \cup {k}]
  /\ End(c)
  /\ UNCHANGED <<revs, view, dlg, edits>>

Click(a) ==
  \/ \E k \in TabKeys : ClickTab(a, k)
  \/ \E n \in Name : ClickLog(a, n) \/ ClickRemove(a, n) \/ ClickRule(a, n)
  \/ \E v \in Value : ClickGroup(a, v) \/ ClickKey(a, v) \/ ClickModel(a, v)
  \/ ClickSettings(a)

User(a) ==
  \/ \E v \in Views : Open(a, v)
  \/ \E n \in Name \cup {NoName} : OpenMatcher(a, n)
  \/ Edit(a)
  \/ Click(a)

Step(c) ==
  \/ Answer(c) \/ Merge(c) \/ Fails(c) \/ Commit(c) \/ AnswerLost(c) \/ Succeeds(c)
  \/ LoadFails(c) \/ Loads(c) \/ LoadsGroups(c)

Next == (\E a \in Page : User(a)) \/ (\E c \in Call : Step(c)) \/ Elsewhere

Spec == Init /\ [][Next]_vars

-----------------------------------------------------------------------------
\* A whole document; a log switch is on or off.
Document == {d \in [Key -> Value] : \A n \in Name : d[Log(n)] \in {0, 1}}

OpRecord ==
  [kind : Saves \cup {"load"}, by : Page, at : {"get", "got", "post", "stored", "load", "loaded", "groups"},
   key : Key, val : Value, name : Name \cup {NoName}, to : Name \cup {NoName},
   row : {"first", "again", "gone"}, cfg : Document \cup {<<>>}, since : 0..MaxRev]

\* Type correctness: in particular every stored document is a whole document.
TypeOK ==
  /\ revs \in Seq(Document) /\ Len(revs) \in 1..MaxRev
  /\ view \in [Page -> Views]
  /\ form \in [Page -> Document]
  /\ dirty \in [Page -> SUBSET Key]
  /\ dlg \in [Page -> Name \cup {NoName}]
  /\ op \in [Call -> OpRecord \cup {NoOp}]
  /\ edits \in 0..MaxEdits

\* The keys a save is meant to change, and those the settings form changes
\* without showing them.
Own(o) ==
  CASE o.kind \in {"tab", "group", "ungroup", "key"} -> {o.key}
    [] o.kind = "log" -> {Log(o.name)}
    [] o.kind = "del" -> {Rule(o.name), Log(o.name)}
    [] o.kind = "rule" -> RuleKeys \cap {Rule(o.name), Log(o.name), Rule(o.to), Log(o.to)}
    [] o.kind = "settings" -> SettingsKeys
    [] o.kind = "model" -> {S("ai")}
Rebuilt(o) == IF o.kind = "settings" THEN {S("rest")} ELSE {}

\* The values a key has had since the save was clicked.
Seen(o, k) == {revs[r][k] : r \in o.since..Len(revs)}
Publishes(c) == At(c, "post") /\ Len(revs') > Len(revs) /\ op'[c].at = "stored"

\* A save takes nobody else's setting back: whatever it publishes outside
\* its own part was current at some moment since its click, never what the
\* page had loaded long before, however saves and loads of one page overlap
\* (Policy.vue:812-813).  The settings form keeps this for all it does not
\* show except the blocks it builds anew (SettingsKeepTheRest).
SavesCarryNothingStale ==
  [][\A c \in Call : Publishes(c) =>
       \A k \in Key \ (Own(op[c]) \cup Rebuilt(op[c])) :
         revs'[Len(revs')][k] \in Seen(op[c], k)]_vars

\* The rule that a save of the dialog replaces was stored, and a name it gives
\* was free, at some moment since the click: two clicks, or two
\* administrators, do not each add a rule under one name unless their last
\* round trips overlap (Policy.vue:968-990).
RuleSavesFindTheirRule ==
  [][\A c \in Call : Publishes(c) /\ op[c].kind = "rule" =>
       /\ op[c].name # NoName => \E v \in Seen(op[c], Rule(op[c].name)) : v # 0
       /\ op[c].to # op[c].name => 0 \in Seen(op[c], Rule(op[c].to))]_vars

\* What a page shows of the configuration, outside the fields edited since,
\* is one stored document: no mixture of two loads, and nothing a failed save
\* left behind (Policy.vue:640, "roll the switch back on failure").  Its IP
\* groups are those of some stored document too, perhaps of another one.
PagesShowARevision ==
  \A a \in Page : \A part \in {Config(view[a]), {S("group")} \cap Shown(view[a])} :
    \E r \in 1..Len(revs) : \A k \in part \ dirty[a] : form[a][k] = revs[r][k]

-----------------------------------------------------------------------------
(* What comments of the pages say, and the code does not keep.             *)

\* Settings.vue:1426 says the console's IP list is maintained elsewhere and
\* not touched by this save any more.
SettingsSpareConsoleIPs ==
  [][\A c \in Call : Publishes(c) /\ op[c].kind = "settings" =>
       revs'[Len(revs')][S("ips")] \in Seen(op[c], S("ips"))]_vars

\* Settings.vue:1319-1320 says the other fields are those of the fresh copy.
SettingsKeepTheRest ==
  [][\A c \in Call : Publishes(c) /\ op[c].kind = "settings" =>
       revs'[Len(revs')][S("rest")] \in Seen(op[c], S("rest"))]_vars

\* Policy.vue:917 says that the rule is written back by the name it was
\* opened under, so that no other rule is written: a save changes the rule
\* its dialog held at the click, and the one it names, no other.
SaveChangesItsRule ==
  [][\A c \in Call : At(c, "got") /\ op[c].kind = "rule" /\ op'[c].at = "post" =>
       \A n \in Name \ {op[c].name, op[c].to} : op'[c].cfg[Rule(n)] = op[c].cfg[Rule(n)]]_vars
=============================================================================
