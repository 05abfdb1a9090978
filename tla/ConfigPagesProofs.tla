-------------------------- MODULE ConfigPagesProofs ---------------------------
(***************************************************************************)
(* Theorems about ConfigPages, for any number of pages, calls, rules,      *)
(* values, revisions and edits.  The inductive invariant says of each call *)
(* what it carries (Good) and of each page what it shows (Shows).          *)
(***************************************************************************)
EXTENDS ConfigPages, TLAPS

USE PagesAssumption

-----------------------------------------------------------------------------
(* Keys and documents.                                                     *)

\* Keys of different kinds, or of different names, are different.
LEMMA KeysDiffer ==
  ASSUME NEW n, NEW m
  PROVE  /\ Rule(n) = Rule(m) <=> n = m
         /\ Log(n) = Log(m) <=> n = m
         /\ Rule(n) # Log(m)
         /\ \A s : S(s) # Rule(n) /\ S(s) # Log(n)
BY DEF Rule, Log, S

LEMMA SmallValues == 0 \in Value /\ {0, 1} \subseteq Value /\ 1..MaxValue \subseteq Value
BY DEF Value

LEMMA KeysAreKeys ==
  /\ {S("listen"), S("ips"), S("hook"), S("ai"), S("aikey"), S("rest"), S("sites"), S("group")}
       \subseteq Key
  /\ TabKeys \subseteq Key /\ RuleKeys \subseteq Key
  /\ \A n \in Name : Rule(n) \in RuleKeys /\ Log(n) \in RuleKeys
BY DEF Key, SettingsKeys, PolicyKeys, TabKeys, RuleKeys

LEMMA ViewKeys ==
  ASSUME NEW v \in Views
  PROVE  Shown(v) \subseteq Key /\ Config(v) \subseteq Key /\ Typed(v) \subseteq Key
<1>1. PolicyKeys \subseteq Key /\ SettingsKeys \subseteq Key /\ TabKeys \subseteq Key
  BY DEF Key, SettingsKeys, PolicyKeys
<1>2. v \in {"policy", "settings", "chat"}
  OBVIOUS
<1>3. Shown(v) \in {PolicyKeys, SettingsKeys, {}} /\ Typed(v) \in {TabKeys, SettingsKeys, {}}
  BY <1>2 DEF Shown, Typed
<1> QED
  BY <1>1, <1>3 DEF Config

\* The log switches of the rules are among what the policy page loads.
LEMMA LogIsConfig == \A n \in Name : Log(n) \in Config("policy")
BY KeysDiffer DEF Config, Shown, PolicyKeys, RuleKeys

\* The section keys are no rule's log switch.
LEMMA NoLogSwitch ==
  ASSUME NEW k, \/ \E s : k = S(s)
                \/ k \in TabKeys \cup SettingsKeys
                \/ \E v \in Views : k \in Typed(v)
                \/ \E m : k = Rule(m)
  PROVE  \A n : k # Log(n)
<1>1. \A v \in Views : Typed(v) \in {TabKeys, SettingsKeys, {}}
  BY DEF Typed
<1> QED
  BY <1>1, KeysDiffer DEF TabKeys, SettingsKeys

\* A document with one key set is a document.
LEMMA DocumentSet ==
  ASSUME NEW d \in Document, NEW k \in Key, NEW v \in Value,
         (\E n \in Name : Log(n) = k) => v \in {0, 1},
         NEW e, e = [d EXCEPT ![k] = v]
  PROVE  e \in Document /\ e[k] = v /\ \A j \in Key \ {k} : e[j] = d[j]
<1>1. d \in [Key -> Value] /\ \A n \in Name : d[Log(n)] \in {0, 1} /\ Log(n) \in Key
  BY KeysAreKeys DEF Document
<1>2. e \in [Key -> Value] /\ e[k] = v /\ \A j \in Key \ {k} : e[j] = d[j]
  BY <1>1
<1>3. \A n \in Name : e[Log(n)] \in {0, 1}
  BY <1>1, <1>2
<1> QED
  BY <1>2, <1>3 DEF Document

LEMMA DocumentValues ==
  ASSUME NEW d \in Document
  PROVE  /\ \A k \in Key : d[k] \in Value
         /\ \A n \in Name : d[Log(n)] \in {0, 1}
BY DEF Document

LEMMA BlankType == Blank \in Document
<1>1. Blank \in [Key -> Value] /\ \A n \in Name : Log(n) \in Key
  BY SmallValues, KeysAreKeys DEF Blank
<1> QED
  BY <1>1 DEF Document, Blank

LEMMA CurrentType ==
  ASSUME TypeOK
  PROVE  /\ \A r \in 1..Len(revs) : revs[r] \in Document
         /\ Len(revs) \in Nat /\ Len(revs) \in 1..Len(revs) /\ Len(revs) \in 1..MaxRev
         /\ doc \in Document /\ doc = revs[Len(revs)]
<1>1. revs \in Seq(Document) /\ Len(revs) \in 1..MaxRev
  BY DEF TypeOK
<1> QED
  BY <1>1 DEF doc

\* One key of one page's form is set.
LEMMA FormSet ==
  ASSUME TypeOK, NEW a \in Page, NEW k \in Key, NEW v \in Value,
         (\E n \in Name : Log(n) = k) => v \in {0, 1},
         form' = [form EXCEPT ![a][k] = v]
  PROVE  /\ form' \in [Page -> Document]
         /\ form'[a][k] = v
         /\ \A j \in Key \ {k} : form'[a][j] = form[a][j]
         /\ \A b \in Page \ {a} : form'[b] = form[b]
<1>1. form[a] \in Document /\ form \in [Page -> Document]
  BY DEF TypeOK
<1>5. PICK d : d = [form[a] EXCEPT ![k] = v]
  OBVIOUS
<1>2. form' = [form EXCEPT ![a] = d]
  BY <1>5
<1>6. PICK f \in Document : f = form[a]
  BY <1>1
<1>7. d = [f EXCEPT ![k] = v]
  BY <1>5, <1>6
<1>8. d \in Document
  BY <1>7, DocumentSet
<1>3. d \in Document /\ d[k] = v /\ \A j \in Key \ {k} : d[j] = form[a][j]
  BY <1>6, <1>7, <1>8 DEF Document
<1>4. form' \in [Page -> Document] /\ form'[a] = d /\ \A b \in Page \ {a} : form'[b] = form[b]
  BY <1>1, <1>2, <1>3
<1> QED
  BY <1>3, <1>4

\* 1 - @ flips a log switch.
LEMMA FlipType ==
  ASSUME TypeOK, NEW a \in Page, NEW n \in Name, form' = [form EXCEPT ![a][Log(n)] = 1 - @]
  PROVE  /\ form' \in [Page -> Document]
         /\ form'[a][Log(n)] = 1 - form[a][Log(n)]
         /\ \A k \in Key \ {Log(n)} : form'[a][k] = form[a][k]
         /\ \A b \in Page \ {a} : form'[b] = form[b]
<1>1. form[a] \in Document /\ Log(n) \in Key
  BY KeysAreKeys DEF TypeOK
<1>2. form[a][Log(n)] \in {0, 1}
  BY <1>1, DocumentValues
<1>3. PICK v : v = 1 - form[a][Log(n)]
  OBVIOUS
<1>4. v \in {0, 1} /\ v \in Value
  BY <1>2, <1>3, SmallValues
<1>5. form' = [form EXCEPT ![a][Log(n)] = v]
  BY <1>3
<1> QED
  BY <1>1, <1>3, <1>4, <1>5, FormSet

-----------------------------------------------------------------------------
(* The inductive invariant.                                                *)

Saving == {"get", "got", "post", "stored"}

\* What is on its way to the server was current since the click, but for the
\* save's own keys, and a rule was there and its name free since the click.
Fresh(o) ==
  /\ o.kind # "key" =>
       /\ o.cfg \in Document
       /\ \A k \in Key \ (Own(o) \cup Rebuilt(o)) : o.cfg[k] \in Seen(o, k)
  /\ o.kind = "rule" =>
       /\ o.name # NoName => \E v \in Seen(o, Rule(o.name)) : v # 0
       /\ o.to # o.name => 0 \in Seen(o, Rule(o.to))

\* What a call carries, by its kind and how far it is.
Fit(o) ==
  /\ o.kind \in {"log", "del"} => o.name \in Name
  /\ o.kind = "load" => o.at \notin Saving
  /\ o.kind = "log" => o.at \in Saving
  /\ o.kind = "key" => o.at \notin {"get", "got"} /\ o.key = S("aikey")
  /\ o.at \in Saving =>
       /\ o.kind = "tab" => o.key \in TabKeys
       /\ o.kind \in {"group", "ungroup"} => o.key = S("group")
       /\ o.kind = "rule" => o.to \in Name
Good(o) ==
  /\ Fit(o)
  /\ o.at \in {"get", "got", "post"} => o.since \in 1..Len(revs)
  /\ o.at = "got" => \E r \in o.since..Len(revs) : o.cfg = revs[r]
  /\ o.at = "loaded" => \E r \in 1..Len(revs) : o.cfg = revs[r]
  /\ o.at = "post" => Fresh(o)

\* A page shows, outside its edits, one revision; a switch clicked once since
\* remembers what that revision has.
First(c, a) == Of(c, a) /\ op[c].kind = "log" /\ op[c].row = "first"
Matches(a, r) ==
  /\ \A k \in Config(view[a]) \ dirty[a] : form[a][k] = revs[r][k]
  /\ \A c \in Call : First(c, a) => op[c].val = revs[r][Log(op[c].name)]
Groups(a) ==
  S("group") \in Shown(view[a]) \ dirty[a] =>
    \E r \in 1..Len(revs) : form[a][S("group")] = revs[r][S("group")]
Shows(a) == (\E r \in 1..Len(revs) : Matches(a, r)) /\ Groups(a)

AllSound ==
  /\ \A c \in Call : ~Idle(c) => Good(op[c])
  /\ \A a \in Page : Shows(a)

\* The revisions grow.
Grows == Len(revs') >= Len(revs) /\ \A r \in 1..Len(revs) : revs'[r] = revs[r]

LEMMA GoodGrows ==
  ASSUME TypeOK, Len(revs') \in Nat, Grows, NEW o, Good(o)
  PROVE  Good(o)'
<1>1. Len(revs) \in Nat /\ Len(revs') \in Nat /\ Len(revs') >= Len(revs)
  BY CurrentType DEF Grows
<1>2. o.at \in {"get", "got", "post"} => o.since \in 1..Len(revs')
  BY <1>1 DEF Good
<1>3. ASSUME o.since \in 1..Len(revs), NEW k PROVE Seen(o, k) \subseteq Seen(o, k)'
  BY <1>1, <1>3 DEF Seen, Grows
<1>4. o.at = "got" => \E r \in o.since..Len(revs') : o.cfg = revs'[r]
  <2> SUFFICES ASSUME o.at = "got" PROVE \E r \in o.since..Len(revs') : o.cfg = revs'[r]
    OBVIOUS
  <2>1. o.since \in 1..Len(revs)
    BY DEF Good
  <2>2. PICK r \in o.since..Len(revs) : o.cfg = revs[r]
    BY DEF Good
  <2> QED
    BY <1>1, <2>1, <2>2 DEF Grows
<1>5. o.at = "loaded" => \E r \in 1..Len(revs') : o.cfg = revs'[r]
  BY <1>1 DEF Good, Grows
<1>6. o.at = "post" => Fresh(o)'
  <2> SUFFICES ASSUME o.at = "post" PROVE Fresh(o)'
    OBVIOUS
  <2>1. o.since \in 1..Len(revs) /\ Fresh(o)
    BY DEF Good
  <2>2. \A k : Seen(o, k) \subseteq Seen(o, k)'
    BY <1>3, <2>1
  <2> QED
    BY <2>1, <2>2 DEF Fresh
<1> QED
  BY <1>2, <1>4, <1>5, <1>6 DEF Good

\* Nothing of this depends on the row of a call.
LEMMA GoodGone ==
  ASSUME NEW o \in OpRecord, Good(o)
  PROVE  Good([o EXCEPT !.row = "gone"])
<1>1. PICK g : g = [o EXCEPT !.row = "gone"]
  OBVIOUS
<1>2. /\ g.kind = o.kind /\ g.at = o.at /\ g.key = o.key /\ g.name = o.name
      /\ g.to = o.to /\ g.cfg = o.cfg /\ g.since = o.since
  BY <1>1 DEF OpRecord
<1>3. Fit(g)
  BY <1>2 DEF Good, Fit
<1>4. o.at = "post" => Fresh(g)
  <2>1. Own(g) = Own(o) /\ Rebuilt(g) = Rebuilt(o) /\ \A k : Seen(g, k) = Seen(o, k)
    BY <1>2 DEF Own, Rebuilt, Seen
  <2> QED
    BY <1>2, <2>1 DEF Good, Fresh
<1>5. Good(g)
  BY <1>2, <1>3, <1>4 DEF Good
<1> QED
  BY <1>1, <1>5

\* A page that is left alone goes on showing its revision while no switch
\* joins those clicked once.
LEMMA ShowsKept ==
  ASSUME TypeOK, Len(revs') \in Nat, Grows, NEW a \in Page, Shows(a),
         view'[a] = view[a], form'[a] = form[a], dirty'[a] = dirty[a],
         \A d \in Call : First(d, a)' =>
           First(d, a) /\ op'[d].val = op[d].val /\ op'[d].name = op[d].name
  PROVE  Shows(a)'
<1>0. Len(revs) \in Nat /\ \A r \in 1..Len(revs) : r \in 1..Len(revs') /\ revs'[r] = revs[r]
  BY CurrentType DEF Grows
<1>1. PICK r \in 1..Len(revs) : Matches(a, r)
  BY DEF Shows
<1>2. Matches(a, r)'
  BY <1>0, <1>1 DEF Matches
<1>3. Groups(a)'
  BY <1>0 DEF Shows, Groups
<1> QED
  BY <1>0, <1>1, <1>2, <1>3 DEF Shows

\* What an action that concerns page a may do to the calls.
CallsOf(a) ==
  \A d \in Call :
    \/ op'[d] = op[d]
    \/ Of(d, a) /\ op'[d] = [op[d] EXCEPT !.row = "gone"]
    \/ op'[d].kind = "none"
    \/ op'[d].by = a /\ Good(op[d])'

LEMMA CallType ==
  ASSUME TypeOK, NEW c \in Call, ~Idle(c)
  PROVE  op[c] \in OpRecord
<1>1. op[c] \in OpRecord \cup {NoOp} /\ NoOp.kind = "none"
  BY DEF TypeOK, NoOp
<1> QED
  BY <1>1 DEF Idle

\* An action that concerns one page leaves the others as they are.
LEMMA Frame ==
  ASSUME TypeOK, AllSound, Len(revs') \in Nat, Grows, NEW a \in Page, CallsOf(a),
         \A b \in Page \ {a} : view'[b] = view[b] /\ form'[b] = form[b] /\ dirty'[b] = dirty[b],
         Shows(a)'
  PROVE  AllSound'
<1>1. ASSUME NEW d \in Call, ~Idle(d)' PROVE Good(op[d])'
  <2>1. CASE op'[d] = op[d]
    <3>1. PICK o : o = op[d]
      OBVIOUS
    <3>2. Good(o)
      BY <1>1, <2>1, <3>1 DEF AllSound, Idle
    <3>3. Good(o)'
      BY <3>2, GoodGrows
    <3> QED
      BY <2>1, <3>1, <3>3
  <2>2. CASE Of(d, a) /\ op'[d] = [op[d] EXCEPT !.row = "gone"]
    <3>1. Good(op[d]) /\ op[d] \in OpRecord
      BY <2>2, CallType DEF AllSound, Of
    <3>2. PICK g : g = [op[d] EXCEPT !.row = "gone"]
      OBVIOUS
    <3>3. Good(g)
      BY <3>1, <3>2, GoodGone
    <3>4. Good(g)'
      BY <3>3, GoodGrows
    <3> QED
      BY <2>2, <3>2, <3>4
  <2> QED
    BY <1>1, <2>1, <2>2 DEF CallsOf, Idle
<1>2. ASSUME NEW b \in Page \ {a} PROVE Shows(b)'
  <2>1. ASSUME NEW d \in Call, First(d, b)'
        PROVE  First(d, b) /\ op'[d].val = op[d].val /\ op'[d].name = op[d].name
    <3>1. op'[d].kind = "log" /\ op'[d].by = b /\ op'[d].row = "first"
      BY <2>1 DEF First, Of
    <3>2. CASE op'[d] = op[d]
      BY <2>1, <3>2 DEF First, Of, Idle
    <3>3. CASE Of(d, a) /\ op'[d] = [op[d] EXCEPT !.row = "gone"]
      <4>1. op[d] \in OpRecord
        BY <3>3, CallType DEF Of
      <4>2. op'[d].row = "gone"
        BY <3>3, <4>1 DEF OpRecord
      <4> QED
        BY <3>1, <4>2
    <3> QED
      BY <3>1, <3>2, <3>3 DEF CallsOf
  <2>2. Shows(b)
    BY DEF AllSound
  <2> QED
    BY <2>1, <2>2, ShowsKept
<1> QED
  BY <1>1, <1>2 DEF AllSound

Keeps == TypeOK' /\ AllSound'

LEMMA SameRevisions ==
  ASSUME TypeOK, UNCHANGED revs
  PROVE  Grows /\ Len(revs') \in Nat
BY CurrentType DEF Grows

\* A call begins.
LEMMA Started ==
  ASSUME TypeOK, NEW o \in OpRecord, Start(o)
  PROVE  /\ op' \in [Call -> OpRecord \cup {NoOp}]
         /\ \E c \in Call : op'[c] = o /\ Idle(c) /\ \A d \in Call \ {c} : op'[d] = op[d]
BY DEF Start, TypeOK

\* What a save carries when it is clicked.
LEMMA SaveType ==
  ASSUME TypeOK, NEW a \in Page, NEW kind \in Saves \cup {"load"}, NEW s, s = Save(a, kind)
  PROVE  /\ s \in OpRecord
         /\ s.kind = kind /\ s.by = a /\ s.at = "get" /\ s.since = Len(revs)
<1>1. S("ai") \in Key /\ 0 \in Value /\ Len(revs) \in 0..MaxRev
  BY KeysAreKeys, SmallValues, CurrentType
<1> QED
  BY <1>1 DEF Save, OpRecord

LEMMA LoadType ==
  ASSUME TypeOK, NEW a \in Page, NEW l, l = Load(a)
  PROVE  /\ l \in OpRecord
         /\ l.kind = "load" /\ l.by = a /\ l.at = "load"
<1>1. Save(a, "load") \in OpRecord /\ Save(a, "load").by = a /\ Save(a, "load").kind = "load"
  BY SaveType
<1>2. PICK s \in OpRecord : s = Save(a, "load")
  BY <1>1
<1>3. l = [s EXCEPT !.at = "load", !.since = 0]
  BY <1>2 DEF Load
<1>4. 0 \in 0..MaxRev
  OBVIOUS
<1>5. s.kind = "load" /\ s.by = a
  BY <1>1, <1>2
<1> QED
  BY <1>2, <1>3, <1>4, <1>5 DEF OpRecord

\* A call at its load carries nothing.
LEMMA LoadGood ==
  ASSUME NEW o, o.at = "load", o.kind \in {"load", "tab"}
  PROVE  Good(o)
BY DEF Good, Fit, Saving

\* A save that leaves the form alone begins.
LEMMA ClickKeeps ==
  ASSUME TypeOK, AllSound, NEW a \in Page, NEW o \in OpRecord, o.by = a, o.kind # "log",
         Fit(o), o.since = Len(revs), o.at = "get" \/ (o.at = "post" /\ o.kind = "key"),
         StartSave(o), UNCHANGED <<revs, view, form, dirty, dlg, edits>>
  PROVE  Keeps
<1>1. Grows /\ Len(revs') \in Nat
  BY SameRevisions
<1>2. /\ op' \in [Call -> OpRecord \cup {NoOp}]
      /\ \E c \in Call : op'[c] = o /\ Idle(c) /\ \A d \in Call \ {c} : op'[d] = op[d]
  BY Started DEF StartSave
<1>3. PICK c \in Call : op'[c] = o /\ Idle(c) /\ \A d \in Call \ {c} : op'[d] = op[d]
  BY <1>2
<1>4. Good(o)
  BY CurrentType DEF Good, Fresh
<1>5. Good(o)'
  BY <1>1, <1>4, GoodGrows
<1>6. CallsOf(a)
  BY <1>3, <1>5 DEF CallsOf
<1>7. Shows(a)'
  <2>1. \A d \in Call : First(d, a)' =>
          First(d, a) /\ op'[d].val = op[d].val /\ op'[d].name = op[d].name
    BY <1>3 DEF First, Of, Idle
  <2> QED
    BY <1>1, <2>1, ShowsKept DEF AllSound
<1>8. AllSound'
  BY <1>1, <1>6, <1>7, Frame
<1> QED
  BY <1>2, <1>8 DEF Keeps, TypeOK


LEMMA ClickTabKeeps ==
  ASSUME TypeOK, AllSound, NEW a \in Page, NEW k \in TabKeys, ClickTab(a, k)
  PROVE  Keeps
<1>1. PICK s : s = Save(a, "tab")
  OBVIOUS
<1>2. PICK o : o = [s EXCEPT !.key = k, !.val = form[a][k]]
  OBVIOUS
<1>3. StartSave(o) /\ UNCHANGED <<revs, view, form, dirty, dlg, edits>>
  BY <1>1, <1>2 DEF ClickTab
<1>4. o.kind = "tab" /\ "tab" \in Saves
  BY <1>1, <1>2, <1>3 DEF StartSave, Save
<1>5. s \in OpRecord /\ s.kind = "tab" /\ s.by = a /\ s.at = "get" /\ s.since = Len(revs)
  BY <1>1, <1>4, SaveType
<1>6. k \in Key /\ form[a][k] \in Value
  BY KeysAreKeys, DocumentValues DEF TypeOK
<1>7. /\ o \in OpRecord
      /\ o.by = a /\ o.since = Len(revs) /\ o.at = "get" /\ o.key = k
  BY <1>2, <1>5, <1>6 DEF OpRecord
<1>8. Fit(o)
  BY <1>4, <1>6, <1>7 DEF Fit
<1> QED
  BY <1>3, <1>4, <1>7, <1>8, ClickKeeps

LEMMA ClickRemoveKeeps ==
  ASSUME TypeOK, AllSound, NEW a \in Page, NEW n \in Name, ClickRemove(a, n)
  PROVE  Keeps
<1>1. PICK s : s = Save(a, "del")
  OBVIOUS
<1>2. PICK o : o = [s EXCEPT !.name = n]
  OBVIOUS
<1>3. StartSave(o) /\ UNCHANGED <<revs, view, form, dirty, dlg, edits>>
  BY <1>1, <1>2 DEF ClickRemove
<1>4. o.kind = "del" /\ "del" \in Saves
  BY <1>1, <1>2, <1>3 DEF StartSave, Save
<1>5. s \in OpRecord /\ s.kind = "del" /\ s.by = a /\ s.at = "get" /\ s.since = Len(revs)
  BY <1>1, <1>4, SaveType
<1>6. n \in Name \cup {NoName}
  OBVIOUS
<1>7. /\ o \in OpRecord
      /\ o.by = a /\ o.since = Len(revs) /\ o.at = "get" /\ o.name = n
  BY <1>2, <1>5, <1>6 DEF OpRecord
<1>8. Fit(o)
  BY <1>4, <1>6, <1>7 DEF Fit
<1> QED
  BY <1>3, <1>4, <1>7, <1>8, ClickKeeps

LEMMA ClickRuleKeeps ==
  ASSUME TypeOK, AllSound, NEW a \in Page, NEW n \in Name, ClickRule(a, n)
  PROVE  Keeps
<1>1. PICK s : s = Save(a, "rule")
  OBVIOUS
<1>2. PICK o : o = [s EXCEPT !.name = dlg[a], !.to = n]
  OBVIOUS
<1>3. StartSave(o) /\ UNCHANGED <<revs, view, form, dirty, dlg, edits>>
  BY <1>1, <1>2 DEF ClickRule
<1>4. o.kind = "rule" /\ "rule" \in Saves
  BY <1>1, <1>2, <1>3 DEF StartSave, Save
<1>5. s \in OpRecord /\ s.kind = "rule" /\ s.by = a /\ s.at = "get" /\ s.since = Len(revs)
  BY <1>1, <1>4, SaveType
<1>6. dlg[a] \in Name \cup {NoName} /\ n \in Name \cup {NoName}
  BY DEF TypeOK
<1>7. /\ o \in OpRecord
      /\ o.by = a /\ o.since = Len(revs) /\ o.at = "get" /\ o.to = n
  BY <1>2, <1>5, <1>6 DEF OpRecord
<1>8. Fit(o)
  BY <1>4, <1>6, <1>7 DEF Fit
<1> QED
  BY <1>3, <1>4, <1>7, <1>8, ClickKeeps

LEMMA ClickSettingsKeeps ==
  ASSUME TypeOK, AllSound, NEW a \in Page, ClickSettings(a)
  PROVE  Keeps
<1>1. PICK s : s = Save(a, "settings")
  OBVIOUS
<1>2. PICK o : o = s
  OBVIOUS
<1>3. StartSave(o) /\ UNCHANGED <<revs, view, form, dirty, dlg, edits>>
  BY <1>1, <1>2 DEF ClickSettings
<1>4. o.kind = "settings" /\ "settings" \in Saves
  BY <1>1, <1>2, <1>3 DEF StartSave, Save
<1>5. s \in OpRecord /\ s.kind = "settings" /\ s.by = a /\ s.at = "get" /\ s.since = Len(revs)
  BY <1>1, <1>4, SaveType
<1>6. S("ai") \in Key
  BY KeysAreKeys
<1>7. /\ o \in OpRecord
      /\ o.by = a /\ o.since = Len(revs) /\ o.at = "get"
  BY <1>2, <1>5, <1>6 DEF OpRecord
<1>8. Fit(o)
  BY <1>4, <1>6, <1>7 DEF Fit
<1> QED
  BY <1>3, <1>4, <1>7, <1>8, ClickKeeps

LEMMA ClickKeyKeeps ==
  ASSUME TypeOK, AllSound, NEW a \in Page, NEW v \in Value, ClickKey(a, v)
  PROVE  Keeps
<1>1. PICK s : s = Save(a, "key")
  OBVIOUS
<1>2. PICK o : o = [s EXCEPT !.at = "post", !.key = S("aikey"), !.val = v]
  OBVIOUS
<1>3. StartSave(o) /\ UNCHANGED <<revs, view, form, dirty, dlg, edits>>
  BY <1>1, <1>2 DEF ClickKey
<1>4. o.kind = "key" /\ "key" \in Saves
  BY <1>1, <1>2, <1>3 DEF StartSave, Save
<1>5. s \in OpRecord /\ s.kind = "key" /\ s.by = a /\ s.at = "get" /\ s.since = Len(revs)
  BY <1>1, <1>4, SaveType
<1>6. S("aikey") \in Key
  BY KeysAreKeys
<1>7. /\ o \in OpRecord
      /\ o.by = a /\ o.since = Len(revs) /\ o.at = "post" /\ o.key = S("aikey")
  BY <1>2, <1>5, <1>6 DEF OpRecord
<1>8. Fit(o)
  BY <1>4, <1>6, <1>7 DEF Fit
<1> QED
  BY <1>3, <1>4, <1>7, <1>8, ClickKeeps

LEMMA ClickModelKeeps ==
  ASSUME TypeOK, AllSound, NEW a \in Page, NEW v \in Value, ClickModel(a, v)
  PROVE  Keeps
<1>1. PICK s : s = Save(a, "model")
  OBVIOUS
<1>2. PICK o : o = [s EXCEPT !.val = v]
  OBVIOUS
<1>3. StartSave(o) /\ UNCHANGED <<revs, view, form, dirty, dlg, edits>>
  BY <1>1, <1>2 DEF ClickModel
<1>4. o.kind = "model" /\ "model" \in Saves
  BY <1>1, <1>2, <1>3 DEF StartSave, Save
<1>5. s \in OpRecord /\ s.kind = "model" /\ s.by = a /\ s.at = "get" /\ s.since = Len(revs)
  BY <1>1, <1>4, SaveType
<1>6. v \in Value
  OBVIOUS
<1>7. /\ o \in OpRecord
      /\ o.by = a /\ o.since = Len(revs) /\ o.at = "get"
  BY <1>2, <1>5, <1>6 DEF OpRecord
<1>8. Fit(o)
  BY <1>4, <1>6, <1>7 DEF Fit
<1> QED
  BY <1>3, <1>4, <1>7, <1>8, ClickKeeps

LEMMA ClickGroupKeeps ==
  ASSUME TypeOK, AllSound, NEW a \in Page, NEW v \in Value, ClickGroup(a, v)
  PROVE  Keeps
<1>9. PICK kind \in {"group", "ungroup"} : kind = IF v # 0 THEN "group" ELSE "ungroup"
  OBVIOUS
<1>1. PICK s : s = Save(a, kind)
  OBVIOUS
<1>2. PICK o : o = [s EXCEPT !.key = S("group"), !.val = v]
  OBVIOUS
<1>3. StartSave(o) /\ UNCHANGED <<revs, view, form, dirty, dlg, edits>>
  BY <1>1, <1>2, <1>9 DEF ClickGroup
<1>4. o.kind = kind /\ kind \in Saves
  BY <1>1, <1>2, <1>3 DEF StartSave, Save
<1>5. s \in OpRecord /\ s.kind = kind /\ s.by = a /\ s.at = "get" /\ s.since = Len(revs)
  BY <1>1, <1>4, SaveType
<1>6. S("group") \in Key
  BY KeysAreKeys
<1>7. /\ o \in OpRecord
      /\ o.by = a /\ o.since = Len(revs) /\ o.at = "get" /\ o.key = S("group")
  BY <1>2, <1>5, <1>6 DEF OpRecord
<1>8. Fit(o)
  BY <1>4, <1>6, <1>7, <1>9 DEF Fit
<1> QED
  BY <1>3, <1>4, <1>7, <1>8, <1>9, ClickKeeps

\* The log switch flips, and remembers what the page had loaded.
LEMMA ClickLogKeeps ==
  ASSUME TypeOK, AllSound, NEW a \in Page, NEW n \in Name, ClickLog(a, n)
  PROVE  Keeps
<1>0. Grows /\ Len(revs') \in Nat /\ UNCHANGED <<revs, view, dlg, edits>>
  BY SameRevisions DEF ClickLog
<1> DEFINE k == Log(n)
           row == IF k \in dirty[a] THEN "again" ELSE "first"
<1>1. PICK s : s = Save(a, "log")
  OBVIOUS
<1>2. PICK o : o = [s EXCEPT !.name = n, !.val = form[a][k], !.row = row]
  OBVIOUS
<1>3. StartSave(o)
  BY <1>1, <1>2 DEF ClickLog
<1>4. o.kind = "log" /\ "log" \in Saves
  BY <1>1, <1>2, <1>3 DEF StartSave, Save
<1>5. s \in OpRecord /\ s.kind = "log" /\ s.by = a /\ s.at = "get" /\ s.since = Len(revs)
  BY <1>1, <1>4, SaveType
<1>6. k \in Key /\ form[a][k] \in Value /\ row \in {"first", "again", "gone"}
  BY KeysAreKeys, DocumentValues DEF TypeOK
<1>7. /\ o \in OpRecord
      /\ o.by = a /\ o.since = Len(revs) /\ o.at = "get" /\ o.name = n
      /\ o.val = form[a][k] /\ o.row = row
  BY <1>2, <1>5, <1>6 DEF OpRecord
<1>8. Good(o)
  BY <1>4, <1>7, CurrentType DEF Good, Fit, Saving
<1>9. Good(o)'
  BY <1>0, <1>8, GoodGrows
<1>10. /\ op' \in [Call -> OpRecord \cup {NoOp}]
       /\ \E c \in Call : op'[c] = o /\ Idle(c) /\ \A d \in Call \ {c} : op'[d] = op[d]
  BY <1>3, <1>7, Started DEF StartSave
<1>11. PICK c \in Call : op'[c] = o /\ Idle(c) /\ \A d \in Call \ {c} : op'[d] = op[d]
  BY <1>10
<1>12. CallsOf(a)
  BY <1>7, <1>9, <1>11 DEF CallsOf
<1>13. /\ form' \in [Page -> Document]
       /\ \A j \in Key \ {k} : form'[a][j] = form[a][j]
       /\ \A b \in Page \ {a} : form'[b] = form[b]
  BY FlipType DEF ClickLog
<1>14. /\ dirty' \in [Page -> SUBSET Key] /\ dirty'[a] = dirty[a] \cup {k}
       /\ \A b \in Page \ {a} : dirty'[b] = dirty[b]
  BY <1>6 DEF ClickLog, TypeOK
<1>15. Shows(a)'
  <2>1. PICK r \in 1..Len(revs) : Matches(a, r)
    BY DEF AllSound, Shows
  <2>2. view[a] = "policy" /\ view[a] \in Views
    BY DEF ClickLog, TypeOK
  <2>3. Config(view[a]) \subseteq Key /\ k \in Config(view[a]) /\ Shown(view[a]) \subseteq Key
    BY <2>2, ViewKeys, LogIsConfig
  <2>4. \A j \in Config(view[a]) \ dirty'[a] : form'[a][j] = revs[r][j]
    BY <1>13, <1>14, <2>1, <2>3 DEF Matches
  <2>5. ASSUME NEW d \in Call, First(d, a)' PROVE op'[d].val = revs[r][Log(op'[d].name)]
    <3>1. CASE d = c
      <4>1. o.row = "first"
        BY <1>11, <2>5, <3>1 DEF First
      <4>2. k \notin dirty[a]
        BY <1>7, <4>1
      <4>3. form[a][k] = revs[r][k]
        BY <2>1, <2>3, <4>2 DEF Matches
      <4> QED
        BY <1>7, <1>11, <3>1, <4>3
    <3>2. CASE d # c
      <4>1. op'[d] = op[d] /\ First(d, a)
        BY <1>11, <2>5, <3>2 DEF First, Of, Idle
      <4> QED
        BY <2>1, <4>1 DEF Matches
    <3> QED
      BY <3>1, <3>2
  <2>6. Matches(a, r)'
    BY <1>0, <2>4, <2>5 DEF Matches
  <2>7. Groups(a)'
    <3>1. S("group") # k /\ S("group") \in Key
      BY KeysDiffer, KeysAreKeys
    <3>2. Groups(a) /\ form'[a][S("group")] = form[a][S("group")]
      BY <1>13, <3>1 DEF AllSound, Shows
    <3> QED
      BY <1>0, <1>14, <3>2 DEF Groups
  <2> QED
    BY <1>0, <2>1, <2>6, <2>7 DEF Shows
<1>16. AllSound'
  BY <1>0, <1>12, <1>13, <1>14, <1>15, Frame
<1> QED
  BY <1>0, <1>10, <1>13, <1>14, <1>16 DEF Keeps, TypeOK

-----------------------------------------------------------------------------
(* What else an administrator does.                                        *)

LEMMA OpenKeeps ==
  ASSUME TypeOK, AllSound, NEW a \in Page, NEW v \in Views, Open(a, v)
  PROVE  Keeps
<1>0. Grows /\ Len(revs') \in Nat /\ UNCHANGED <<revs, edits>>
  BY SameRevisions DEF Open
<1>1. Shown(v) \subseteq Key /\ Blank \in Document
  BY ViewKeys, BlankType
<1>2. /\ view' \in [Page -> Views] /\ view'[a] = v
      /\ form' \in [Page -> Document]
      /\ dirty' \in [Page -> SUBSET Key] /\ dirty'[a] = Shown(v)
      /\ dlg' \in [Page -> Name \cup {NoName}]
      /\ \A b \in Page \ {a} : view'[b] = view[b] /\ form'[b] = form[b] /\ dirty'[b] = dirty[b]
  BY <1>1 DEF Open, TypeOK
<1>3. PICK l : l = Load(a)
  OBVIOUS
<1>4. l \in OpRecord /\ l.kind = "load" /\ l.by = a /\ l.at = "load"
  BY <1>3, LoadType
<1>10. Good(l)
  BY <1>4, LoadGood
<1>5. Good(l)'
  BY <1>0, <1>10, GoodGrows
<1>6. /\ op' \in [Call -> OpRecord \cup {NoOp}]
      /\ \A d \in Call : op'[d] = op[d] \/ op'[d] = l
  <2>1. CASE v = "chat"
    BY <2>1 DEF Open, TypeOK
  <2>2. CASE v # "chat"
    BY <1>3, <1>4, <2>2, Started DEF Open
  <2> QED
    BY <2>1, <2>2
<1>7. CallsOf(a)
  <2> SUFFICES ASSUME NEW d \in Call, op'[d] = l PROVE op'[d].by = a /\ Good(op[d])'
    BY <1>6 DEF CallsOf
  <2> QED
    BY <1>4, <1>5
<1>8. Shows(a)'
  <2>1. \A d \in Call : ~First(d, a)'
    BY <1>4, <1>6 DEF First, Of, Idle, Open
  <2>2. Matches(a, 1)' /\ Groups(a)'
    BY <1>2, <2>1 DEF Matches, Groups, Config
  <2>3. 1 \in 1..Len(revs')
    BY <1>0, CurrentType
  <2> QED
    BY <2>2, <2>3 DEF Shows
<1>9. AllSound'
  BY <1>0, <1>2, <1>7, <1>8, Frame
<1> QED
  BY <1>0, <1>2, <1>6, <1>9 DEF Keeps, TypeOK

\* An edit types into a field of the page, which is never a log switch.
LEMMA EditKeeps ==
  ASSUME TypeOK, AllSound, NEW a \in Page, Edit(a)
  PROVE  Keeps
<1>0. Grows /\ Len(revs') \in Nat /\ UNCHANGED <<revs, view, dlg, op>> /\ edits' \in 0..MaxEdits
  BY SameRevisions DEF Edit, TypeOK
<1>1. PICK k \in Typed(view[a]), v \in Value :
        /\ form' = [form EXCEPT ![a][k] = v]
        /\ dirty' = [dirty EXCEPT ![a] = @ \cup {k}]
  BY DEF Edit
<1>2. view[a] \in Views
  BY DEF TypeOK
<1>3. k \in Key /\ \A n \in Name : Log(n) # k
  BY <1>2, ViewKeys, NoLogSwitch
<1>4. /\ form' \in [Page -> Document]
      /\ \A j \in Key \ {k} : form'[a][j] = form[a][j]
      /\ \A b \in Page \ {a} : form'[b] = form[b]
  BY <1>1, <1>3, FormSet
<1>5. /\ dirty' \in [Page -> SUBSET Key] /\ dirty'[a] = dirty[a] \cup {k}
      /\ \A b \in Page \ {a} : dirty'[b] = dirty[b]
  BY <1>1, <1>3 DEF TypeOK
<1>6. Shows(a)'
  <2>1. PICK r \in 1..Len(revs) : Matches(a, r)
    BY DEF AllSound, Shows
  <2>2. Config(view[a]) \subseteq Key /\ S("group") \in Key
    BY <1>2, ViewKeys, KeysAreKeys
  <2>3. Matches(a, r)'
    <3>1. \A j \in Config(view[a]) \ dirty'[a] : form'[a][j] = revs[r][j]
      BY <1>4, <1>5, <2>1, <2>2 DEF Matches
    <3> QED
      BY <1>0, <2>1, <3>1 DEF Matches, First, Of, Idle
  <2>4. Groups(a)'
    BY <1>0, <1>4, <1>5, <2>2 DEF AllSound, Shows, Groups
  <2> QED
    BY <1>0, <2>1, <2>3, <2>4 DEF Shows
<1>7. CallsOf(a)
  BY <1>0 DEF CallsOf
<1>8. AllSound'
  BY <1>0, <1>4, <1>5, <1>6, <1>7, Frame
<1> QED
  BY <1>0, <1>4, <1>5, <1>8 DEF Keeps, TypeOK

\* Nothing the invariant speaks of but the revisions changes.
LEMMA GrowKeeps ==
  ASSUME TypeOK, AllSound, TypeOK', Grows, UNCHANGED <<view, form, dirty, op>>
  PROVE  Keeps
<1>0. Len(revs') \in Nat
  BY DEF TypeOK
<1>1. ASSUME NEW d \in Call, ~Idle(d)' PROVE Good(op[d])'
  <2>1. PICK o : o = op[d]
    OBVIOUS
  <2>2. Good(o)
    BY <1>1, <2>1 DEF AllSound, Idle
  <2>3. Good(o)'
    BY <1>0, <2>2, GoodGrows
  <2> QED
    BY <2>1, <2>3
<1>2. ASSUME NEW b \in Page PROVE Shows(b)'
  BY <1>0, ShowsKept DEF AllSound, First, Of, Idle
<1> QED
  BY <1>1, <1>2 DEF Keeps, AllSound

LEMMA OpenMatcherKeeps ==
  ASSUME TypeOK, AllSound, NEW a \in Page, NEW n \in Name \cup {NoName}, OpenMatcher(a, n)
  PROVE  Keeps
<1>1. dlg' \in [Page -> Name \cup {NoName}]
  BY DEF OpenMatcher, TypeOK
<1>2. UNCHANGED <<revs, view, form, dirty, op, edits>>
  BY DEF OpenMatcher
<1>3. TypeOK'
  BY <1>1, <1>2 DEF TypeOK
<1> QED
  BY <1>2, <1>3, SameRevisions, GrowKeeps

\* A document is appended to the revisions.
LEMMA Appended ==
  ASSUME TypeOK, NEW d \in Document, Len(revs) < MaxRev, revs' = Append(revs, d)
  PROVE  /\ revs' \in Seq(Document) /\ Len(revs') \in 1..MaxRev /\ Len(revs') \in Nat
         /\ Grows /\ revs'[Len(revs')] = d
<1>1. revs \in Seq(Document) /\ Len(revs) \in 1..MaxRev
  BY DEF TypeOK
<1> QED
  BY <1>1 DEF Grows

LEMMA ElsewhereKeeps ==
  ASSUME TypeOK, AllSound, Elsewhere
  PROVE  Keeps
<1>1. UNCHANGED <<view, form, dirty, dlg, op, edits>> /\ Len(revs) < MaxRev
  BY DEF Elsewhere
<1>2. PICK k \in Others \cap Key, v \in Value :
        /\ k \in {Log(n) : n \in Name} => v \in {0, 1}
        /\ revs' = Append(revs, [doc EXCEPT ![k] = v])
  BY DEF Elsewhere
<1>7. PICK fresh \in Document : fresh = doc
  BY CurrentType
<1>3. PICK d : d = [fresh EXCEPT ![k] = v]
  OBVIOUS
<1>8. k \in Key /\ v \in Value /\ ((\E n \in Name : Log(n) = k) => v \in {0, 1})
  BY <1>2
<1>4. d \in Document
  BY <1>3, <1>8, DocumentSet
<1>5. revs' \in Seq(Document) /\ Len(revs') \in 1..MaxRev /\ Grows
  BY <1>1, <1>2, <1>3, <1>4, <1>7, Appended
<1>6. TypeOK'
  BY <1>1, <1>5 DEF TypeOK
<1> QED
  BY <1>1, <1>5, <1>6, GrowKeeps

-----------------------------------------------------------------------------
(* The steps of a call.                                                    *)

\* A call goes on, or ends, and leaves its page alone.
LEMMA CallKeeps ==
  ASSUME TypeOK, AllSound, NEW c \in Call, ~Idle(c),
         NEW o \in OpRecord \cup {NoOp}, op' = [op EXCEPT ![c] = o],
         o.kind # "none" => o.by = op[c].by /\ Good(o),
         o.kind = "log" => op[c].kind = "log" /\ o.row = op[c].row /\ o.val = op[c].val
                           /\ o.name = op[c].name,
         UNCHANGED <<view, form, dirty, dlg, edits>>,
         revs' \in Seq(Document), Len(revs') \in 1..MaxRev, Grows
  PROVE  Keeps
<1>0. op[c] \in OpRecord /\ op \in [Call -> OpRecord \cup {NoOp}] /\ Len(revs') \in Nat
  BY CallType DEF TypeOK
<1>1. PICK a \in Page : a = op[c].by
  BY <1>0 DEF OpRecord
<1>2. op' \in [Call -> OpRecord \cup {NoOp}] /\ op'[c] = o /\ \A d \in Call \ {c} : op'[d] = op[d]
  BY <1>0
<1>3. o.kind # "none" => Good(o)'
  BY <1>0, GoodGrows
<1>4. CallsOf(a)
  BY <1>1, <1>2, <1>3 DEF CallsOf
<1>5. Shows(a)'
  <2>1. \A d \in Call : First(d, a)' =>
          First(d, a) /\ op'[d].val = op[d].val /\ op'[d].name = op[d].name
    <3> SUFFICES ASSUME NEW d \in Call, First(d, a)'
                 PROVE  First(d, a) /\ op'[d].val = op[d].val /\ op'[d].name = op[d].name
      OBVIOUS
    <3>1. CASE d = c
      BY <1>1, <1>2, <3>1 DEF First, Of, Idle
    <3>2. CASE d # c
      BY <1>2, <3>2 DEF First, Of, Idle
    <3> QED
      BY <3>1, <3>2
  <2> QED
    BY <1>0, <2>1, ShowsKept DEF AllSound
<1>6. AllSound'
  BY <1>0, <1>4, <1>5, Frame
<1> QED
  BY <1>2, <1>6 DEF Keeps, TypeOK

LEMMA RevisionsKept ==
  ASSUME TypeOK, UNCHANGED revs
  PROVE  revs' \in Seq(Document) /\ Len(revs') \in 1..MaxRev /\ Grows
BY SameRevisions DEF TypeOK

\* A call ends and leaves its page alone.
LEMMA EndKeeps ==
  ASSUME TypeOK, AllSound, NEW c \in Call, ~Idle(c), End(c),
         UNCHANGED <<revs, view, form, dirty, dlg, edits>>
  PROVE  Keeps
<1>1. NoOp.kind = "none" /\ NoOp \in OpRecord \cup {NoOp} /\ op' = [op EXCEPT ![c] = NoOp]
  BY DEF NoOp, End
<1>2. PICK o \in OpRecord \cup {NoOp} : o = NoOp
  BY <1>1
<1>3. o.kind = "none" /\ op' = [op EXCEPT ![c] = o]
  BY <1>1, <1>2
<1> QED
  BY <1>3, RevisionsKept, CallKeeps

\* A save ends in an error: a switch the page still shows goes back.
LEMMA GiveUpKeeps ==
  ASSUME TypeOK, AllSound, NEW c \in Call, ~Idle(c), GiveUp(c)
  PROVE  Keeps
<1>0. /\ Grows /\ Len(revs') \in Nat /\ UNCHANGED <<revs, view, dlg, edits>>
      /\ op[c] \in OpRecord /\ op' = [op EXCEPT ![c] = NoOp]
  BY SameRevisions, CallType DEF GiveUp, End
<1>1. CASE ~(op[c].kind = "log" /\ op[c].row # "gone")
  BY <1>1, EndKeeps DEF GiveUp, Unflip
<1>2. CASE op[c].kind = "log" /\ op[c].row # "gone"
  <2>1. PICK a \in Page : a = op[c].by
    BY <1>0 DEF OpRecord
  <2>2. PICK n \in Name : n = op[c].name
    BY <1>2 DEF AllSound, Good, Fit
  <2>3. PICK k : k = Log(n)
    OBVIOUS
  <2>4. k \in Key
    BY <2>3, KeysAreKeys
  <2>5. /\ form' = [form EXCEPT ![a][Log(n)] = 1 - @]
        /\ dirty' = [dirty EXCEPT ![a] = IF op[c].row = "first" /\ 1 - form[a][k] = op[c].val
                                         THEN dirty[a] \ {k} ELSE dirty[a] \cup {k}]
    BY <1>2, <2>1, <2>2, <2>3 DEF GiveUp, Unflip
  <2>6. /\ form' \in [Page -> Document]
        /\ form'[a][k] = 1 - form[a][k]
        /\ \A j \in Key \ {k} : form'[a][j] = form[a][j]
        /\ \A b \in Page \ {a} : form'[b] = form[b]
    BY <2>3, <2>5, FlipType
  <2>7. /\ dirty' \in [Page -> SUBSET Key]
        /\ \/ dirty'[a] = dirty[a] \cup {k}
           \/ /\ dirty'[a] = dirty[a] \ {k}
              /\ op[c].row = "first" /\ form'[a][k] = op[c].val
        /\ \A b \in Page \ {a} : dirty'[b] = dirty[b]
    BY <2>4, <2>5, <2>6 DEF TypeOK
  <2>8. /\ op' \in [Call -> OpRecord \cup {NoOp}] /\ op'[c] = NoOp /\ NoOp.kind = "none"
        /\ \A d \in Call \ {c} : op'[d] = op[d]
    BY <1>0 DEF TypeOK, NoOp
  <2>9. CallsOf(a)
    BY <2>8 DEF CallsOf
  <2>10. Shows(a)'
    <3>1. PICK r \in 1..Len(revs) : Matches(a, r)
      BY DEF AllSound, Shows
    <3>2. view[a] \in Views /\ Config(view[a]) \subseteq Key
      BY ViewKeys DEF TypeOK
    <3>3. op[c].row = "first" => op[c].val = revs[r][k]
      BY <1>2, <2>1, <2>2, <2>3, <3>1 DEF Matches, First, Of, Idle
    <3>4. \A j \in Config(view[a]) \ dirty'[a] : form'[a][j] = revs[r][j]
      <4> SUFFICES ASSUME NEW j \in Config(view[a]), j \notin dirty'[a]
                   PROVE  form'[a][j] = revs[r][j]
        OBVIOUS
      <4>1. CASE j = k
        BY <2>7, <3>3, <4>1
      <4>2. CASE j # k
        BY <2>6, <2>7, <3>1, <3>2, <4>2 DEF Matches
      <4> QED
        BY <4>1, <4>2
    <3>5. \A d \in Call : First(d, a)' => op'[d].val = revs[r][Log(op'[d].name)]
      BY <2>8, <3>1 DEF Matches, First, Of, Idle
    <3>6. Matches(a, r)'
      BY <1>0, <3>4, <3>5 DEF Matches
    <3>7. Groups(a)'
      <4>1. S("group") # k /\ S("group") \in Key
        BY <2>3, KeysDiffer, KeysAreKeys
      <4>2. Groups(a) /\ form'[a][S("group")] = form[a][S("group")]
        BY <2>6, <4>1 DEF AllSound, Shows
      <4> QED
        BY <1>0, <2>7, <4>1, <4>2 DEF Groups
    <3> QED
      BY <1>0, <3>1, <3>6, <3>7 DEF Shows
  <2>11. AllSound'
    BY <1>0, <2>6, <2>7, <2>9, <2>10, Frame
  <2> QED
    BY <1>0, <2>6, <2>7, <2>8, <2>11 DEF Keeps, TypeOK
<1> QED
  BY <1>1, <1>2

\* The server's answer is a stored document.
LEMMA AnswerKeeps ==
  ASSUME TypeOK, AllSound, NEW c \in Call, Answer(c)
  PROVE  Keeps
<1>1. PICK step \in {"get", "load"} :
        /\ At(c, step)
        /\ op' = [op EXCEPT ![c].cfg = doc, ![c].at = IF step = "get" THEN "got" ELSE "loaded"]
  BY DEF Answer
<1>2. ~Idle(c) /\ op[c].at = step /\ op[c] \in OpRecord /\ Good(op[c])
  BY <1>1, CallType DEF At, AllSound
<1>3. PICK at \in {"got", "loaded"} : at = IF step = "get" THEN "got" ELSE "loaded"
  OBVIOUS
<1>4. PICK fresh \in Document : fresh = doc
  BY CurrentType
<1>5. PICK o : o = [op[c] EXCEPT !.cfg = fresh, !.at = at]
  OBVIOUS
<1>6. /\ o \in OpRecord
      /\ o.kind = op[c].kind /\ o.by = op[c].by /\ o.at = at /\ o.key = op[c].key /\ o.val = op[c].val
      /\ o.name = op[c].name /\ o.to = op[c].to /\ o.row = op[c].row /\ o.cfg = fresh
      /\ o.since = op[c].since
  BY <1>2, <1>5 DEF OpRecord
<1>7. op' = [op EXCEPT ![c] = o]
  BY <1>1, <1>3, <1>4, <1>5
<1>8. Good(o)
  <2>1. Fit(o)
    BY <1>2, <1>3, <1>6 DEF Good, Fit, Saving
  <2>2. o.at = "got" => o.since \in 1..Len(revs) /\ Len(revs) \in o.since..Len(revs)
    BY <1>2, <1>3, <1>6, CurrentType DEF Good
  <2>3. o.cfg = revs[Len(revs)] /\ Len(revs) \in 1..Len(revs)
    BY <1>4, <1>6, CurrentType
  <2> QED
    BY <1>3, <1>6, <2>1, <2>2, <2>3 DEF Good
<1>9. UNCHANGED <<revs, view, form, dirty, dlg, edits>>
  BY DEF Answer
<1> QED
  BY <1>2, <1>6, <1>7, <1>8, <1>9, RevisionsKept, CallKeeps

\* What the merge of a save makes of two documents is a document, and is the
\* document read again outside the keys the save is meant to change and those
\* the settings form builds anew.
LEMMA MergedType ==
  ASSUME NEW o \in OpRecord, Fit(o), o.at = "got",
         NEW f \in Document, NEW fresh \in Document, NEW cfg \in Merged(o, f, fresh)
  PROVE  /\ cfg \in Document
         /\ \A k \in Key \ (Own(o) \cup Rebuilt(o)) : cfg[k] = fresh[k]
<1>0. /\ o.kind \in {"tab", "log", "rule", "del", "group", "ungroup", "settings", "model"}
      /\ o.val \in Value /\ o.key \in Key /\ o.name \in Name \cup {NoName}
  BY DEF OpRecord, Fit, Saving
<1>1. /\ f \in [Key -> Value] /\ fresh \in [Key -> Value]
      /\ \A n \in Name : f[Log(n)] \in {0, 1} /\ fresh[Log(n)] \in {0, 1}
  BY DEF Document
<1>2. \A n \in Name : Log(n) \in Key /\ Rule(n) \in Key
  BY KeysAreKeys
<1>3. /\ {S("listen"), S("ips"), S("hook"), S("ai"), S("rest"), S("group")} \subseteq Key
      /\ TabKeys \subseteq Key
  BY KeysAreKeys
<1>4. PICK own : own = Own(o) \cup Rebuilt(o)
  OBVIOUS
<1> SUFFICES cfg \in Document /\ \A k \in Key \ own : cfg[k] = fresh[k]
  BY <1>4
<1>5. CASE o.kind = "tab"
  <2>1. PICK v \in Value : cfg = [fresh EXCEPT ![o.key] = v]
    BY <1>0, <1>1, <1>5 DEF Merged
  <2>2. PICK k \in Key : k = o.key
    BY <1>0
  <2>3. k \in TabKeys /\ k \in own
    BY <1>4, <1>5, <2>2 DEF Fit, Own, Saving
  <2>4. (\E n \in Name : Log(n) = k) => v \in {0, 1}
    BY <2>3, NoLogSwitch
  <2>5. cfg = [fresh EXCEPT ![k] = v]
    BY <2>1, <2>2
  <2>6. cfg \in Document
    BY <2>4, <2>5, DocumentSet
  <2>7. \A j \in Key \ {k} : cfg[j] = fresh[j]
    BY <1>1, <2>5
  <2> QED
    BY <2>3, <2>6, <2>7
<1>6. CASE o.kind = "log"
  <2>1. PICK n \in Name : n = o.name
    BY <1>6 DEF Fit
  <2>2. PICK v \in {0, 1} : cfg = [fresh EXCEPT ![Log(n)] = v]
    BY <1>1, <1>6, <2>1 DEF Merged, Switch
  <2>3. PICK k \in Key : k = Log(n)
    BY <1>2
  <2>4. k \in own /\ v \in Value
    BY <1>4, <1>6, <2>1, <2>3, SmallValues DEF Own
  <2>5. /\ cfg = [fresh EXCEPT ![k] = v]
        /\ (\E m \in Name : Log(m) = k) => v \in {0, 1}
    BY <2>2, <2>3
  <2>6. cfg \in Document
    BY <2>4, <2>5, DocumentSet
  <2>7. \A j \in Key \ {k} : cfg[j] = fresh[j]
    BY <1>1, <2>5
  <2> QED
    BY <2>4, <2>6, <2>7
<1>7. CASE o.kind = "rule"
  <2>1. PICK b \in 1..MaxValue, l \in {0, 1} : cfg = RuleMerge(o, fresh, b, l)
    BY <1>7 DEF Merged
  <2>2. Own(o) = RuleKeys \cap {Rule(o.name), Log(o.name), Rule(o.to), Log(o.to)}
    BY <1>7 DEF Own
  <2>3. o.to \in Name
    BY <1>7 DEF Fit, Saving
  <2>4. cfg \in [Key -> Value]
    BY <1>1, <2>1, SmallValues DEF RuleMerge
  <2>5. \A n \in Name : cfg[Log(n)] \in {0, 1}
    <3> SUFFICES ASSUME NEW n \in Name PROVE cfg[Log(n)] \in {0, 1}
      OBVIOUS
    <3>1. Log(n) # Rule(o.to) /\ Log(n) # Rule(o.name)
      BY KeysDiffer
    <3> QED
      BY <1>1, <1>2, <2>1, <3>1 DEF RuleMerge
  <2>6. ASSUME NEW k \in Key \ Own(o) PROVE cfg[k] = fresh[k]
    <3>1. k \notin {Rule(o.to), Log(o.to)}
      BY <2>2, <2>3, <2>6, KeysAreKeys
    <3>2. o.name # NoName => k \notin {Rule(o.name), Log(o.name)}
      BY <1>0, <2>2, <2>6, KeysAreKeys
    <3> QED
      BY <2>1, <3>1, <3>2 DEF RuleMerge
  <2> QED
    BY <1>4, <2>4, <2>5, <2>6 DEF Document
<1>8. CASE o.kind = "del"
  <2>1. o.name \in Name /\ Own(o) = {Rule(o.name), Log(o.name)}
    BY <1>8 DEF Fit, Own
  <2>2. cfg = [fresh EXCEPT ![Rule(o.name)] = 0, ![Log(o.name)] = 0]
    BY <1>8 DEF Merged, RemoveMerge
  <2> QED
    BY <1>1, <1>2, <1>4, <2>1, <2>2, KeysDiffer, SmallValues DEF Document
<1>9. CASE o.kind \in {"group", "ungroup"}
  <2>1. PICK k \in Key, v \in Value : k = S("group") /\ v = o.val
    BY <1>0, <1>3
  <2>2. cfg = [fresh EXCEPT ![k] = v] /\ k \in own
    BY <1>4, <1>9, <2>1 DEF Merged, Own, Fit, Saving
  <2>3. (\E n \in Name : Log(n) = k) => v \in {0, 1}
    BY <2>1, KeysDiffer
  <2>4. cfg \in Document
    BY <2>2, <2>3, DocumentSet
  <2>5. \A j \in Key \ {k} : cfg[j] = fresh[j]
    BY <1>1, <2>2
  <2> QED
    BY <2>2, <2>4, <2>5
<1>10. CASE o.kind = "settings"
  <2>1. PICK h \in Value, r \in Value : cfg = SettingsMerge(fresh, f, h, r)
    BY <1>1, <1>3, <1>10, SmallValues DEF Merged, Hooks
  <2>2. own = SettingsKeys \cup {S("rest")}
    BY <1>4, <1>10 DEF Own, Rebuilt
  <2>3. f[S("listen")] \in Value /\ f[S("ips")] \in Value /\ f[S("ai")] \in Value
    BY <1>1, <1>3
  <2>4. cfg \in [Key -> Value]
    BY <1>1, <2>1, <2>3 DEF SettingsMerge
  <2>5. \A k \in Key \ own : cfg[k] = fresh[k]
    BY <1>1, <2>1, <2>2 DEF SettingsMerge, SettingsKeys
  <2>6. \A n \in Name : Log(n) \in Key \ own
    BY <1>2, <2>2, KeysDiffer DEF SettingsKeys
  <2> QED
    BY <1>1, <2>4, <2>5, <2>6 DEF Document
<1>12. CASE o.kind = "model"
  <2>1. PICK k \in Key, v \in Value : k = S("ai") /\ v = o.val
    BY <1>0, <1>3
  <2>2. cfg = [fresh EXCEPT ![k] = v] /\ k \in own
    BY <1>4, <1>12, <2>1 DEF Merged, Own
  <2>3. (\E n \in Name : Log(n) = k) => v \in {0, 1}
    BY <2>1, KeysDiffer
  <2>4. cfg \in Document
    BY <2>2, <2>3, DocumentSet
  <2>5. \A j \in Key \ {k} : cfg[j] = fresh[j]
    BY <1>1, <2>2
  <2> QED
    BY <2>2, <2>4, <2>5
<1> QED
  BY <1>0, <1>5, <1>6, <1>7, <1>8, <1>9, <1>10, <1>12

\* A merged document is put on its way.
LEMMA MergeKeeps ==
  ASSUME TypeOK, AllSound, NEW c \in Call, Merge(c)
  PROVE  Keeps
<1>0. ~Idle(c) /\ op[c].at = "got" /\ op[c] \in OpRecord /\ Good(op[c])
  BY CallType DEF Merge, At, AllSound
<1>1. PICK a \in Page : a = op[c].by
  BY <1>0 DEF OpRecord
<1>2. PICK n \in Name \cup {NoName} : n = IF op[c].kind = "rule" THEN dlg[a] ELSE op[c].name
  BY <1>0, <1>1 DEF TypeOK, OpRecord
<1>3. PICK o : o = About(c)
  OBVIOUS
<1>4. /\ o \in OpRecord
      /\ o.kind = op[c].kind /\ o.by = a /\ o.at = "got" /\ o.key = op[c].key /\ o.val = op[c].val
      /\ o.name = n /\ o.to = op[c].to /\ o.row = op[c].row /\ o.cfg = op[c].cfg
      /\ o.since = op[c].since
  BY <1>0, <1>1, <1>2, <1>3 DEF About, OpRecord
<1>5. o.kind # "rule" => o.name = op[c].name
  BY <1>2, <1>4
<1>6. Fit(o)
  BY <1>0, <1>4, <1>5 DEF Good, Fit, Saving
<1>7. PICK r \in o.since..Len(revs) : o.cfg = revs[r]
  BY <1>0, <1>4 DEF Good
<1>8. o.since \in 1..Len(revs) /\ r \in 1..Len(revs)
  BY <1>0, <1>4, <1>7, CurrentType DEF Good
<1>9. PICK fresh \in Document : fresh = o.cfg /\ fresh = revs[r]
  BY <1>7, <1>8, CurrentType
<1>10. CASE Refused(o, o.cfg)
  BY <1>0, <1>3, <1>10, GiveUpKeeps DEF Merge
<1>11. CASE ~Refused(o, o.cfg)
  <2>1. /\ \E cfg \in Merged(o, form[a], fresh) :
             op' = [op EXCEPT ![c] = [o EXCEPT !.at = "post", !.cfg = cfg]]
        /\ UNCHANGED <<revs, view, form, dirty, dlg, edits>>
    BY <1>3, <1>4, <1>9, <1>11 DEF Merge
  <2>2. PICK cfg \in Merged(o, form[a], fresh) :
             op' = [op EXCEPT ![c] = [o EXCEPT !.at = "post", !.cfg = cfg]]
    BY <2>1
  <2>3. /\ cfg \in Document
        /\ \A k \in Key \ (Own(o) \cup Rebuilt(o)) : cfg[k] = fresh[k]
    <3>1. form[a] \in Document
      BY DEF TypeOK
    <3> QED
      BY <1>4, <1>6, <3>1, MergedType
  <2>4. PICK p : p = [o EXCEPT !.at = "post", !.cfg = cfg]
    OBVIOUS
  <2>5. /\ p \in OpRecord
        /\ p.kind = o.kind /\ p.by = a /\ p.at = "post" /\ p.key = o.key /\ p.val = o.val
        /\ p.name = o.name /\ p.to = o.to /\ p.row = o.row /\ p.cfg = cfg /\ p.since = o.since
    BY <1>4, <2>3, <2>4 DEF OpRecord
  <2>6. Fit(p)
    BY <1>4, <1>6, <2>5 DEF Fit, Saving
  <2>7. Fresh(p)
    <3>1. \A k : fresh[k] \in Seen(p, k)
      BY <1>7, <1>9, <2>5 DEF Seen
    <3>2. Own(p) = Own(o) /\ Rebuilt(p) = Rebuilt(o)
      BY <2>5 DEF Own, Rebuilt
    <3>3. \A k \in Key \ (Own(p) \cup Rebuilt(p)) : p.cfg[k] \in Seen(p, k)
      BY <2>3, <2>5, <3>1, <3>2
    <3>4. p.kind = "rule" => /\ p.to # p.name => fresh[Rule(p.to)] = 0
                             /\ p.name # NoName => fresh[Rule(p.name)] # 0
      BY <1>9, <1>11, <2>5 DEF Refused, RuleRefused
    <3> QED
      BY <2>3, <2>5, <3>1, <3>3, <3>4 DEF Fresh
  <2>8. Good(p)
    BY <1>8, <2>5, <2>6, <2>7 DEF Good
  <2>9. op' = [op EXCEPT ![c] = p]
    BY <2>2, <2>4
  <2>10. p.kind = "log" => op[c].kind = "log" /\ p.row = op[c].row /\ p.val = op[c].val
                            /\ p.name = op[c].name
    BY <1>4, <1>5, <2>5
  <2>11. p.by = op[c].by /\ UNCHANGED <<revs, view, form, dirty, dlg, edits>>
    BY <1>1, <2>1, <2>5
  <2> QED
    BY <1>0, <2>5, <2>8, <2>9, <2>10, <2>11, RevisionsKept, CallKeeps
<1> QED
  BY <1>10, <1>11

\* A document is stored: the revisions grow by one.
LEMMA CommitEffect ==
  ASSUME TypeOK, AllSound, NEW c \in Call, Commit(c)
  PROVE  /\ ~Idle(c) /\ op[c].at = "post" /\ op[c] \in OpRecord /\ Good(op[c])
         /\ Stored(op[c]) \in Document /\ Len(revs) < MaxRev
         /\ revs' = Append(revs, Stored(op[c]))
<1>1. ~Idle(c) /\ op[c].at = "post" /\ op[c] \in OpRecord /\ Good(op[c])
  BY CallType DEF Commit, At, AllSound
<1>2. Stored(op[c]) \in Document
  <2>1. CASE op[c].kind = "key"
    <3>1. PICK fresh \in Document, v \in Value : fresh = doc /\ v = op[c].val
      BY <1>1, CurrentType DEF OpRecord
    <3>2. Stored(op[c]) = [fresh EXCEPT ![S("aikey")] = v]
      BY <2>1, <3>1 DEF Stored
    <3>3. S("aikey") \in Key /\ \A n \in Name : Log(n) # S("aikey")
      BY KeysAreKeys, KeysDiffer
    <3> QED
      BY <3>2, <3>3, DocumentSet
  <2>2. CASE op[c].kind # "key"
    BY <1>1, <2>2 DEF Stored, Good, Fresh
  <2> QED
    BY <2>1, <2>2
<1> QED
  BY <1>1, <1>2 DEF Commit

LEMMA CommitKeeps ==
  ASSUME TypeOK, AllSound, NEW c \in Call, Commit(c)
  PROVE  Keeps
<1>1. /\ ~Idle(c) /\ op[c].at = "post" /\ op[c] \in OpRecord /\ Good(op[c])
      /\ Stored(op[c]) \in Document /\ Len(revs) < MaxRev
      /\ revs' = Append(revs, Stored(op[c]))
  BY CommitEffect
<1>2. revs' \in Seq(Document) /\ Len(revs') \in 1..MaxRev /\ Grows
  BY <1>1, Appended
<1>3. PICK e \in Document \cup {<<>>} : e = <<>>
  OBVIOUS
<1>4. PICK o : o = [op[c] EXCEPT !.at = "stored", !.cfg = e, !.since = 0]
  OBVIOUS
<1>5. 0 \in 0..MaxRev
  OBVIOUS
<1>6. /\ o \in OpRecord
      /\ o.kind = op[c].kind /\ o.by = op[c].by /\ o.at = "stored" /\ o.key = op[c].key
      /\ o.val = op[c].val /\ o.name = op[c].name /\ o.to = op[c].to /\ o.row = op[c].row
  BY <1>1, <1>4, <1>5 DEF OpRecord
<1>7. op' = [op EXCEPT ![c] = o]
  BY <1>3, <1>4 DEF Commit
<1>8. Good(o)
  BY <1>1, <1>6 DEF Good, Fit, Saving
<1>9. UNCHANGED <<view, form, dirty, dlg, edits>>
  BY DEF Commit
<1> QED
  BY <1>1, <1>2, <1>6, <1>7, <1>8, <1>9, CallKeeps

\* The answer arrives: the call loads, or ends.
LEMMA SucceedsKeeps ==
  ASSUME TypeOK, AllSound, NEW c \in Call, Succeeds(c)
  PROVE  Keeps
<1>1. ~Idle(c) /\ op[c].at = "stored" /\ op[c] \in OpRecord /\ Good(op[c])
  BY CallType DEF Succeeds, At, AllSound
<1>2. UNCHANGED <<revs, view, form, dirty, dlg, edits>>
  BY DEF Succeeds
<1>3. CASE op[c].kind \in {"key", "model"}
  BY <1>1, <1>2, <1>3, EndKeeps DEF Succeeds, End
<1>4. CASE op[c].kind \notin {"key", "model"}
  <2>1. PICK a \in Page : a = op[c].by
    BY <1>1 DEF OpRecord
  <2>2. PICK l \in OpRecord : l = Load(a) /\ l.kind = "load" /\ l.by = a /\ l.at = "load"
    BY LoadType
  <2>3. PICK o : o = IF op[c].kind = "tab" THEN [l EXCEPT !.kind = "tab"] ELSE l
    OBVIOUS
  <2>4. op[c].kind = "tab" => "tab" \in Saves \cup {"load"}
    BY <1>1 DEF OpRecord
  <2>5. o \in OpRecord /\ o.kind \in {"load", "tab"} /\ o.by = a /\ o.at = "load"
    BY <2>2, <2>3, <2>4 DEF OpRecord
  <2>6. op' = [op EXCEPT ![c] = o]
    BY <1>4, <2>1, <2>2, <2>3 DEF Succeeds
  <2>7. Good(o)
    BY <2>5, LoadGood
  <2> QED
    BY <1>1, <1>2, <2>1, <2>5, <2>6, <2>7, RevisionsKept, CallKeeps
<1> QED
  BY <1>3, <1>4

\* The configuration arrives: the page shows the answer, and no switch of it
\* was clicked since.
LEMMA LoadsKeeps ==
  ASSUME TypeOK, AllSound, NEW c \in Call, Loads(c)
  PROVE  Keeps
<1>0. /\ ~Idle(c) /\ op[c].at = "loaded" /\ op[c] \in OpRecord /\ Good(op[c])
      /\ Grows /\ Len(revs') \in Nat /\ UNCHANGED <<revs, view, dlg, edits>>
  BY CallType, SameRevisions DEF Loads, At, AllSound
<1>1. PICK a \in Page : a = op[c].by
  BY <1>0 DEF OpRecord
<1>2. PICK r \in 1..Len(revs) : op[c].cfg = revs[r]
  BY <1>0 DEF Good
<1>3. PICK fresh \in Document : fresh = revs[r] /\ fresh = op[c].cfg
  BY <1>2, CurrentType
<1>4. PICK keys : keys = Config(view[a])
  OBVIOUS
<1>5. view[a] \in Views /\ keys \subseteq Key /\ S("group") \notin keys /\ S("group") \in Key
  BY <1>4, ViewKeys, KeysAreKeys DEF TypeOK, Config
<1>6. PICK f : f = [k \in Key |-> IF k \in keys THEN fresh[k] ELSE form[a][k]]
  OBVIOUS
<1>7. f \in Document
  <2>1. /\ form[a] \in [Key -> Value] /\ fresh \in [Key -> Value]
        /\ \A n \in Name : form[a][Log(n)] \in {0, 1} /\ fresh[Log(n)] \in {0, 1} /\ Log(n) \in Key
    BY KeysAreKeys DEF TypeOK, Document
  <2>2. f \in [Key -> Value] /\ \A n \in Name : f[Log(n)] \in {0, 1}
    BY <1>6, <2>1
  <2> QED
    BY <2>2 DEF Document
<1>8. /\ form' \in [Page -> Document] /\ form'[a] = f
      /\ \A b \in Page \ {a} : form'[b] = form[b]
  <2>1. form' = [form EXCEPT ![a] = f]
    BY <1>1, <1>3, <1>4, <1>6 DEF Loads
  <2> QED
    BY <1>7, <2>1 DEF TypeOK
<1>9. /\ dirty' \in [Page -> SUBSET Key] /\ dirty'[a] = dirty[a] \ keys
      /\ \A b \in Page \ {a} : dirty'[b] = dirty[b]
  <2>1. dirty' = [dirty EXCEPT ![a] = dirty[a] \ keys]
    BY <1>1, <1>4 DEF Loads
  <2> QED
    BY <2>1 DEF TypeOK
<1>10. PICK o : o = IF view[a] = "policy" THEN [op[c] EXCEPT !.at = "groups", !.cfg = <<>>] ELSE NoOp
  OBVIOUS
<1>11. /\ o \in OpRecord \cup {NoOp}
       /\ o.kind # "none" => o.by = a /\ Good(o)
       /\ o.kind # "log"
  <2>1. CASE view[a] = "policy"
    <3>1. PICK e \in Document \cup {<<>>} : e = <<>>
      OBVIOUS
    <3>2. o = [op[c] EXCEPT !.at = "groups", !.cfg = e]
      BY <1>10, <2>1, <3>1
    <3>3. /\ o \in OpRecord /\ o.kind = op[c].kind /\ o.by = op[c].by /\ o.at = "groups"
          /\ o.key = op[c].key /\ o.name = op[c].name /\ o.to = op[c].to
      BY <1>0, <3>2 DEF OpRecord
    <3>4. Fit(o) /\ o.kind # "log"
      BY <1>0, <3>3 DEF Good, Fit, Saving
    <3> QED
      BY <1>1, <3>3, <3>4 DEF Good
  <2>2. CASE view[a] # "policy"
    BY <1>10, <2>2 DEF NoOp
  <2> QED
    BY <2>1, <2>2
<1>12. /\ op'[c] = o
       /\ \A d \in Call \ {c} : op'[d] = IF Of(d, a) THEN [op[d] EXCEPT !.row = "gone"] ELSE op[d]
       /\ op' \in [Call -> OpRecord \cup {NoOp}]
  <2>1. op' = [d \in Call |-> CASE d = c -> o
                                [] d # c /\ Of(d, a) -> [op[d] EXCEPT !.row = "gone"]
                                [] OTHER -> op[d]]
    BY <1>1, <1>10 DEF Loads
  <2>2. \A d \in Call : Of(d, a) => [op[d] EXCEPT !.row = "gone"] \in OpRecord
    <3> SUFFICES ASSUME NEW d \in Call, Of(d, a)
                 PROVE  [op[d] EXCEPT !.row = "gone"] \in OpRecord
      OBVIOUS
    <3>1. op[d] \in OpRecord
      BY CallType DEF Of
    <3> QED
      BY <3>1 DEF OpRecord
  <2>3. \A d \in Call : op[d] \in OpRecord \cup {NoOp}
    BY DEF TypeOK
  <2> QED
    BY <1>11, <2>1, <2>2, <2>3
<1>13. CallsOf(a)
  <2>1. o.kind # "none" => Good(o)'
    BY <1>0, <1>11, GoodGrows
  <2> QED
    BY <1>11, <1>12, <2>1 DEF CallsOf
<1>14. Shows(a)'
  <2>1. \A k \in Config(view[a]) \ dirty'[a] : form'[a][k] = revs[r][k]
    BY <1>3, <1>4, <1>5, <1>6, <1>8
  <2>2. ASSUME NEW d \in Call PROVE ~First(d, a)'
    <3>1. CASE d = c
      BY <1>11, <1>12, <3>1 DEF First
    <3>2. CASE d # c /\ Of(d, a)
      <4>1. op[d] \in OpRecord /\ op'[d] = [op[d] EXCEPT !.row = "gone"]
        BY <1>12, <3>2, CallType DEF Of
      <4>2. op'[d].row = "gone"
        BY <4>1 DEF OpRecord
      <4> QED
        BY <4>2 DEF First
    <3>3. CASE d # c /\ ~Of(d, a)
      BY <1>12, <3>3 DEF First, Of, Idle
    <3> QED
      BY <3>1, <3>2, <3>3
  <2>3. Matches(a, r)'
    BY <1>0, <2>1, <2>2 DEF Matches
  <2>4. Groups(a)'
    <3>1. Groups(a) /\ f[S("group")] = form[a][S("group")]
      BY <1>5, <1>6 DEF AllSound, Shows
    <3> QED
      BY <1>0, <1>5, <1>8, <1>9, <3>1 DEF Groups
  <2> QED
    BY <1>0, <1>2, <2>3, <2>4 DEF Shows
<1>15. AllSound'
  BY <1>0, <1>8, <1>9, <1>13, <1>14, Frame
<1> QED
  BY <1>0, <1>8, <1>9, <1>12, <1>15 DEF Keeps, TypeOK

\* The IP groups arrive, or do not.
LEMMA LoadsGroupsKeeps ==
  ASSUME TypeOK, AllSound, NEW c \in Call, LoadsGroups(c)
  PROVE  Keeps
<1>0. /\ ~Idle(c) /\ op[c] \in OpRecord /\ op' = [op EXCEPT ![c] = NoOp]
      /\ Grows /\ Len(revs') \in Nat /\ UNCHANGED <<revs, view, dlg, edits>>
  BY CallType, SameRevisions DEF LoadsGroups, At, End
<1>1. PICK a \in Page : a = op[c].by
  BY <1>0 DEF OpRecord
<1>2. PICK k \in Key : k = S("group")
  BY KeysAreKeys
<1>3. view[a] \in Views /\ Config(view[a]) \subseteq Key \ {k} /\ \A n \in Name : Log(n) # k
  BY <1>2, ViewKeys, KeysDiffer DEF TypeOK, Config
<1>4. PICK v \in Value :
        /\ form' = [form EXCEPT ![a][k] = v]
        /\ \/ /\ dirty' = [dirty EXCEPT ![a] = @ \ {k}]
              /\ \E r \in 1..Len(revs) : v = revs[r][k]
           \/ dirty' = [dirty EXCEPT ![a] = @ \cup {k}]
  <2>1. CASE \E r \in 1..Len(revs) : /\ form' = [form EXCEPT ![a][k] = revs[r][k]]
                                     /\ dirty' = [dirty EXCEPT ![a] = @ \ {k}]
    <3>1. PICK r \in 1..Len(revs) : /\ form' = [form EXCEPT ![a][k] = revs[r][k]]
                                    /\ dirty' = [dirty EXCEPT ![a] = @ \ {k}]
      BY <2>1
    <3>2. PICK v \in Value : v = revs[r][k]
      BY CurrentType, DocumentValues
    <3> QED
      BY <3>1, <3>2
  <2>2. CASE /\ form' = [form EXCEPT ![a][k] = 0]
             /\ dirty' = [dirty EXCEPT ![a] = @ \cup {k}]
    BY <2>2, SmallValues
  <2> QED
    BY <1>1, <1>2, <2>1, <2>2 DEF LoadsGroups
<1>5. (\E n \in Name : Log(n) = k) => v \in {0, 1}
  BY <1>3
<1>6. form' = [form EXCEPT ![a][k] = v]
  BY <1>4
<1>7. /\ form' \in [Page -> Document] /\ form'[a][k] = v
      /\ \A j \in Key \ {k} : form'[a][j] = form[a][j]
      /\ \A b \in Page \ {a} : form'[b] = form[b]
  BY <1>5, <1>6, FormSet
<1>8. /\ dirty' \in [Page -> SUBSET Key]
      /\ \A j \in Key \ {k} : j \in dirty'[a] <=> j \in dirty[a]
      /\ k \in dirty'[a] \/ \E r \in 1..Len(revs) : v = revs[r][k]
      /\ \A b \in Page \ {a} : dirty'[b] = dirty[b]
  BY <1>4 DEF TypeOK
<1>9. /\ op' \in [Call -> OpRecord \cup {NoOp}] /\ op'[c] = NoOp /\ NoOp.kind = "none"
      /\ \A d \in Call \ {c} : op'[d] = op[d]
  BY <1>0 DEF TypeOK, NoOp
<1>10. CallsOf(a)
  BY <1>9 DEF CallsOf
<1>11. Shows(a)'
  <2>1. PICK r \in 1..Len(revs) : Matches(a, r)
    BY DEF AllSound, Shows
  <2>2. \A j \in Config(view[a]) \ dirty'[a] : form'[a][j] = revs[r][j]
    BY <1>3, <1>7, <1>8, <2>1 DEF Matches
  <2>3. \A d \in Call : First(d, a)' => op'[d].val = revs[r][Log(op'[d].name)]
    BY <1>9, <2>1 DEF Matches, First, Of, Idle
  <2>4. Matches(a, r)'
    BY <1>0, <2>2, <2>3 DEF Matches
  <2>5. Groups(a)'
    BY <1>0, <1>2, <1>7, <1>8 DEF Groups
  <2> QED
    BY <1>0, <2>1, <2>4, <2>5 DEF Shows
<1>12. AllSound'
  BY <1>0, <1>7, <1>8, <1>10, <1>11, Frame
<1> QED
  BY <1>0, <1>7, <1>8, <1>9, <1>12 DEF Keeps, TypeOK

LEMMA StepKeeps ==
  ASSUME TypeOK, AllSound, NEW c \in Call, Step(c)
  PROVE  Keeps
<1>1. CASE Answer(c)
  BY <1>1, AnswerKeeps
<1>2. CASE Merge(c)
  BY <1>2, MergeKeeps
<1>3. CASE Fails(c)
  BY <1>3, GiveUpKeeps DEF Fails, At
<1>4. CASE Commit(c)
  BY <1>4, CommitKeeps
<1>5. CASE AnswerLost(c)
  BY <1>5, GiveUpKeeps DEF AnswerLost, At
<1>6. CASE Succeeds(c)
  BY <1>6, SucceedsKeeps
<1>7. CASE LoadFails(c)
  BY <1>7, EndKeeps DEF LoadFails, At
<1>8. CASE Loads(c)
  BY <1>8, LoadsKeeps
<1>9. CASE LoadsGroups(c)
  BY <1>9, LoadsGroupsKeeps
<1> QED
  BY <1>1, <1>2, <1>3, <1>4, <1>5, <1>6, <1>7, <1>8, <1>9 DEF Step

LEMMA UserKeeps ==
  ASSUME TypeOK, AllSound, NEW a \in Page, User(a)
  PROVE  Keeps
<1>1. CASE \E v \in Views : Open(a, v)
  BY <1>1, OpenKeeps
<1>2. CASE \E n \in Name \cup {NoName} : OpenMatcher(a, n)
  BY <1>2, OpenMatcherKeeps
<1>3. CASE Edit(a)
  BY <1>3, EditKeeps
<1>4. CASE Click(a)
  <2>1. CASE \E k \in TabKeys : ClickTab(a, k)
    BY <2>1, ClickTabKeeps
  <2>2. CASE \E n \in Name : ClickLog(a, n)
    BY <2>2, ClickLogKeeps
  <2>3. CASE \E n \in Name : ClickRemove(a, n)
    BY <2>3, ClickRemoveKeeps
  <2>4. CASE \E n \in Name : ClickRule(a, n)
    BY <2>4, ClickRuleKeeps
  <2>5. CASE \E v \in Value : ClickGroup(a, v)
    BY <2>5, ClickGroupKeeps
  <2>6. CASE \E v \in Value : ClickKey(a, v)
    BY <2>6, ClickKeyKeeps
  <2>7. CASE \E v \in Value : ClickModel(a, v)
    BY <2>7, ClickModelKeeps
  <2>8. CASE ClickSettings(a)
    BY <2>8, ClickSettingsKeeps
  <2> QED
    BY <1>4, <2>1, <2>2, <2>3, <2>4, <2>5, <2>6, <2>7, <2>8 DEF Click
<1> QED
  BY <1>1, <1>2, <1>3, <1>4 DEF User

LEMMA NextKeeps ==
  ASSUME TypeOK, AllSound, [Next]_vars
  PROVE  Keeps
<1>1. CASE \E a \in Page : User(a)
  BY <1>1, UserKeeps
<1>2. CASE \E c \in Call : Step(c)
  BY <1>2, StepKeeps
<1>3. CASE Elsewhere
  BY <1>3, ElsewhereKeeps
<1>4. CASE UNCHANGED vars
  <2>1. TypeOK' /\ Grows /\ UNCHANGED <<view, form, dirty, op>>
    BY <1>4, SameRevisions DEF vars, TypeOK
  <2> QED
    BY <2>1, GrowKeeps
<1> QED
  BY <1>1, <1>2, <1>3, <1>4 DEF Next

LEMMA InitSound ==
  ASSUME Init
  PROVE  TypeOK /\ AllSound
<1>1. PICK n \in Name : revs = <<FirstDoc(n)>>
  BY DEF Init
<1>2. FirstDoc(n) \in Document
  <2>1. 1 \in Value /\ 0 \in Value
    BY DEF Value
  <2>2. FirstDoc(n) \in [Key -> Value]
    BY <2>1 DEF FirstDoc
  <2>3. ASSUME NEW m \in Name PROVE FirstDoc(n)[Log(m)] \in {0, 1}
    BY <2>3, KeysAreKeys DEF FirstDoc
  <2> QED
    BY <2>2, <2>3 DEF Document
<1>3. PICK d \in Document : d = FirstDoc(n)
  BY <1>2
<1>4. revs = <<d>> /\ revs \in Seq(Document) /\ Len(revs) = 1
  BY <1>1, <1>3
<1>5. \A v \in Views : Shown(v) \subseteq Key
  BY ViewKeys
<1>6. \A c \in Call : op[c] = NoOp /\ Idle(c)
  BY DEF Init, Idle, NoOp
<1>7. TypeOK
  <2>1. view \in [Page -> Views] /\ form \in [Page -> Document]
    BY BlankType DEF Init
  <2>2. dirty \in [Page -> SUBSET Key]
    BY <1>5, <2>1 DEF Init
  <2>3. dlg \in [Page -> Name \cup {NoName}] /\ op \in [Call -> OpRecord \cup {NoOp}] /\ edits \in 0..MaxEdits
    BY DEF Init
  <2> QED
    BY <1>4, <2>1, <2>2, <2>3 DEF TypeOK
<1>8. ASSUME NEW a \in Page PROVE Shows(a)
  <2>1. dirty[a] = Shown(view[a])
    BY DEF Init
  <2>2. 1 \in 1..Len(revs)
    BY <1>4
  <2>3. Matches(a, 1)
    BY <1>6, <2>1 DEF Matches, Config, First, Of
  <2>4. Groups(a)
    BY <2>1 DEF Groups
  <2> QED
    BY <2>2, <2>3, <2>4 DEF Shows
<1> QED
  BY <1>6, <1>7, <1>8 DEF AllSound

-----------------------------------------------------------------------------
(* The theorems.                                                           *)

\* Only a save that is stored, or somebody else, adds a revision.
LEMMA PublishedByCommit ==
  ASSUME TypeOK, Next, NEW c \in Call, Publishes(c)
  PROVE  Commit(c)
<1>0. op[c].at = "post" /\ op'[c].at = "stored" /\ revs' # revs
  BY DEF Publishes, At
<1>1. ASSUME NEW a \in Page, User(a) PROVE FALSE
  <2>1. UNCHANGED revs
    BY <1>1 DEF User, Open, OpenMatcher, Edit, Click, ClickTab, ClickLog, ClickRemove, ClickRule,
                ClickGroup, ClickKey, ClickModel, ClickSettings
  <2> QED
    BY <1>0, <2>1
<1>2. ASSUME NEW d \in Call, Step(d) PROVE Commit(c)
  <2>1. Commit(d) \/ UNCHANGED revs
    BY <1>2 DEF Step, Answer, Merge, Fails, AnswerLost, Succeeds, LoadFails, Loads, LoadsGroups, GiveUp
  <2>2. CASE Commit(d)
    <3>1. ASSUME d # c PROVE op'[c] = op[c]
      BY <2>2, <3>1 DEF Commit, TypeOK
    <3> QED
      BY <1>0, <2>2, <3>1
  <2> QED
    BY <1>0, <2>1, <2>2
<1>3. ~Elsewhere
  BY <1>0 DEF Elsewhere
<1> QED
  BY <1>1, <1>2, <1>3 DEF Next

\* What is stored is current since the click but for the save's own keys.
LEMMA CommitIsFresh ==
  ASSUME TypeOK, AllSound, NEW c \in Call, Commit(c)
  PROVE  /\ \A k \in Key \ (Own(op[c]) \cup Rebuilt(op[c])) : revs'[Len(revs')][k] \in Seen(op[c], k)
         /\ op[c].kind = "rule" =>
              /\ op[c].name # NoName => \E v \in Seen(op[c], Rule(op[c].name)) : v # 0
              /\ op[c].to # op[c].name => 0 \in Seen(op[c], Rule(op[c].to))
<1>1. /\ op[c].at = "post" /\ op[c] \in OpRecord /\ Good(op[c])
      /\ Stored(op[c]) \in Document /\ Len(revs) < MaxRev
      /\ revs' = Append(revs, Stored(op[c]))
  BY CommitEffect
<1>2. revs'[Len(revs')] = Stored(op[c])
  BY <1>1, Appended
<1>3. Fresh(op[c]) /\ op[c].since \in 1..Len(revs)
  BY <1>1 DEF Good
<1>4. ASSUME NEW k \in Key \ (Own(op[c]) \cup Rebuilt(op[c]))
      PROVE  Stored(op[c])[k] \in Seen(op[c], k)
  <2>1. CASE op[c].kind = "key"
    <3>1. k # S("aikey")
      BY <1>1, <2>1 DEF Good, Fit, Own
    <3>2. PICK fresh \in Document : fresh = doc /\ fresh = revs[Len(revs)]
      BY CurrentType
    <3>3. Stored(op[c]) = [fresh EXCEPT ![S("aikey")] = op[c].val]
      BY <2>1, <3>2 DEF Stored
    <3>4. Stored(op[c])[k] = fresh[k]
      BY <3>1, <3>3 DEF Document
    <3>5. Len(revs) \in op[c].since..Len(revs)
      BY <1>3, CurrentType
    <3> QED
      BY <3>2, <3>4, <3>5 DEF Seen
  <2>2. CASE op[c].kind # "key"
    BY <1>3, <2>2 DEF Stored, Fresh
  <2> QED
    BY <2>1, <2>2
<1> QED
  BY <1>2, <1>3, <1>4 DEF Fresh

LEMMA SoundShows ==
  ASSUME TypeOK, AllSound
  PROVE  PagesShowARevision
<1> SUFFICES ASSUME NEW a \in Page, NEW part \in {Config(view[a]), {S("group")} \cap Shown(view[a])}
             PROVE  \E r \in 1..Len(revs) : \A k \in part \ dirty[a] : form[a][k] = revs[r][k]
  BY DEF PagesShowARevision
<1>1. (\E r \in 1..Len(revs) : Matches(a, r)) /\ Groups(a)
  BY DEF AllSound, Shows
<1>2. CASE part = Config(view[a])
  BY <1>1, <1>2 DEF Matches
<1>3. CASE part = {S("group")} \cap Shown(view[a])
  <2>1. CASE S("group") \in Shown(view[a]) \ dirty[a]
    BY <1>1, <1>3, <2>1 DEF Groups
  <2>2. CASE S("group") \notin Shown(view[a]) \ dirty[a]
    BY <1>1, <1>3, <2>2
  <2> QED
    BY <2>1, <2>2
<1> QED
  BY <1>2, <1>3

\* Every stored, read, shown and posted document is a whole document, however
\* the pages' saves and loads overlap.
THEOREM TypeCorrect == Spec => []TypeOK
<1>1. Init => TypeOK /\ AllSound
  BY InitSound
<1>2. TypeOK /\ AllSound /\ [Next]_vars => TypeOK' /\ AllSound'
  BY NextKeeps DEF Keeps
<1> QED
  BY <1>1, <1>2, PTL DEF Spec

\* The inductive invariant, of which the other theorems are consequences.
THEOREM Soundness == Spec => [](TypeOK /\ AllSound)
<1>1. Init => TypeOK /\ AllSound
  BY InitSound
<1>2. (TypeOK /\ AllSound) /\ [Next]_vars => (TypeOK /\ AllSound)'
  BY NextKeeps DEF Keeps
<1> QED
  BY <1>1, <1>2, PTL DEF Spec

\* Outside its edits a page shows one stored document, and the IP groups of
\* one: loads, failed saves and switches that went back leave no mixture
\* (Policy.vue:590-663, Settings.vue:1111-1234).
THEOREM PageIsARevision == Spec => []PagesShowARevision
<1>1. TypeOK /\ AllSound => PagesShowARevision
  BY SoundShows
<1> QED
  BY <1>1, Soundness, PTL

\* No save publishes, outside its own keys and the blocks the settings form
\* builds anew, anything that was not current since its click.
THEOREM NothingStaleIsSaved == Spec => SavesCarryNothingStale
<1>1. TypeOK /\ AllSound /\ [Next]_vars =>
        [\A c \in Call : Publishes(c) =>
           \A k \in Key \ (Own(op[c]) \cup Rebuilt(op[c])) :
             revs'[Len(revs')][k] \in Seen(op[c], k)]_vars
  <2> SUFFICES ASSUME TypeOK, AllSound, Next, NEW c \in Call, Publishes(c),
                      NEW k \in Key \ (Own(op[c]) \cup Rebuilt(op[c]))
               PROVE  revs'[Len(revs')][k] \in Seen(op[c], k)
    OBVIOUS
  <2>1. Commit(c)
    BY PublishedByCommit
  <2> QED
    BY <2>1, CommitIsFresh
<1>2. Init => TypeOK /\ AllSound
  BY InitSound
<1>3. (TypeOK /\ AllSound) /\ [Next]_vars => (TypeOK /\ AllSound)'
  BY NextKeeps DEF Keeps
<1> QED
  BY <1>1, <1>2, <1>3, PTL DEF Spec, SavesCarryNothingStale

\* A rule that a save of the dialog replaces was stored, and a name it gives
\* was free, at some moment since the click.
THEOREM RuleIsFound == Spec => RuleSavesFindTheirRule
<1>1. TypeOK /\ AllSound /\ [Next]_vars =>
        [\A c \in Call : Publishes(c) /\ op[c].kind = "rule" =>
           /\ op[c].name # NoName => \E v \in Seen(op[c], Rule(op[c].name)) : v # 0
           /\ op[c].to # op[c].name => 0 \in Seen(op[c], Rule(op[c].to))]_vars
  <2> SUFFICES ASSUME TypeOK, AllSound, Next, NEW c \in Call, Publishes(c), op[c].kind = "rule"
               PROVE  /\ op[c].name # NoName => \E v \in Seen(op[c], Rule(op[c].name)) : v # 0
                      /\ op[c].to # op[c].name => 0 \in Seen(op[c], Rule(op[c].to))
    OBVIOUS
  <2>1. Commit(c)
    BY PublishedByCommit
  <2> QED
    BY <2>1, CommitIsFresh
<1>2. Init => TypeOK /\ AllSound
  BY InitSound
<1>3. (TypeOK /\ AllSound) /\ [Next]_vars => (TypeOK /\ AllSound)'
  BY NextKeeps DEF Keeps
<1> QED
  BY <1>1, <1>2, <1>3, PTL DEF Spec, RuleSavesFindTheirRule
=============================================================================
