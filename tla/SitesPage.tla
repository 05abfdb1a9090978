----------------------------- MODULE SitesPage ------------------------------
(***************************************************************************)
(* The sites page (Sites.vue): a draft of the whole configuration in a     *)
(* form, a drawer that edits one site, and five ways to publish: the whole *)
(* draft, the site in the drawer, the on/off switch of a site, and two     *)
(* rollbacks.  After each of them, and when it is mounted, the page loads  *)
(* itself again with two requests in a row, one for the document and one   *)
(* for the list of revisions.  The page stays usable all the while, so a   *)
(* load of an earlier save may answer over a later edit.                   *)
(*                                                                         *)
(* A document is the sequence of its sites, and whether it has a contact   *)
(* address for certificates, which stands for the keys the server leaves   *)
(* out when they are empty.  Of a site three things are                    *)
(* kept: its domain, whether it is disabled, and whether it has settings   *)
(* of its own, as a site's detection categories are.  A site is            *)
(* reached by its position in the form, by its domain on the server.       *)
(***************************************************************************)
EXTENDS Naturals, Sequences, SequencesExt, FiniteSets

CONSTANTS
  Domain,
  MaxRev,     \* bound on the revisions
  MaxEdits,   \* bound on the edits in the form and the drawer
  MaxLoads    \* bound on the loads under way at once

ASSUME SitesAssumption ==
  MaxRev \in Nat \ {0} /\ MaxEdits \in Nat /\ MaxLoads \in Nat \ {0}

VARIABLES
  revs,     \* the documents the server has stored; the last is current
  form,     \* the draft, a document
  rev,      \* the revision the page says it shows, 0 before the first load
  listed,   \* how many revisions the page's history lists
  dirty,    \* the page says "unpublished changes", else "revision published"
  drawer,   \* editIndex: the position the drawer edits, or New
  edit,     \* the site in the drawer, if it is open
  op,       \* the save under way
  reading,  \* loads that wait for the document
  listing,  \* loads that wait for the list of revisions
  edits     \* edits so far (a bound)

sitesVars == <<revs, form, rev, listed, dirty, drawer, edit, op, reading, listing, edits>>

Site == [dom : Domain, off : BOOLEAN, own : BOOLEAN]
Fresh(d) == [dom |-> d, off |-> FALSE, own |-> FALSE]
New == 0
Empty == [sites |-> <<>>, mail |-> FALSE]
NoOp == [kind |-> "none", at |-> "idle", doc |-> Empty, site |-> {}, before |-> <<>>]

doc == revs[Len(revs)]
Idle == op.kind = "none"
\* The sites the server may have at first: one, or two of which one has settings
\* of its own.
Start ==
  {<<Fresh(d)>> : d \in Domain}
    \cup {<<Fresh(p[1]), [Fresh(p[2]) EXCEPT !.own = TRUE]>> :
            p \in {p \in Domain \X Domain : p[1] # p[2]}}
Doms(sites) == {sites[i].dom : i \in DOMAIN sites}

\* What another administrator may make of the document.
Neighbours(sites) ==
  {RemoveAt(sites, i) : i \in DOMAIN sites}
    \cup {[sites EXCEPT ![i].own = ~@] : i \in DOMAIN sites}
    \cup {Append(sites, Fresh(d)) : d \in Domain \ Doms(sites)}
Elsewhere(d) ==
  {[d EXCEPT !.sites = t] : t \in Neighbours(d.sites)} \cup {[d EXCEPT !.mail = ~@]}

SitesInit ==
  /\ \E t \in Start : revs = <<[sites |-> t, mail |-> TRUE]>>
  /\ form = Empty /\ rev = 0 /\ listed = 0 /\ dirty = FALSE
  /\ drawer = New /\ edit = {} /\ op = NoOp
  /\ reading = 1 /\ listing = 0 /\ edits = 0

\* The page is edited at any time.  The drawer and the confirmations lie over it.
OnPage == edit = {}
MayEdit == edits < MaxEdits

-----------------------------------------------------------------------------
(* Loading.                                                                *)

\* Object.assign: what the document does not have survives in the draft.
Merged(d) == [d EXCEPT !.mail = @ \/ form.mail]

\* GET /api/config: the document is merged into the draft at once.
ConfigAnswered ==
  /\ reading > 0
  /\ form' = Merged(doc) /\ rev' = Len(revs)
  /\ reading' = reading - 1 /\ listing' = listing + 1
  /\ UNCHANGED <<revs, listed, dirty, drawer, edit, op, edits>>

\* GET /api/revisions, and only then is the page clean.
RevisionsAnswered ==
  /\ listing > 0
  /\ listed' = Len(revs) /\ dirty' = FALSE
  /\ listing' = listing - 1
  /\ UNCHANGED <<revs, form, rev, drawer, edit, op, reading, edits>>

\* Either request fails, and the load with it.
LoadFails ==
  /\ \/ reading > 0 /\ reading' = reading - 1 /\ UNCHANGED listing
     \/ listing > 0 /\ listing' = listing - 1 /\ UNCHANGED reading
  /\ UNCHANGED <<revs, form, rev, listed, dirty, drawer, edit, op, edits>>

-----------------------------------------------------------------------------
(* The draft.                                                              *)

\* A switch of a site: a module of its own, or the categories that leave and
\* return to the defaults of the policy.
Switched(site) == [site EXCEPT !.own = ~@]

Draft(f) ==
  /\ OnPage /\ MayEdit /\ form' = f /\ dirty' = TRUE /\ edits' = edits + 1
  /\ UNCHANGED <<revs, rev, listed, drawer, edit, op, reading, listing>>

\* The panel of the selected site.
EditSite(i) ==
  i \in DOMAIN form.sites /\ Draft([form EXCEPT !.sites[i] = Switched(@)])

\* A site is deleted from the draft, after a confirmation.
RemoveSite(i) ==
  i \in DOMAIN form.sites /\ Draft([form EXCEPT !.sites = RemoveAt(@, i)])

\* The address in the toolbar.
EditMail == Draft([form EXCEPT !.mail = ~@])

\* The drawer opens on a site, or on a new one, and the fields are typed in.
\* It has no field for the on/off switch.
OpenEdit(i, d) ==
  /\ OnPage /\ i \in DOMAIN form.sites \cup {New}
  /\ i # New => d = form.sites[i].dom
  /\ drawer' = i /\ edit' = {d}
  /\ UNCHANGED <<revs, form, rev, listed, dirty, op, reading, listing, edits>>

Cancel ==
  /\ edit # {} /\ edit' = {}
  /\ UNCHANGED <<revs, form, rev, listed, dirty, drawer, op, reading, listing, edits>>

Begin(o) == Idle /\ Len(revs) < MaxRev /\ op' = o

\* "Save to the configuration", the draft only, and "save and publish this
\* site", which keeps the sites of before.  applyEdit reads the domains, then
\* asks for the listeners of the server.
SaveDrawer(kind, d) ==
  /\ MayEdit /\ edit = {d}
  /\ Begin([NoOp EXCEPT !.kind = kind, !.at = "check", !.site = {Fresh(d)}, !.before = form.sites])
  /\ edits' = edits + 1
  /\ UNCHANGED <<revs, form, rev, listed, dirty, drawer, edit, reading, listing>>

\* The site applyEdit builds: the categories of the site at that position are
\* carried over, nothing else is.
Built(d) ==
  [Fresh(d) EXCEPT !.own = IF drawer \in DOMAIN form.sites THEN form.sites[drawer].own ELSE FALSE]

\* The listeners are answered.  The position and the draft are those of now;
\* the site is written to the draft, if nothing is wrong with it, and posted
\* alone if it is to be published.  (The hole that a position further out
\* leaves in the list is not modelled.)
DrawerChecked(d) ==
  /\ op.at = "check" /\ op.site = {Fresh(d)} /\ drawer <= Len(form.sites) + 1
  /\ form' = [form EXCEPT !.sites = IF drawer \in DOMAIN @ THEN [@ EXCEPT ![drawer] = Built(d)]
                                   ELSE Append(@, Built(d))]
  /\ op' = IF op.kind = "apply" THEN NoOp ELSE [op EXCEPT !.at = "post", !.site = {Built(d)}]
  /\ edit' = {} /\ dirty' = TRUE
  /\ UNCHANGED <<revs, rev, listed, drawer, reading, listing, edits>>

\* A listener is missing, or a field is wrong.
DrawerRefused ==
  /\ op.at = "check" /\ op' = NoOp
  /\ UNCHANGED <<revs, form, rev, listed, dirty, drawer, edit, reading, listing, edits>>

-----------------------------------------------------------------------------
(* Publishing.                                                             *)

\* "Publish": the draft, or the text typed in JSON mode, which no flag tells of,
\* with the address of the toolbar.
Publish ==
  /\ OnPage
  /\ \E t \in {form.sites} \cup Neighbours(form.sites) :
       Begin([NoOp EXCEPT !.kind = "all", !.at = "post", !.doc = [form EXCEPT !.sites = t]])
  /\ UNCHANGED <<revs, form, rev, listed, dirty, drawer, edit, reading, listing, edits>>

\* The switch of a site in the list publishes the site, draft and all.
ToggleSite(i) ==
  /\ OnPage /\ i \in DOMAIN form.sites
  /\ Begin([NoOp EXCEPT !.kind = "toggle", !.at = "post",
                        !.site = {[form.sites[i] EXCEPT !.off = ~@]}])
  /\ UNCHANGED <<revs, form, rev, listed, dirty, drawer, edit, reading, listing, edits>>

\* Both rollbacks name a revision of the page's own list: the second newest
\* there, or one picked from the table.
Rollback(r) ==
  /\ OnPage /\ r \in 1..listed
  /\ Begin([NoOp EXCEPT !.kind = "rollback", !.at = "post", !.doc = revs[r]])
  /\ UNCHANGED <<revs, form, rev, listed, dirty, drawer, edit, reading, listing, edits>>

\* Center.PublishSite replaces the site of that domain, or adds it.  (Two
\* publishes at once are the subject of ConfigCenter; here one is a step.)
Upsert(d, s) ==
  [d EXCEPT !.sites =
     IF s.dom \in Doms(@) THEN [i \in DOMAIN @ |-> IF @[i].dom = s.dom THEN s ELSE @[i]]
     ELSE Append(@, s)]
\* Mutant: a site is published with the draft around it.
PostedDraft == IF op.site = {} THEN op.doc ELSE Upsert(form, CHOOSE s \in op.site : TRUE)
Posted == IF op.site = {} THEN op.doc ELSE Upsert(doc, CHOOSE s \in op.site : TRUE)

\* Validate refuses a domain of two sites; a document without sites is fine.
Valid(d) == Cardinality(Doms(d.sites)) = Len(d.sites)

Commit ==
  /\ op.at = "post" /\ Valid(Posted) /\ Len(revs) < MaxRev
  /\ Posted # doc \/ op.kind = "rollback"
  /\ revs' = Append(revs, Posted)
  /\ op' = [op EXCEPT !.at = "stored"]
  /\ UNCHANGED <<form, rev, listed, dirty, drawer, edit, reading, listing, edits>>

StartLoad == reading + listing < MaxLoads /\ reading' = reading + 1 /\ UNCHANGED listing

\* The answer arrives, and the page loads.
SaveAnswered ==
  /\ op.at = "stored" /\ op' = NoOp /\ StartLoad
  /\ UNCHANGED <<revs, form, rev, listed, dirty, drawer, edit, edits>>

\* "No changes": the whole-draft publish loads, too.
NoChanges ==
  /\ op.at = "post" /\ op.kind = "all" /\ Posted = doc
  /\ op' = NoOp /\ StartLoad
  /\ UNCHANGED <<revs, form, rev, listed, dirty, drawer, edit, edits>>

\* The save is refused, or it or its answer is lost: a site publish puts the
\* draft back to what it was before.
Failed ==
  /\ op.at \in {"post", "stored"} /\ op' = NoOp
  /\ form' = IF op.kind = "site" THEN [form EXCEPT !.sites = op.before] ELSE form
  /\ UNCHANGED <<revs, rev, listed, dirty, drawer, edit, reading, listing, edits>>

\* Another administrator publishes.
PublishElsewhere ==
  /\ Len(revs) < MaxRev
  /\ \E d \in Elsewhere(doc) : Valid(d) /\ revs' = Append(revs, d)
  /\ UNCHANGED <<form, rev, listed, dirty, drawer, edit, op, reading, listing, edits>>

SitesNext ==
  \/ ConfigAnswered \/ RevisionsAnswered \/ LoadFails
  \/ \E i \in 1..Len(form.sites) : EditSite(i) \/ RemoveSite(i) \/ ToggleSite(i)
  \/ \E i \in 0..Len(form.sites), d \in Domain : OpenEdit(i, d)
  \/ \E d \in Domain : SaveDrawer("apply", d) \/ SaveDrawer("site", d) \/ DrawerChecked(d)
  \/ EditMail \/ Cancel \/ DrawerRefused
  \/ Publish \/ (\E r \in 1..listed : Rollback(r))
  \/ Commit \/ SaveAnswered \/ NoChanges \/ Failed \/ PublishElsewhere

SitesSpec == SitesInit /\ [][SitesNext]_sitesVars

-----------------------------------------------------------------------------
\* Type correctness; no stored document has a domain twice.
SitesTypeOK ==
  /\ \A r \in 1..Len(revs) :
       /\ revs[r].sites \in Seq(Site) /\ revs[r].mail \in BOOLEAN
       /\ \A i, j \in DOMAIN revs[r].sites :
            revs[r].sites[i].dom = revs[r].sites[j].dom => i = j
  /\ Len(revs) \in 1..MaxRev
  /\ form.sites \in Seq(Site) /\ rev \in 0..Len(revs) /\ listed \in 0..Len(revs)
  /\ dirty \in BOOLEAN
  /\ drawer \in Nat /\ edit \subseteq Domain
  /\ op.kind \in {"none", "all", "apply", "site", "toggle", "rollback"}
  /\ op.at \in {"idle", "check", "post", "stored"} /\ op.site \subseteq Site
  /\ reading + listing \in 0..MaxLoads /\ edits \in 0..MaxEdits

\* The other sites and their order: each with itself and those that follow it.
Others(sites, s) ==
  LET Rest == {i \in DOMAIN sites : sites[i].dom # s.dom}
  IN  {<<sites[p[1]], sites[p[2]]>> : p \in {p \in Rest \X Rest : p[1] <= p[2]}}

\* What a site's own publish stores differs from the document before it in
\* that site only: nothing of the draft of another site, or of the toolbar,
\* goes with it, whatever the page has loaded, edited or missed
\* (Sites.vue:638, 952).
SitePublishSparesOthers ==
  [][\A s \in op.site :
       op.at = "post" /\ op'.at = "stored" =>
         /\ Others(doc.sites, s) = Others(doc'.sites, s)
         /\ doc.mail = doc'.mail]_sitesVars

\* What two comments say of the page, and the code does not do.  After a site
\* publish that failed, a page that says "published" shows the revision it
\* names, "so the stale entry is not mistaken for live config"
\* (Sites.vue:958); a load may have ended while the save was under way.
FailedSaveIsNotMistaken ==
  [][Failed /\ op.kind = "site" /\ ~dirty' => rev # 0 /\ form'.sites = revs[rev].sites]_sitesVars

\* The drawer of an existing site hands on that site's categories
\* (Sites.vue:891-892); by now its position may be that of another site.
DrawerKeepsCategories ==
  [][\A s \in op'.site, i \in DOMAIN form.sites :
       op.at = "check" /\ op'.at = "post" /\ drawer # New /\ form.sites[i].dom = s.dom
         => s.own = form.sites[i].own]_sitesVars
=============================================================================
