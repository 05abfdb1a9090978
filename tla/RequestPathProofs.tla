-------------------------- MODULE RequestPathProofs ---------------------------
(***************************************************************************)
(* Theorems about RequestPath: any sites, clients, configurations and      *)
(* requests, any overlap of requests and reloads, any penalty settings.    *)
(***************************************************************************)
EXTENDS RequestPath, TLAPS, FiniteSetTheorems, WellFoundedInduction

USE RequestPathAssumption

-----------------------------------------------------------------------------
(* The configurations.                                                     *)

LEMMA Settings ==
  /\ Window \in Nat /\ Window > 0 /\ Ban \in Nat /\ Ban > 0
  /\ MaxClock \in Nat /\ MaxClock > 0 /\ MaxRequests \in Nat /\ MaxBuilds \in Nat
OBVIOUS

LEMMA DocType ==
  ASSUME NEW rev \in Revision
  PROVE  /\ Content[rev] \in PolicyDocument
         /\ Content[rev].penalty.threshold \in Nat /\ Content[rev].penalty.threshold > 0
         /\ Content[rev].matchers \in Seq(Rule)
BY DEF PolicyDocument

LEMMA StagesShape ==
  ASSUME NEW rev \in Revision
  PROVE  /\ DOMAIN Stages[rev] = 1..10 /\ Len(Stages[rev]) = 10
         /\ Stages[rev][1] = "acl" /\ Stages[rev][2] = "penalty" /\ Stages[rev][3] = "geo"
         /\ Stages[rev][4] = "exceptions" /\ Stages[rev][5] = "matcher"
         /\ Stages[rev][6] = "botdetect" /\ Stages[rev][7] \in {"captcha", "bot"}
         /\ Stages[rev][8] = "ratelimit" /\ Stages[rev][9] = "semantic" /\ Stages[rev][10] = "coraza"
<1> DEFINE x == IF CaptchaEnabled(Content[rev]) THEN "captcha" ELSE "bot"
<1>1. Stages[rev] = <<"acl", "penalty", "geo", "exceptions", "matcher", "botdetect", x,
                      "ratelimit", "semantic", "coraza">>
  BY DEF Stages
<1>2. x \in {"captcha", "bot"}
  OBVIOUS
<1> HIDE DEF x
<1> QED
  BY <1>1, <1>2

\* Where a stage stands.
LEMMA StagePlace ==
  ASSUME NEW rev \in Revision, NEW i \in 1..10
  PROVE  /\ Stages[rev][i] = "acl" <=> i = 1
         /\ Stages[rev][i] = "penalty" <=> i = 2
         /\ Stages[rev][i] = "geo" <=> i = 3
         /\ Stages[rev][i] = "exceptions" <=> i = 4
         /\ Stages[rev][i] = "matcher" <=> i = 5
         /\ Stages[rev][i] \in Detectors <=> i \in {6, 9, 10}
         /\ Stages[rev][i] \in Refusers
<1> DEFINE p == Stages[rev]
<1>1. i \in {1, 2, 3, 4, 5, 6, 7, 8, 9, 10}
  OBVIOUS
<1>2. /\ p[1] = "acl" /\ p[2] = "penalty" /\ p[3] = "geo" /\ p[4] = "exceptions" /\ p[5] = "matcher"
      /\ p[6] = "botdetect" /\ p[7] \in {"captcha", "bot"} /\ p[8] = "ratelimit" /\ p[9] = "semantic"
      /\ p[10] = "coraza"
  BY StagesShape
<1> HIDE DEF p
<1>3. /\ p[i] = "acl" <=> i = 1
      /\ p[i] = "penalty" <=> i = 2
      /\ p[i] = "geo" <=> i = 3
      /\ p[i] = "exceptions" <=> i = 4
      /\ p[i] = "matcher" <=> i = 5
  BY <1>1, <1>2
<1>4. p[i] \in Detectors <=> i \in {6, 9, 10}
  BY <1>1, <1>2 DEF Detectors
<1>5. p[i] \in Refusers
  BY <1>1, <1>2 DEF Refusers
<1> QED
  BY <1>3, <1>4, <1>5 DEF p

\* A rule that a request hits has a first one.
LEMMA FirstHitType ==
  ASSUME NEW rev \in Revision, NEW host, NEW kind, Hits(Content[rev], host, kind) # {}
  PROVE  /\ FirstHit(Content[rev], host, kind) \in Hits(Content[rev], host, kind)
         /\ FirstHit(Content[rev], host, kind) \in Nat
         /\ FirstHit(Content[rev], host, kind) \in DOMAIN Content[rev].matchers
         /\ Content[rev].matchers[FirstHit(Content[rev], host, kind)] \in Rule
<1> DEFINE H == Hits(Content[rev], host, kind)
           doc == Content[rev]
<1>1. doc.matchers \in Seq(Rule)
  BY DocType
<1>2. H \subseteq DOMAIN doc.matchers
  BY DEF Hits
<1>3. DOMAIN doc.matchers \subseteq Nat /\ \A i \in DOMAIN doc.matchers : doc.matchers[i] \in Rule
  BY <1>1
<1> HIDE DEF H
<1>4. \E i \in H : \A j \in H : i <= j
  <2>1. IsWellFoundedOn(OpToRel(<, Nat), Nat)
    BY NatLessThanWellFounded
  <2>2. PICK i \in H : \A j \in H : ~(<<j, i>> \in OpToRel(<, Nat))
    BY <1>2, <1>3, <2>1, WFMin DEF H
  <2>3. \A j \in H : ~(j < i)
    BY <1>2, <1>3, <2>2 DEF OpToRel
  <2> QED
    BY <1>2, <1>3, <2>3
<1>5. FirstHit(doc, host, kind) \in H
  BY <1>4 DEF FirstHit, H
<1> QED
  BY <1>2, <1>3, <1>5 DEF H

-----------------------------------------------------------------------------
(* The penalty manager.                                                    *)

Windows == [start : 0..MaxClock, n : Nat]

LEMMA CountedType ==
  ASSUME clock \in 1..MaxClock, NEW w \in Windows, NEW span
  PROVE  /\ Counted(w, span) \in Windows /\ NoWindow \in Windows /\ Counted(w, span).n > 0
         /\ \/ Counted(w, span).start = clock /\ Counted(w, span).n = 1
            \/ /\ ~(clock - w.start >= span) /\ Counted(w, span).start = w.start
               /\ Counted(w, span).n = w.n + 1
<1>1. w.n \in Nat /\ w.start \in 0..MaxClock
  BY DEF Windows
<1>2. [start |-> clock, n |-> 1] \in Windows /\ [w EXCEPT !.n = @ + 1] \in Windows /\ NoWindow \in Windows
      /\ [w EXCEPT !.n = @ + 1].n = w.n + 1 /\ [w EXCEPT !.n = @ + 1].start = w.start
  BY <1>1, Settings DEF Windows, NoWindow
<1> QED
  BY <1>1, <1>2 DEF Counted

LEMMA SnapshotType ==
  ASSUME NEW s \in Snapshots
  PROVE  /\ s.rev \in Revision /\ s.off \in SUBSET (Site \X Disableable)
         /\ s.counts \in [Client -> Windows] /\ s.bans \in [Client -> Tick0]
         /\ \A c \in Client : s.counts[c] \in Windows /\ s.bans[c] \in Nat
         /\ Doc(s) = Content[s.rev]
         /\ Doc(s).penalty.threshold \in Nat /\ Doc(s).penalty.threshold > 0
<1>1. s.rev \in Revision /\ s.off \in SUBSET (Site \X Disableable)
      /\ s.counts \in [Client -> Windows] /\ s.bans \in [Client -> Tick0]
  BY DEF Snapshots, Windows
<1>2. \A t \in Tick0 : t \in Nat
  BY Settings DEF Tick0
<1> QED
  BY <1>1, <1>2, DocType DEF Doc

\* Observe: one client's window or ban.
LEMMA ObservedEffect ==
  ASSUME clock \in 1..MaxClock, NEW s \in Snapshots, NEW c \in Client
  PROVE  /\ Observed(s, c) \in Snapshots /\ Observed(s, c).rev = s.rev /\ Observed(s, c).off = s.off
         /\ \A d \in Client \ {c} : Observed(s, c).counts[d] = s.counts[d]
                                    /\ Observed(s, c).bans[d] = s.bans[d]
         /\ \/ Observed(s, c) = s /\ Doc(s).penalty.mode = "off"
            \/ /\ Observed(s, c).counts[c] = Counted(s.counts[c], Window)
               /\ Counted(s.counts[c], Window).n < Doc(s).penalty.threshold
               /\ Observed(s, c).bans[c] = s.bans[c]
            \/ /\ Observed(s, c).counts[c] = NoWindow /\ Observed(s, c).bans[c] = clock + Ban
               /\ ~(Counted(s.counts[c], Window).n < Doc(s).penalty.threshold)
<1> DEFINE w == Counted(s.counts[c], Window)
           n == NoWindow
           t == clock + Ban
<1>1. w \in Windows /\ n \in Windows
  BY SnapshotType, CountedType
<1>2. t \in Tick0
  BY Settings DEF Tick0
<1>3. /\ s.counts \in [Client -> Windows] /\ s.bans \in [Client -> Tick0]
  BY SnapshotType
<1>4. \/ Observed(s, c) = s /\ Doc(s).penalty.mode = "off"
      \/ w.n < Doc(s).penalty.threshold /\ Observed(s, c) = [s EXCEPT !.counts[c] = w]
      \/ ~(w.n < Doc(s).penalty.threshold)
         /\ Observed(s, c) = [s EXCEPT !.counts[c] = n, !.bans[c] = t]
  BY DEF Observed, Cleared
<1> HIDE DEF w, n, t
<1>5. CASE Observed(s, c) = s /\ Doc(s).penalty.mode = "off"
  BY <1>5
<1>6. CASE w.n < Doc(s).penalty.threshold /\ Observed(s, c) = [s EXCEPT !.counts[c] = w]
  <2>1. [s.counts EXCEPT ![c] = w] \in [Client -> Windows]
    BY <1>1, <1>3
  <2>2. Observed(s, c) = [s EXCEPT !.counts = [s.counts EXCEPT ![c] = w]]
    BY <1>6 DEF Snapshots
  <2>3. /\ Observed(s, c) \in Snapshots /\ Observed(s, c).rev = s.rev /\ Observed(s, c).off = s.off
        /\ Observed(s, c).counts = [s.counts EXCEPT ![c] = w] /\ Observed(s, c).bans = s.bans
    BY <2>1, <2>2 DEF Snapshots, Windows
  <2> QED
    BY <1>3, <1>6, <2>3 DEF w
<1>7. CASE ~(w.n < Doc(s).penalty.threshold)
           /\ Observed(s, c) = [s EXCEPT !.counts[c] = n, !.bans[c] = t]
  <2>1. [s.counts EXCEPT ![c] = n] \in [Client -> Windows] /\ [s.bans EXCEPT ![c] = t] \in [Client -> Tick0]
    BY <1>1, <1>2, <1>3
  <2>2. Observed(s, c) = [s EXCEPT !.counts = [s.counts EXCEPT ![c] = n], !.bans = [s.bans EXCEPT ![c] = t]]
    BY <1>7 DEF Snapshots
  <2>3. /\ Observed(s, c) \in Snapshots /\ Observed(s, c).rev = s.rev /\ Observed(s, c).off = s.off
        /\ Observed(s, c).counts = [s.counts EXCEPT ![c] = n]
        /\ Observed(s, c).bans = [s.bans EXCEPT ![c] = t]
    BY <2>1, <2>2 DEF Snapshots, Windows
  <2> QED
    BY <1>3, <1>7, <2>3 DEF w, n, t
<1> QED
  BY <1>4, <1>5, <1>6, <1>7

\* Check: an expired ban goes; only in throttle mode is anything counted.
LEMMA CheckedEffect ==
  ASSUME clock \in 1..MaxClock, NEW s \in Snapshots, NEW c \in Client
  PROVE  /\ Checked(s, c) \in Snapshots /\ Checked(s, c).rev = s.rev /\ Checked(s, c).off = s.off
         /\ \A d \in Client \ {c} : Checked(s, c).bans[d] = s.bans[d]
         /\ Checked(s, c).bans[c] = s.bans[c] \/ (Checked(s, c).bans[c] = 0 /\ clock > s.bans[c])
         /\ Doc(s).penalty.mode # "throttle" => Checked(s, c).counts = s.counts
<1> DEFINE w == Counted(s.counts[c], Minute)
           z == 0
<1>1. w \in Windows
  BY SnapshotType, CountedType
<1>2. z \in Tick0
  BY Settings DEF Tick0
<1>3. s.counts \in [Client -> Windows] /\ s.bans \in [Client -> Tick0]
  BY SnapshotType
<1>4. \/ Expired(s, c) /\ Checked(s, c) = [s EXCEPT !.bans[c] = z]
      \/ Doc(s).penalty.mode = "throttle" /\ Checked(s, c) = [s EXCEPT !.counts[c] = w]
      \/ Checked(s, c) = s
  BY DEF Checked, Snapshots
<1> HIDE DEF w, z
<1>5. CASE Expired(s, c) /\ Checked(s, c) = [s EXCEPT !.bans[c] = z]
  <2>1. [s.bans EXCEPT ![c] = z] \in [Client -> Tick0]
    BY <1>2, <1>3
  <2>2. Checked(s, c) = [s EXCEPT !.bans = [s.bans EXCEPT ![c] = z]]
    BY <1>5 DEF Snapshots
  <2>3. /\ Checked(s, c) \in Snapshots /\ Checked(s, c).rev = s.rev /\ Checked(s, c).off = s.off
        /\ Checked(s, c).bans = [s.bans EXCEPT ![c] = z] /\ Checked(s, c).counts = s.counts
    BY <2>1, <2>2 DEF Snapshots
  <2> QED
    BY <1>3, <1>5, <2>3 DEF z, Expired
<1>6. CASE Doc(s).penalty.mode = "throttle" /\ Checked(s, c) = [s EXCEPT !.counts[c] = w]
  <2>1. [s.counts EXCEPT ![c] = w] \in [Client -> Windows]
    BY <1>1, <1>3
  <2>2. Checked(s, c) = [s EXCEPT !.counts = [s.counts EXCEPT ![c] = w]]
    BY <1>6 DEF Snapshots
  <2>3. /\ Checked(s, c) \in Snapshots /\ Checked(s, c).rev = s.rev /\ Checked(s, c).off = s.off
        /\ Checked(s, c).bans = s.bans
    BY <2>1, <2>2 DEF Snapshots, Windows
  <2> QED
    BY <1>6, <2>3
<1>7. CASE Checked(s, c) = s
  BY <1>7
<1> QED
  BY <1>4, <1>5, <1>6, <1>7

LEMMA FreshType ==
  ASSUME NEW rev \in Revision
  PROVE  /\ Fresh(rev) \in Snapshots /\ Fresh(rev).rev = rev /\ Fresh(rev).off = {}
         /\ \A c \in Client : Fresh(rev).counts[c] = NoWindow /\ Fresh(rev).bans[c] = 0
<1>1. NoWindow \in Windows /\ 0 \in Tick0
  BY Settings DEF NoWindow, Windows, Tick0
<1> DEFINE n == NoWindow
           z == 0
           cs == [c \in Client |-> n]
           bs == [c \in Client |-> z]
<1>2. cs \in [Client -> Windows] /\ bs \in [Client -> Tick0]
      /\ \A c \in Client : cs[c] = n /\ bs[c] = z
  BY <1>1
<1>3. Fresh(rev) = [rev |-> rev, off |-> {}, counts |-> cs, bans |-> bs]
  BY DEF Fresh
<1> HIDE DEF cs, bs
<1>4. Fresh(rev) \in Snapshots /\ Fresh(rev).rev = rev /\ Fresh(rev).off = {}
      /\ Fresh(rev).counts = cs /\ Fresh(rev).bans = bs
  BY <1>2, <1>3 DEF Snapshots, Windows
<1> QED
  BY <1>2, <1>4

-----------------------------------------------------------------------------
(* The invariant.                                                          *)

\* A detector of an intercepting site let the request by: it denies nothing of the
\* kind, it is switched off or excepted, or the flow is spared.
LetBy(r, st) ==
  st \in Detectors /\ SiteOf(r).intercept /\ ~Spared(r) /\ In(r).kind \in SiteOf(r).denies[st] =>
    \/ <<In(r).host, st>> \in Snap(r).off
    \/ st = "semantic" /\ In(r).kind \in Policy(r).excepted[In(r).host]

\* A request that is inspected has been past every stage before the one it is at.
Vetted(r) ==
  /\ req[r].pc # "idle" => req[r].in \in Input
  /\ req[r].pc = "inspect" \/ (req[r].pc = "decide" /\ req[r].at # 0) =>
       req[r].at >= 1 /\ In(r).host \in Site
  /\ req[r].pc = "inspect" =>
       /\ req[r].trusted => Spared(r)
       /\ \A i \in 1..(req[r].at - 1) : LetBy(r, Pipe(r)[i])
  /\ req[r].pc = "decide" => req[r].at \in 0..10
  /\ req[r].pc = "forward" => \A st \in Detectors : LetBy(r, st)

\* The ban it arrived under is over, or the penalty stage is still ahead, where a ban no
\* shorter waits for it.
HeldOff(r) ==
  /\ req[r].held <= clock + Ban
  /\ req[r].pc = "inspect" /\ Policy(r).penalty.mode = "deny" =>
       \/ req[r].held < clock
       \/ req[r].at <= 2 /\ Snap(r).bans[In(r).client] >= req[r].held

\* What operators have cleared is trusted from the stage that clears it on.
SparedIsTrusted(r) ==
  /\ req[r].pc \in {"inspect", "decide"} /\ req[r].at >= 1 =>
       /\ Whitelisted(Policy(r), In(r).host, In(r).client) =>
            IF req[r].at > 1 THEN req[r].trusted ELSE req[r].pc = "inspect"
       /\ Exempt(Policy(r), In(r).host, In(r).kind) /\ req[r].at > 4 => req[r].trusted
       /\ req[r].pc = "decide" => req[r].at # 4
  /\ req[r].pc = "decide" /\ req[r].at = 0 => Preflight(Policy(r), In(r)) \in PreflightRefusals

Recent(g, c, t) == {i \in Fed(g, c, 0, t) : t - events[i].at < Window}

\* A count is backed by as many events of its window, a ban by `threshold' recent ones.
Earned(g, c) ==
  /\ snaps[g].bans[c] <= clock + Ban
  /\ Doc(snaps[g]).penalty.mode = "deny" =>
       /\ snaps[g].counts[c].start <= clock
       /\ Cardinality(Fed(g, c, snaps[g].counts[c].start, snaps[g].counts[c].start + Window - 1))
            >= snaps[g].counts[c].n
       /\ snaps[g].bans[c] # 0 =>
            Cardinality(Recent(g, c, snaps[g].bans[c] - Ban)) >= Doc(snaps[g]).penalty.threshold

Sound ==
  /\ \A r \in Slot : Vetted(r) /\ HeldOff(r) /\ SparedIsTrusted(r)
  /\ \A g \in DOMAIN snaps, c \in Client : Earned(g, c)
  /\ SparedFlowsNeverFeed /\ OffWasAsked

-----------------------------------------------------------------------------
(* Types.                                                                  *)

Events(builds, now) ==
  [client : Client, host : Site \cup {"unknown"}, kind : Kind, by : Refusers, run : 1..builds,
   under : 1..builds, fed : 0..builds, at : 1..now]
BelowThreshold(s) ==
  Doc(s).penalty.mode = "deny" => \A c \in Client : s.counts[c].n < Doc(s).penalty.threshold

SnapsType == snaps \in Seq(Snapshots) /\ \A g \in DOMAIN snaps : BelowThreshold(snaps[g])
PlaneType == serving \in 1..Len(snaps) /\ Len(snaps) - serving \in 0..1 /\ hook \in 0..Len(snaps)
ReqType   == req \in [Slot -> Requests(Len(snaps))]
ClockType == arrived \in 0..MaxRequests /\ clock \in 1..MaxClock
EventsType == events \in Seq(Events(Len(snaps), clock))

LEMMA TypeParts == TypeOK <=> SnapsType /\ PlaneType /\ ReqType /\ ClockType /\ EventsType
<1>1. snaps \in Seq(Snapshots) => DOMAIN snaps = 1..Len(snaps)
  OBVIOUS
<1> QED
  BY <1>1 DEF TypeOK, SnapsType, PlaneType, ReqType, ClockType, EventsType, Events, BelowThreshold

LEMMA JoinParts ==
  ASSUME SnapsType', PlaneType', ReqType', ClockType', EventsType'
  PROVE  TypeOK'
<1>1. DOMAIN snaps' = 1..Len(snaps')
  BY DEF SnapsType
<1> QED
  BY <1>1 DEF TypeOK, SnapsType, PlaneType, ReqType, ClockType, EventsType, Events, BelowThreshold

\* Snapshots stay what they are built from, and what is off stays off.
SnapsGrow ==
  /\ DOMAIN snaps \subseteq DOMAIN snaps'
  /\ \A g \in DOMAIN snaps : snaps'[g].rev = snaps[g].rev /\ snaps[g].off \subseteq snaps'[g].off

\* One snapshot replaced.
LEMMA SnapSet ==
  ASSUME SnapsType, NEW g \in DOMAIN snaps, NEW s \in Snapshots, BelowThreshold(s),
         s.rev = snaps[g].rev, snaps[g].off \subseteq s.off, snaps' = [snaps EXCEPT ![g] = s]
  PROVE  /\ SnapsType' /\ SnapsGrow /\ Len(snaps') = Len(snaps) /\ DOMAIN snaps' = DOMAIN snaps
         /\ snaps'[g] = s /\ \A h \in DOMAIN snaps \ {g} : snaps'[h] = snaps[h]
<1>1. snaps \in Seq(Snapshots) /\ Len(snaps) \in Nat /\ DOMAIN snaps = 1..Len(snaps)
  BY DEF SnapsType
<1>2. /\ snaps' \in Seq(Snapshots) /\ Len(snaps') = Len(snaps) /\ DOMAIN snaps' = DOMAIN snaps
      /\ snaps'[g] = s /\ \A h \in DOMAIN snaps \ {g} : snaps'[h] = snaps[h]
  BY <1>1
<1>3. \A h \in DOMAIN snaps' : BelowThreshold(snaps'[h])
  BY <1>2 DEF SnapsType
<1>4. SnapsType'
  BY <1>2, <1>3 DEF SnapsType, BelowThreshold, Doc
<1>5. SnapsGrow
  BY <1>1, <1>2 DEF SnapsGrow
<1> QED
  BY <1>2, <1>4, <1>5

\* What the types say of a request.
LEMMA RequestType ==
  ASSUME TypeOK, NEW r \in Slot
  PROVE  /\ req[r] \in Requests(Len(snaps)) /\ req[r].snap \in DOMAIN snaps
         /\ req[r].at \in 0..11 /\ req[r].held \in Nat /\ req[r].trusted \in BOOLEAN
         /\ Snap(r) \in Snapshots /\ Snap(r).rev \in Revision
         /\ Policy(r) = Content[Snap(r).rev] /\ Pipe(r) = Stages[Snap(r).rev]
         /\ Policy(r) \in PolicyDocument
<1>1. SnapsType /\ ReqType
  BY TypeParts
<1>2. req[r] \in Requests(Len(snaps))
  BY <1>1 DEF ReqType
<1>3. /\ req[r].snap \in 1..Len(snaps) /\ req[r].at \in 0..11 /\ req[r].held \in Tick0
      /\ req[r].trusted \in BOOLEAN
  BY <1>2 DEF Requests
<1>4. Snap(r) \in Snapshots /\ req[r].snap \in DOMAIN snaps
  BY <1>1, <1>3 DEF SnapsType, Snap
<1>5. Snap(r).rev \in Revision
  BY <1>4, SnapshotType
<1>6. Policy(r) = Content[Snap(r).rev] /\ Pipe(r) = Stages[Snap(r).rev]
  BY DEF Policy, Doc, Pipe
<1>7. req[r].held \in Nat
  BY <1>3, Settings DEF Tick0
<1> QED
  BY <1>2, <1>3, <1>4, <1>5, <1>6, <1>7, DocType

LEMMA InputType ==
  ASSUME NEW in \in Input
  PROVE  in.client \in Client /\ in.kind \in Kind /\ in.host \in Site \cup {"unknown"}
BY DEF Inputs

\* What a request has, it sees as before while its snapshot and its input stay.
LEMMA SameView ==
  ASSUME TypeOK, SnapsGrow, NEW r \in Slot, req'[r].snap = req[r].snap, req'[r].in = req[r].in
  PROVE  /\ In(r)' = In(r) /\ Policy(r)' = Policy(r) /\ Pipe(r)' = Pipe(r) /\ SiteOf(r)' = SiteOf(r)
         /\ (Spared(r)' <=> Spared(r)) /\ Snap(r).off \subseteq Snap(r)'.off
         /\ \A st : LetBy(r, st) => LetBy(r, st)'
<1>1. req[r].snap \in DOMAIN snaps
  BY RequestType
<1>2. Snap(r)'.rev = Snap(r).rev /\ Snap(r).off \subseteq Snap(r)'.off
  BY <1>1 DEF SnapsGrow, Snap
<1>3. In(r)' = In(r) /\ Policy(r)' = Policy(r) /\ Pipe(r)' = Pipe(r)
  BY <1>2 DEF In, Policy, Doc, Pipe
<1>4. SiteOf(r)' = SiteOf(r)
  BY <1>3 DEF SiteOf
<1>5. Spared(r)' <=> Spared(r)
  BY <1>3 DEF Spared, Whitelisted, Exempt, Allowed, Hits, FirstHit
<1>6. ASSUME NEW st, LetBy(r, st) PROVE LetBy(r, st)'
  BY <1>2, <1>3, <1>4, <1>5, <1>6 DEF LetBy
<1> QED
  BY <1>2, <1>3, <1>4, <1>5, <1>6


-----------------------------------------------------------------------------
(* What a stage does to its request.                                       *)

\* One request changes; it keeps its snapshot, its input and the ban it arrived under.
Moved(r) ==
  /\ req' \in [Slot -> Requests(Len(snaps))]
  /\ \A q \in Slot \ {r} : req'[q] = req[q]
  /\ req'[r].snap = req[r].snap /\ req'[r].in = req[r].in /\ req'[r].held = req[r].held

LEMMA MoveOne ==
  ASSUME ReqType, NEW r \in Slot, NEW new \in Requests(Len(snaps)), req' = [req EXCEPT ![r] = new],
         new.snap = req[r].snap, new.in = req[r].in, new.held = req[r].held
  PROVE  Moved(r) /\ req'[r] = new
BY DEF ReqType, Moved

LEMMA RulesEffect ==
  ASSUME TypeOK, NEW r \in Slot, req[r].pc = "inspect", req[r].at \in 1..10,
         NEW refused \in BOOLEAN, NEW act \in {"deny", "challenge"}, NEW trusted \in BOOLEAN,
         Rules(r, refused, act, trusted)
  PROVE  /\ Moved(r)
         /\ \/ /\ refused /\ req'[r].pc = "decide" /\ req'[r].at = req[r].at
               /\ req'[r].trusted = req[r].trusted
            \/ /\ ~refused /\ req'[r].pc = "inspect" /\ req'[r].at = req[r].at + 1
               /\ req[r].trusted => req'[r].trusted
               /\ trusted => req'[r].trusted
               /\ req'[r].trusted => req[r].trusted \/ trusted
<1>1. ReqType /\ req[r] \in Requests(Len(snaps))
  BY TypeParts, RequestType
<1>2. req[r].at + 1 \in 0..11 /\ req[r].trusted \in BOOLEAN
  <2>1. req[r].at + 1 \in 0..11
    OBVIOUS
  <2> QED
    BY <2>1, RequestType
<1> DEFINE old == req[r]
<1>3. CASE refused /\ Refuse(r, act)
  <2> DEFINE new == [old EXCEPT !.pc = "decide", !.act = act]
  <2>1. /\ new \in Requests(Len(snaps)) /\ new.pc = "decide" /\ new.at = old.at
        /\ new.trusted = old.trusted /\ new.snap = old.snap /\ new.in = old.in /\ new.held = old.held
    BY <1>1 DEF Requests
  <2>2. req' = [req EXCEPT ![r] = new]
    BY <1>1, <1>3 DEF Refuse, ReqType
  <2> HIDE DEF new
  <2> QED
    BY <1>1, <1>3, <2>1, <2>2, MoveOne
<1>4. CASE ~refused /\ trusted /\ Trust(r)
  <2> DEFINE new == [old EXCEPT !.at = old.at + 1, !.trusted = TRUE]
  <2>1. /\ new \in Requests(Len(snaps)) /\ new.pc = old.pc /\ new.at = old.at + 1
        /\ new.trusted = TRUE /\ new.snap = old.snap /\ new.in = old.in /\ new.held = old.held
    BY <1>1, <1>2 DEF Requests
  <2>2. req' = [req EXCEPT ![r] = new]
    BY <1>1, <1>4 DEF Trust, ReqType
  <2> HIDE DEF new
  <2>3. Moved(r) /\ req'[r] = new
    BY <1>1, <2>1, <2>2, MoveOne
  <2> QED
    BY <1>4, <2>1, <2>3
<1>5. CASE ~refused /\ ~trusted /\ Go(r)
  <2> DEFINE new == [old EXCEPT !.at = old.at + 1]
  <2>1. /\ new \in Requests(Len(snaps)) /\ new.pc = old.pc /\ new.at = old.at + 1
        /\ new.trusted = old.trusted /\ new.snap = old.snap /\ new.in = old.in /\ new.held = old.held
    BY <1>1, <1>2 DEF Requests
  <2>2. req' = [req EXCEPT ![r] = new]
    BY <1>1, <1>5 DEF Go, ReqType
  <2> HIDE DEF new
  <2>3. Moved(r) /\ req'[r] = new
    BY <1>1, <2>1, <2>2, MoveOne
  <2> QED
    BY <1>5, <2>1, <2>3
<1> QED
  BY <1>3, <1>4, <1>5 DEF Rules


\* The stage lets the request by.
Passed(r) ==
  /\ req[r].pc = "inspect" /\ req[r].at \in 1..10
  /\ req'[r].pc = "inspect" /\ req'[r].at = req[r].at + 1
  /\ req[r].trusted => req'[r].trusted
  /\ req'[r].trusted => req[r].trusted \/ Spared(r)
  /\ (req[r].trusted => Spared(r)) => LetBy(r, Pipe(r)[req[r].at])
  /\ req[r].at = 1 /\ Whitelisted(Policy(r), In(r).host, In(r).client) => req'[r].trusted
  /\ req[r].at = 4 /\ Exempt(Policy(r), In(r).host, In(r).kind) => req'[r].trusted
  /\ req[r].at = 2 => ~CheckBlocks(Snap(r), In(r).client)

\* The stage refuses it.
Refused(r) ==
  /\ req[r].pc = "inspect" /\ req[r].at \in 1..10
  /\ req'[r].pc = "decide" /\ req'[r].at = req[r].at /\ req'[r].trusted = req[r].trusted
  /\ req[r].at # 4
  /\ req[r].at = 1 => ~Whitelisted(Policy(r), In(r).host, In(r).client)

\* A stage other than the penalty and a disable rule touches no snapshot.
Judged(r) == Moved(r) /\ UNCHANGED <<snaps, others>> /\ (Passed(r) \/ Refused(r))

LEMMA RunsAt ==
  ASSUME TypeOK, NEW r \in Slot, NEW st, At(r, st)
  PROVE  /\ req[r].pc = "inspect" /\ req[r].at \in 1..10 /\ Pipe(r)[req[r].at] = st
         /\ st = "acl" <=> req[r].at = 1
         /\ st = "penalty" <=> req[r].at = 2
         /\ st = "geo" <=> req[r].at = 3
         /\ st = "exceptions" <=> req[r].at = 4
         /\ st = "matcher" <=> req[r].at = 5
         /\ st \in Detectors <=> req[r].at \in {6, 9, 10}
         /\ st \in Refusers
<1>1. Pipe(r) = Stages[Snap(r).rev] /\ Snap(r).rev \in Revision
  BY RequestType
<1>2. req[r].pc = "inspect" /\ req[r].at \in DOMAIN Pipe(r) /\ Pipe(r)[req[r].at] = st
  BY DEF At
<1>3. req[r].at \in 1..10
  BY <1>1, <1>2, StagesShape
<1> QED
  BY <1>1, <1>2, <1>3, StagePlace

\* The lists come first, and their answer is not looked at again.
LEMMA AclEffect == ASSUME TypeOK, NEW r \in Slot, AclStage(r) PROVE Judged(r)
<1> DEFINE refused == Blacklisted(Policy(r), In(r).host, In(r).client)
           trusted == Whitelisted(Policy(r), In(r).host, In(r).client)
<1>1. /\ refused \in BOOLEAN /\ trusted \in BOOLEAN
      /\ refused => ~trusted
      /\ trusted => Spared(r)
  BY DEF Blacklisted, Whitelisted, Spared
<1>2. At(r, "acl") /\ UNCHANGED <<snaps, others>> /\ Rules(r, refused, "deny", trusted)
  BY DEF AclStage, Runs
<1>3. /\ req[r].pc = "inspect" /\ req[r].at \in 1..10 /\ req[r].at = 1
      /\ Pipe(r)[req[r].at] \notin Detectors
  BY <1>2, RunsAt
<1> HIDE DEF refused, trusted
<1>4. /\ Moved(r)
      /\ \/ /\ refused /\ req'[r].pc = "decide" /\ req'[r].at = req[r].at
            /\ req'[r].trusted = req[r].trusted
         \/ /\ ~refused /\ req'[r].pc = "inspect" /\ req'[r].at = req[r].at + 1
            /\ req[r].trusted => req'[r].trusted
            /\ trusted => req'[r].trusted
            /\ req'[r].trusted => req[r].trusted \/ trusted
  BY <1>1, <1>2, <1>3, RulesEffect
<1>5. LetBy(r, Pipe(r)[req[r].at])
  BY <1>3 DEF LetBy
<1>6. CASE refused
  BY <1>1, <1>2, <1>3, <1>4, <1>6 DEF Judged, Refused, trusted
<1>7. CASE ~refused
  <2>1. Passed(r)
    BY <1>1, <1>3, <1>4, <1>5, <1>7 DEF Passed, trusted
  <2> QED
    BY <1>2, <1>4, <2>1 DEF Judged
<1> QED
  BY <1>6, <1>7

\* The stages that are neither the lists, the penalty nor the exceptions.
LEMMA PlainEffect ==
  ASSUME TypeOK, NEW r \in Slot, NEW st, At(r, st), st \notin {"acl", "penalty", "exceptions"},
         UNCHANGED <<snaps, others>>,
         NEW refused \in BOOLEAN, NEW act \in {"deny", "challenge"}, NEW trusted \in BOOLEAN,
         Rules(r, refused, act, trusted), trusted => Spared(r),
         ~refused /\ (req[r].trusted => Spared(r)) => LetBy(r, st)
  PROVE  Judged(r)
<1>1. /\ req[r].pc = "inspect" /\ req[r].at \in 1..10 /\ req[r].at \notin {1, 2, 4}
      /\ Pipe(r)[req[r].at] = st
  BY RunsAt
<1>2. /\ Moved(r)
      /\ \/ /\ refused /\ req'[r].pc = "decide" /\ req'[r].at = req[r].at
            /\ req'[r].trusted = req[r].trusted
         \/ /\ ~refused /\ req'[r].pc = "inspect" /\ req'[r].at = req[r].at + 1
            /\ req[r].trusted => req'[r].trusted
            /\ trusted => req'[r].trusted
            /\ req'[r].trusted => req[r].trusted \/ trusted
  BY <1>1, RulesEffect
<1>3. CASE refused
  BY <1>1, <1>2, <1>3 DEF Judged, Refused
<1>4. CASE ~refused
  BY <1>1, <1>2, <1>4 DEF Judged, Passed
<1> QED
  BY <1>3, <1>4

LEMMA GeoEffect == ASSUME TypeOK, NEW r \in Slot, GeoStage(r) PROVE Judged(r)
<1> DEFINE geo == SiteOf(r).geo
           refused == /\ ~req[r].trusted /\ ~(In(r).client \in geo.white)
                      /\ geo.white # {} \/ In(r).client \in geo.black
           trusted == In(r).client \in geo.white /\ geo.trusted
<1>1. SiteOf(r) = Policy(r).site[In(r).host]
  BY DEF SiteOf
<1>2. refused \in BOOLEAN /\ trusted \in BOOLEAN /\ (trusted => Spared(r))
  BY <1>1 DEF Spared
<1>3. At(r, "geo") /\ UNCHANGED <<snaps, others>> /\ Rules(r, refused, "deny", trusted)
  BY DEF GeoStage, Runs
<1> HIDE DEF refused, trusted
<1>4. LetBy(r, "geo")
  BY DEF LetBy, Detectors
<1> QED
  BY <1>2, <1>3, <1>4, PlainEffect

LEMMA ExceptionsEffect == ASSUME TypeOK, NEW r \in Slot, ExceptionsStage(r) PROVE Judged(r)
<1> DEFINE refused == FALSE
           trusted == Exempt(Policy(r), In(r).host, In(r).kind)
<1>1. refused \in BOOLEAN /\ trusted \in BOOLEAN /\ (trusted => Spared(r))
  BY DEF Spared, Exempt
<1>2. At(r, "exceptions") /\ UNCHANGED <<snaps, others>> /\ Rules(r, refused, "deny", trusted)
  BY DEF ExceptionsStage, Runs
<1>3. /\ req[r].pc = "inspect" /\ req[r].at \in 1..10 /\ req[r].at = 4
      /\ Pipe(r)[req[r].at] \notin Detectors
  BY <1>2, RunsAt
<1> HIDE DEF trusted
<1>4. /\ Moved(r) /\ req'[r].pc = "inspect" /\ req'[r].at = req[r].at + 1
      /\ req[r].trusted => req'[r].trusted
      /\ trusted => req'[r].trusted
      /\ req'[r].trusted => req[r].trusted \/ trusted
  BY <1>1, <1>2, <1>3, RulesEffect
<1>5. LetBy(r, Pipe(r)[req[r].at])
  BY <1>3 DEF LetBy
<1> QED
  BY <1>1, <1>2, <1>3, <1>4, <1>5 DEF Judged, Passed, trusted

\* The detectors refuse what they deny, unless the flow is trusted.
LEMMA DetectorEffect ==
  ASSUME TypeOK, NEW r \in Slot, BotDetectStage(r) \/ SemanticStage(r) \/ CorazaStage(r)
  PROVE  Judged(r)
<1>1. CASE BotDetectStage(r)
  <2> DEFINE denied == In(r).kind \in SiteOf(r).denies["botdetect"]
             challenge == In(r).kind \in SiteOf(r).challenge /\ SiteOf(r).bot /\ ~CaptchaEnabled(Policy(r))
             refused == ~req[r].trusted /\ (denied \/ challenge)
             act == IF denied THEN "deny" ELSE "challenge"
             trusted == FALSE
  <2>1. refused \in BOOLEAN /\ act \in {"deny", "challenge"} /\ trusted \in BOOLEAN
    OBVIOUS
  <2>2. At(r, "botdetect") /\ UNCHANGED <<snaps, others>> /\ Rules(r, refused, act, trusted)
    BY <1>1 DEF BotDetectStage, Runs
  <2>3. ~refused /\ (req[r].trusted => Spared(r)) => LetBy(r, "botdetect")
    BY DEF LetBy
  <2> HIDE DEF refused, act
  <2> QED
    BY <2>1, <2>2, <2>3, PlainEffect
<1>2. CASE SemanticStage(r)
  <2> DEFINE refused == /\ ~req[r].trusted /\ In(r).kind \in SiteOf(r).denies["semantic"]
                        /\ In(r).kind \notin Policy(r).excepted[In(r).host]
             trusted == FALSE
  <2>1. refused \in BOOLEAN /\ trusted \in BOOLEAN
    OBVIOUS
  <2>2. At(r, "semantic") /\ UNCHANGED <<snaps, others>> /\ Rules(r, refused, "deny", trusted)
    BY <1>2 DEF SemanticStage, Runs
  <2>3. ~refused /\ (req[r].trusted => Spared(r)) => LetBy(r, "semantic")
    BY DEF LetBy
  <2> HIDE DEF refused
  <2> QED
    BY <2>1, <2>2, <2>3, PlainEffect
<1>3. CASE CorazaStage(r)
  <2> DEFINE refused == ~req[r].trusted /\ In(r).kind \in SiteOf(r).denies["coraza"]
             trusted == FALSE
  <2>1. refused \in BOOLEAN /\ trusted \in BOOLEAN
    OBVIOUS
  <2>2. At(r, "coraza") /\ UNCHANGED <<snaps, others>> /\ Rules(r, refused, "deny", trusted)
    BY <1>3 DEF CorazaStage, Runs
  <2>3. ~refused /\ (req[r].trusted => Spared(r)) => LetBy(r, "coraza")
    BY DEF LetBy
  <2> HIDE DEF refused
  <2> QED
    BY <2>1, <2>2, <2>3, PlainEffect
<1> QED
  BY <1>1, <1>2, <1>3

LEMMA ChallengeEffect ==
  ASSUME TypeOK, NEW r \in Slot, BotStage(r) \/ CaptchaStage(r) \/ RateLimitStage(r)
  PROVE  Judged(r)
<1> DEFINE trusted == FALSE
<1>1. \A st \in {"bot", "captcha", "ratelimit"} : LetBy(r, st)
  BY DEF LetBy, Detectors
<1>2. CASE BotStage(r)
  <2> DEFINE refused == ~req[r].trusted /\ SiteOf(r).bot /\ ~In(r).pass
  <2>1. refused \in BOOLEAN /\ trusted \in BOOLEAN
    OBVIOUS
  <2>2. At(r, "bot") /\ UNCHANGED <<snaps, others>> /\ Rules(r, refused, "challenge", trusted)
    BY <1>2 DEF BotStage, Runs
  <2> HIDE DEF refused
  <2> QED
    BY <1>1, <2>1, <2>2, PlainEffect
<1>3. CASE CaptchaStage(r)
  <2> DEFINE refused == ~req[r].trusted /\ SiteOf(r).captcha /\ ~In(r).pass
  <2>1. refused \in BOOLEAN /\ trusted \in BOOLEAN
    OBVIOUS
  <2>2. At(r, "captcha") /\ UNCHANGED <<snaps, others>> /\ Rules(r, refused, "challenge", trusted)
    BY <1>3 DEF CaptchaStage, Runs
  <2> HIDE DEF refused
  <2> QED
    BY <1>1, <2>1, <2>2, PlainEffect
<1>4. CASE RateLimitStage(r)
  <2>1. PICK over \in BOOLEAN :
          Rules(r, ~req[r].trusted /\ SiteOf(r).ratelimit /\ over, "deny", FALSE)
    BY <1>4 DEF RateLimitStage
  <2> DEFINE refused == ~req[r].trusted /\ SiteOf(r).ratelimit /\ over
  <2>2. refused \in BOOLEAN /\ trusted \in BOOLEAN
    OBVIOUS
  <2>3. At(r, "ratelimit") /\ UNCHANGED <<snaps, others>> /\ Rules(r, refused, "deny", trusted)
    BY <1>4, <2>1 DEF RateLimitStage, Runs
  <2> HIDE DEF refused
  <2> QED
    BY <1>1, <2>2, <2>3, PlainEffect
<1> QED
  BY <1>2, <1>3, <1>4

\* A stage that does nothing but let the request by.
LEMMA GoEffect ==
  ASSUME TypeOK, NEW r \in Slot, NEW st, At(r, st), st \notin {"acl", "penalty", "exceptions"},
         UNCHANGED <<snaps, others>>, Go(r), (req[r].trusted => Spared(r)) => LetBy(r, st)
  PROVE  Judged(r)
<1>1. Rules(r, FALSE, "deny", FALSE)
  BY DEF Rules
<1> QED
  BY <1>1, PlainEffect

LEMMA SkipEffect == ASSUME TypeOK, NEW r \in Slot, SkipStage(r) PROVE Judged(r)
<1>1. PICK st \in Disableable : At(r, st) /\ Disabled(Snap(r), In(r).host, st)
  BY DEF SkipStage
<1>2. st \notin {"acl", "penalty", "exceptions"}
  BY DEF Disableable
<1>3. LetBy(r, st)
  BY <1>1 DEF LetBy, Disabled
<1> QED
  BY <1>1, <1>2, <1>3, GoEffect DEF SkipStage

LEMMA MatcherPassesEffect == ASSUME TypeOK, NEW r \in Slot, MatcherPasses(r) PROVE Judged(r)
<1>1. LetBy(r, "matcher")
  BY DEF LetBy, Detectors
<1> QED
  BY <1>1, GoEffect DEF MatcherPasses, Runs

\* A step of the pipeline leaves every window and every ban that is not over.
Mild ==
  /\ SnapsType' /\ SnapsGrow /\ Len(snaps') = Len(snaps) /\ DOMAIN snaps' = DOMAIN snaps
  /\ \A g \in DOMAIN snaps, c \in Client :
       /\ \/ snaps'[g].bans[c] = snaps[g].bans[c]
          \/ snaps'[g].bans[c] = 0 /\ clock > snaps[g].bans[c]
       /\ Doc(snaps[g]).penalty.mode = "deny" => snaps'[g].counts[c] = snaps[g].counts[c]
  /\ OffWasAsked => OffWasAsked'

StageStep(r) == Moved(r) /\ UNCHANGED others /\ (Passed(r) \/ Refused(r)) /\ Mild

LEMMA JudgedStep == ASSUME TypeOK, NEW r \in Slot, Judged(r) PROVE StageStep(r)
<1>1. SnapsType
  BY TypeParts
<1>2. snaps' = snaps
  BY DEF Judged
<1>3. SnapsType' /\ SnapsGrow
  BY <1>1, <1>2 DEF SnapsType, SnapsGrow, BelowThreshold, Doc
<1>4. OffWasAsked => OffWasAsked'
  BY <1>2 DEF OffWasAsked, Doc
<1>5. Mild
  BY <1>2, <1>3, <1>4 DEF Mild
<1> QED
  BY <1>5 DEF Judged, StageStep

\* The penalty stage forgets an expired ban, or refuses, or lets by.
LEMMA PenaltyStep == ASSUME TypeOK, Sound, NEW r \in Slot, PenaltyStage(r) PROVE StageStep(r)
<1> DEFINE refused == CheckBlocks(Snap(r), In(r).client)
           trusted == FALSE
           g == req[r].snap
           c == In(r).client
           s == Checked(snaps[g], c)
<1>1. refused \in BOOLEAN /\ trusted \in BOOLEAN
  BY DEF CheckBlocks
<1>2. At(r, "penalty") /\ UNCHANGED others /\ Rules(r, refused, "deny", trusted)
  BY DEF PenaltyStage, Runs
<1>3. /\ req[r].pc = "inspect" /\ req[r].at \in 1..10 /\ req[r].at = 2
      /\ Pipe(r)[req[r].at] \notin Detectors
  BY <1>2, RunsAt
<1> HIDE DEF refused
<1>4. /\ Moved(r)
      /\ \/ /\ refused /\ req'[r].pc = "decide" /\ req'[r].at = req[r].at
            /\ req'[r].trusted = req[r].trusted
         \/ /\ ~refused /\ req'[r].pc = "inspect" /\ req'[r].at = req[r].at + 1
            /\ req[r].trusted => req'[r].trusted
            /\ trusted => req'[r].trusted
            /\ req'[r].trusted => req[r].trusted \/ trusted
  BY <1>1, <1>2, <1>3, RulesEffect
<1>5. LetBy(r, Pipe(r)[req[r].at])
  BY <1>3 DEF LetBy
<1>6. Passed(r) \/ Refused(r)
  BY <1>3, <1>4, <1>5 DEF Passed, Refused, refused
<1>7. SnapsType /\ ClockType /\ g \in DOMAIN snaps /\ snaps[g] \in Snapshots
  BY TypeParts, RequestType DEF SnapsType
<1>8. c \in Client
  BY <1>3, InputType DEF Sound, Vetted, In
<1>9. Mild
  <2>1. /\ s \in Snapshots /\ s.rev = snaps[g].rev /\ s.off = snaps[g].off
        /\ \A d \in Client \ {c} : s.bans[d] = snaps[g].bans[d]
        /\ s.bans[c] = snaps[g].bans[c] \/ (s.bans[c] = 0 /\ clock > snaps[g].bans[c])
        /\ Doc(snaps[g]).penalty.mode # "throttle" => s.counts = snaps[g].counts
    BY <1>7, <1>8, CheckedEffect DEF ClockType
  <2>2. snaps' = [snaps EXCEPT ![g] = s]
    BY DEF PenaltyStage, In
  <2> HIDE DEF s, g, c
  <2>3. BelowThreshold(s)
    BY <1>7, <2>1 DEF SnapsType, BelowThreshold, Doc
  <2>4. /\ SnapsType' /\ SnapsGrow /\ Len(snaps') = Len(snaps) /\ DOMAIN snaps' = DOMAIN snaps
        /\ snaps'[g] = s /\ \A h \in DOMAIN snaps \ {g} : snaps'[h] = snaps[h]
    BY <1>7, <2>1, <2>2, <2>3, SnapSet
  <2>5. \A h \in DOMAIN snaps, d \in Client :
          /\ \/ snaps'[h].bans[d] = snaps[h].bans[d]
             \/ snaps'[h].bans[d] = 0 /\ clock > snaps[h].bans[d]
          /\ Doc(snaps[h]).penalty.mode = "deny" => snaps'[h].counts[d] = snaps[h].counts[d]
    BY <2>1, <2>4
  <2>6. \A h \in DOMAIN snaps : snaps'[h].off = snaps[h].off /\ Doc(snaps'[h]) = Doc(snaps[h])
    BY <2>1, <2>4 DEF Doc
  <2>7. ASSUME OffWasAsked, NEW h \in DOMAIN snaps, NEW o \in snaps'[h].off
        PROVE  \E j \in DOMAIN Doc(snaps'[h]).matchers :
                 LET rule == Doc(snaps'[h]).matchers[j]
                 IN /\ rule.action = "disable" /\ o[2] \in rule.stages
                    /\ rule.sites = {} \/ o[1] \in rule.sites
    BY <2>6, <2>7 DEF OffWasAsked
  <2>8. OffWasAsked => OffWasAsked'
    BY <2>4, <2>7 DEF OffWasAsked, Doc
  <2> QED
    BY <2>4, <2>5, <2>8 DEF Mild
<1> QED
  BY <1>2, <1>4, <1>6, <1>9 DEF StageStep

\* A matching rule refuses, trusts the flow, or switches modules off for the site.
LEMMA MatcherHitsStep == ASSUME TypeOK, Sound, NEW r \in Slot, MatcherHits(r) PROVE StageStep(r)
<1> DEFINE doc == Policy(r)
           i == FirstHit(doc, In(r).host, In(r).kind)
           rule == doc.matchers[i]
           g == req[r].snap
           old == req[r]
<1>1. /\ At(r, "matcher") /\ UNCHANGED others
      /\ ~old.trusted /\ Hits(doc, In(r).host, In(r).kind) # {}
  BY DEF MatcherHits, Runs
<1>2. /\ old.pc = "inspect" /\ old.at \in 1..10 /\ old.at = 5
      /\ Pipe(r)[old.at] \notin Detectors
  BY <1>1, RunsAt
<1>3. i \in Hits(doc, In(r).host, In(r).kind) /\ i \in Nat /\ i \in DOMAIN doc.matchers /\ rule \in Rule
  BY <1>1, RequestType, FirstHitType
<1>4. ReqType /\ old \in Requests(Len(snaps)) /\ SnapsType /\ g \in DOMAIN snaps /\ Snap(r) \in Snapshots
      /\ Snap(r) = snaps[g]
  BY TypeParts, RequestType DEF Snap
<1>5. /\ req' = [req EXCEPT ![r].rule = i,
                            ![r].trusted = rule.action = "allow",
                            ![r].at = IF rule.action = "deny" THEN @ ELSE @ + 1,
                            ![r].pc = IF rule.action = "deny" THEN "decide" ELSE @,
                            ![r].act = IF rule.action = "deny" THEN "deny" ELSE @]
      /\ snaps' = IF rule.action = "disable"
                  THEN [snaps EXCEPT ![g].off = @ \cup ({In(r).host} \X rule.stages)]
                  ELSE snaps
  BY DEF MatcherHits
<1>6. rule.action = "allow" => Spared(r)
  BY <1>1 DEF Spared, Allowed
<1>7. LetBy(r, Pipe(r)[old.at])
  BY <1>2 DEF LetBy
<1>8. In(r).host \in Site
  BY <1>2 DEF Sound, Vetted
<1>9. /\ In(r).kind \in rule.hits /\ (rule.sites = {} \/ In(r).host \in rule.sites)
      /\ rule.stages \in SUBSET Disableable
  BY <1>3 DEF Hits, Rule
<1> HIDE DEF i, rule
<1>10. Moved(r) /\ (Passed(r) \/ Refused(r))
  <2>0. old.at + 1 \in 0..11 /\ i \in Nat /\ old \in Requests(Len(snaps))
    BY <1>2, <1>3, <1>4
  <2>1. CASE rule.action = "deny"
    <3> DEFINE new == [old EXCEPT !.rule = i, !.trusted = FALSE, !.pc = "decide", !.act = "deny"]
    <3>1. /\ new \in Requests(Len(snaps)) /\ new.pc = "decide" /\ new.at = old.at /\ ~new.trusted
          /\ new.snap = old.snap /\ new.in = old.in /\ new.held = old.held
      BY <1>3, <1>4 DEF Requests
    <3>2. req' = [req EXCEPT ![r] = new]
      BY <1>4, <1>5, <2>1 DEF ReqType, Requests
    <3> HIDE DEF new
    <3>3. Moved(r) /\ req'[r] = new
      BY <1>4, <3>1, <3>2, MoveOne
    <3>4. req'[r].trusted = req[r].trusted
      BY <1>1, <1>4, <3>1, <3>3 DEF Requests
    <3> QED
      BY <1>2, <3>1, <3>3, <3>4 DEF Refused
  <2>2. CASE rule.action = "allow"
    <3> DEFINE new == [old EXCEPT !.rule = i, !.trusted = TRUE, !.at = old.at + 1]
    <3>1. /\ new \in Requests(Len(snaps)) /\ new.pc = old.pc /\ new.at = old.at + 1
          /\ new.snap = old.snap /\ new.in = old.in /\ new.held = old.held /\ new.trusted = TRUE
      BY <2>0 DEF Requests
    <3>2. req' = [req EXCEPT ![r] = new]
      BY <1>4, <1>5, <2>2 DEF ReqType, Requests
    <3> HIDE DEF new
    <3>3. Moved(r) /\ req'[r] = new
      BY <1>4, <3>1, <3>2, MoveOne
    <3> QED
      BY <1>1, <1>2, <1>6, <2>2, <1>7, <3>1, <3>3 DEF Passed
  <2>3. CASE rule.action \notin {"deny", "allow"}
    <3> DEFINE new == [old EXCEPT !.rule = i, !.trusted = FALSE, !.at = old.at + 1]
    <3>1. /\ new \in Requests(Len(snaps)) /\ new.pc = old.pc /\ new.at = old.at + 1
          /\ new.snap = old.snap /\ new.in = old.in /\ new.held = old.held /\ new.trusted = FALSE
      BY <2>0 DEF Requests
    <3>2. req' = [req EXCEPT ![r] = new]
      BY <1>4, <1>5, <2>3 DEF ReqType, Requests
    <3> HIDE DEF new
    <3>3. Moved(r) /\ req'[r] = new
      BY <1>4, <3>1, <3>2, MoveOne
    <3> QED
      BY <1>1, <1>2, <1>7, <3>1, <3>3 DEF Passed
  <2> QED
    BY <2>1, <2>2, <2>3
<1>11. Mild
  <2>1. CASE rule.action = "disable"
    <3> DEFINE off == snaps[g].off \cup ({In(r).host} \X rule.stages)
               s == [snaps[g] EXCEPT !.off = off]
    <3>1. off \in SUBSET (Site \X Disableable)
      BY <1>4, <1>8, <1>9, SnapshotType
    <3>2. snaps[g].off \subseteq off
          /\ \A o \in off : o \in snaps[g].off \/ (o[1] = In(r).host /\ o[2] \in rule.stages)
      OBVIOUS
    <3> HIDE DEF off
    <3>3. /\ s \in Snapshots /\ s.rev = snaps[g].rev /\ s.off = off
          /\ s.counts = snaps[g].counts /\ s.bans = snaps[g].bans
      BY <1>4, <3>1 DEF Snapshots
    <3>4. snaps' = [snaps EXCEPT ![g] = s]
      BY <1>4, <1>5, <2>1 DEF SnapsType, off
    <3> HIDE DEF s
    <3>5. BelowThreshold(s)
      BY <1>4, <3>3 DEF SnapsType, BelowThreshold, Doc
    <3>6. /\ SnapsType' /\ SnapsGrow /\ Len(snaps') = Len(snaps) /\ DOMAIN snaps' = DOMAIN snaps
          /\ snaps'[g] = s /\ \A h \in DOMAIN snaps \ {g} : snaps'[h] = snaps[h]
      BY <1>4, <3>2, <3>3, <3>4, <3>5, SnapSet
    <3>7. \A h \in DOMAIN snaps, d \in Client :
            snaps'[h].bans[d] = snaps[h].bans[d] /\ snaps'[h].counts[d] = snaps[h].counts[d]
      BY <3>3, <3>6
    <3>8. \A h \in DOMAIN snaps : Doc(snaps'[h]) = Doc(snaps[h])
      BY <3>3, <3>6 DEF Doc
    <3>9. ASSUME OffWasAsked, NEW h \in DOMAIN snaps, NEW o \in snaps'[h].off
          PROVE  \E j \in DOMAIN Doc(snaps'[h]).matchers :
                   LET by == Doc(snaps'[h]).matchers[j]
                   IN /\ by.action = "disable" /\ o[2] \in by.stages
                      /\ by.sites = {} \/ o[1] \in by.sites
      <4>1. CASE o \in snaps[h].off
        BY <3>8, <3>9, <4>1 DEF OffWasAsked
      <4>2. CASE h = g /\ o[1] = In(r).host /\ o[2] \in rule.stages
        <5>1. Doc(snaps'[h]) = doc
          BY <1>4, <3>8, <4>2 DEF Policy
        <5> QED
          BY <1>3, <1>9, <2>1, <4>2, <5>1 DEF rule
      <4> QED
        BY <3>2, <3>3, <3>6, <4>1, <4>2
    <3>10. OffWasAsked => OffWasAsked'
      BY <3>6, <3>9 DEF OffWasAsked, Doc
    <3> QED
      BY <3>6, <3>7, <3>10 DEF Mild
  <2>2. CASE rule.action # "disable"
    <3>1. snaps' = snaps
      BY <1>5, <2>2
    <3>2. SnapsType' /\ SnapsGrow
      BY <1>4, <3>1 DEF SnapsType, SnapsGrow, BelowThreshold, Doc
    <3>3. OffWasAsked => OffWasAsked'
      BY <3>1 DEF OffWasAsked, Doc
    <3> QED
      BY <3>1, <3>2, <3>3 DEF Mild
  <2> QED
    BY <2>1, <2>2
<1> QED
  BY <1>1, <1>10, <1>11 DEF StageStep

LEMMA StageIsStep == ASSUME TypeOK, Sound, NEW r \in Slot, Stage(r) PROVE StageStep(r)
BY SkipEffect, AclEffect, PenaltyStep, GeoEffect, ExceptionsEffect, MatcherPassesEffect,
   MatcherHitsStep, DetectorEffect, ChallengeEffect, JudgedStep DEF Stage

-----------------------------------------------------------------------------
(* What a step leaves alone.                                               *)

\* A ban goes only when it is over, and otherwise ends later than any ban so far.
BansHold ==
  \A g \in DOMAIN snaps, c \in Client :
    \/ snaps'[g].bans[c] = snaps[g].bans[c]
    \/ clock > snaps[g].bans[c]
    \/ snaps'[g].bans[c] = clock + Ban

\* A request that the step does not serve.
LEMMA Bystander ==
  ASSUME TypeOK, Sound, SnapsGrow, BansHold, ClockType', clock' >= clock,
         NEW q \in Slot, req'[q] = req[q]
  PROVE  Vetted(q)' /\ HeldOff(q)' /\ SparedIsTrusted(q)'
<1>1. Vetted(q) /\ HeldOff(q) /\ SparedIsTrusted(q)
  BY DEF Sound
<1>2. /\ In(q)' = In(q) /\ Policy(q)' = Policy(q) /\ Pipe(q)' = Pipe(q) /\ SiteOf(q)' = SiteOf(q)
      /\ (Spared(q)' <=> Spared(q))
      /\ \A st : LetBy(q, st) => LetBy(q, st)'
  BY SameView
<1>3. Vetted(q)'
  BY <1>1, <1>2 DEF Vetted
<1>4. SparedIsTrusted(q)'
  BY <1>1, <1>2 DEF SparedIsTrusted
<1>5. HeldOff(q)'
  <2>1. /\ clock \in Nat /\ clock' \in Nat /\ Ban \in Nat /\ req[q].held \in Nat
        /\ req[q].snap \in DOMAIN snaps /\ Snap(q) \in Snapshots
    BY TypeParts, RequestType, Settings DEF ClockType
  <2>2. req[q].held <= clock' + Ban
    BY <1>1, <2>1 DEF HeldOff
  <2>3. ASSUME req[q].pc = "inspect", Policy(q).penalty.mode = "deny", ~(req[q].held < clock')
        PROVE  req[q].at <= 2 /\ Snap(q)'.bans[In(q).client] >= req[q].held
    <3>1. In(q).client \in Client
      BY <1>1, <2>3, InputType DEF Vetted, In
    <3>2. ~(req[q].held < clock)
      BY <2>1, <2>3
    <3>3. req[q].at <= 2 /\ Snap(q).bans[In(q).client] >= req[q].held
      BY <1>1, <2>3, <3>2 DEF HeldOff
    <3>4. Snap(q).bans[In(q).client] \in Nat
      BY <2>1, <3>1, SnapshotType
    <3>5. \/ Snap(q)'.bans[In(q).client] = Snap(q).bans[In(q).client]
          \/ clock > Snap(q).bans[In(q).client]
          \/ Snap(q)'.bans[In(q).client] = clock + Ban
      BY <2>1, <3>1 DEF BansHold, Snap
    <3>6. req[q].held <= clock + Ban
      BY <1>1 DEF HeldOff
    <3> DEFINE b == Snap(q).bans[In(q).client]
               n == Snap(q)'.bans[In(q).client]
               h == req[q].held
    <3>7. /\ b \in Nat /\ h \in Nat /\ b >= h /\ h <= clock + Ban /\ ~(h < clock)
          /\ n = b \/ clock > b \/ n = clock + Ban
      BY <2>1, <3>2, <3>3, <3>4, <3>5, <3>6
    <3> HIDE DEF b, n, h
    <3>8. n >= h
      BY <2>1, <3>7
    <3> QED
      BY <3>3, <3>8 DEF n, h
  <2> QED
    BY <1>2, <2>2, <2>3 DEF HeldOff
<1> QED
  BY <1>3, <1>4, <1>5

LEMMA EventsShape ==
  ASSUME TypeOK
  PROVE  /\ Len(events) \in Nat /\ DOMAIN events = 1..Len(events)
         /\ \A i \in DOMAIN events : /\ events[i] \in Events(Len(snaps), clock)
                                     /\ events[i].run \in 1..Len(snaps)
                                     /\ events[i].at \in 1..clock
<1>1. EventsType
  BY TypeParts
<1>2. \A i \in DOMAIN events : events[i] \in Events(Len(snaps), clock)
  BY <1>1 DEF EventsType
<1>3. \A e \in Events(Len(snaps), clock) : e.run \in 1..Len(snaps) /\ e.at \in 1..clock
  BY DEF Events
<1> QED
  BY <1>1, <1>2, <1>3 DEF EventsType

\* The events written so far, and what they back.
LEMMA HistoryKept ==
  ASSUME TypeOK, Sound, SnapsGrow, events' = events
  PROVE  SparedFlowsNeverFeed'
<1>1. \A i \in DOMAIN events : events[i].run \in 1..Len(snaps)
  BY EventsShape
<1>2. \A i \in DOMAIN events : events[i].run \in DOMAIN snaps
  BY <1>1, TypeParts DEF SnapsType
<1>3. \A i \in DOMAIN events : Doc(snaps'[events[i].run]) = Doc(snaps[events[i].run])
  BY <1>2 DEF SnapsGrow, Doc
<1>4. \A i \in DOMAIN events : Doc(snaps[events[i].run])' = Doc(snaps[events[i].run])
  BY <1>3 DEF Doc
<1>5. SparedFlowsNeverFeed
  BY DEF Sound
<1> QED
  BY <1>4, <1>5 DEF SparedFlowsNeverFeed

LEMMA EarnedKept ==
  ASSUME TypeOK, Sound, SnapsGrow, events' = events, ClockType', clock' >= clock,
         NEW g \in DOMAIN snaps, NEW c \in Client,
         snaps'[g].bans[c] = snaps[g].bans[c] \/ snaps'[g].bans[c] = 0,
         Doc(snaps[g]).penalty.mode = "deny" => snaps'[g].counts[c] = snaps[g].counts[c]
  PROVE  Earned(g, c)'
<1>1. Earned(g, c) /\ Doc(snaps'[g]) = Doc(snaps[g])
  BY DEF Sound, SnapsGrow, Doc
<1>2. clock \in Nat /\ clock' \in Nat /\ Ban \in Nat /\ snaps[g].bans[c] \in Nat
  BY TypeParts, SnapshotType, Settings DEF ClockType, SnapsType
<1>3. /\ \A h, d, from, to : Fed(h, d, from, to)' = Fed(h, d, from, to)
      /\ \A h, d, t : Recent(h, d, t)' = Recent(h, d, t)
  BY DEF Fed, Recent
<1>4. snaps'[g].bans[c] <= clock' + Ban
  BY <1>1, <1>2 DEF Earned
<1>5. Doc(snaps[g]).penalty.mode = "deny" => snaps'[g].counts[c].start <= clock'
  <2>1. snaps[g].counts[c].start \in Nat
    BY TypeParts, SnapshotType, Settings DEF SnapsType, Windows
  <2> QED
    BY <1>1, <1>2, <2>1 DEF Earned
<1> QED
  BY <1>1, <1>3, <1>4, <1>5 DEF Earned, Doc

-----------------------------------------------------------------------------
(* The steps.                                                              *)

LEMMA StageSafe == ASSUME TypeOK, Sound, NEW r \in Slot, StageStep(r) PROVE TypeOK' /\ Sound'
<1>1. /\ SnapsType /\ PlaneType /\ ReqType /\ ClockType /\ EventsType
      /\ Moved(r) /\ SnapsType' /\ SnapsGrow /\ Len(snaps') = Len(snaps) /\ DOMAIN snaps' = DOMAIN snaps
      /\ serving' = serving /\ hook' = hook /\ arrived' = arrived /\ events' = events /\ clock' = clock
  BY TypeParts DEF StageStep, Mild, others
<1>2. TypeOK'
  <2>1. PlaneType' /\ ClockType' /\ EventsType'
    BY <1>1 DEF PlaneType, ClockType, EventsType, Events
  <2>2. ReqType'
    BY <1>1 DEF Moved, ReqType
  <2> QED
    BY <1>1, <2>1, <2>2, JoinParts
<1>3. BansHold
  BY DEF StageStep, Mild, BansHold
<1>4. ClockType' /\ clock \in Nat /\ clock >= 1 /\ clock' >= clock /\ Ban \in Nat
  BY <1>1, Settings DEF ClockType
<1>5. \A q \in Slot \ {r} : Vetted(q)' /\ HeldOff(q)' /\ SparedIsTrusted(q)'
  BY <1>1, <1>3, <1>4, Bystander DEF Moved
<1>6. /\ In(r)' = In(r) /\ Policy(r)' = Policy(r) /\ Pipe(r)' = Pipe(r) /\ SiteOf(r)' = SiteOf(r)
      /\ (Spared(r)' <=> Spared(r))
      /\ \A st : LetBy(r, st) => LetBy(r, st)'
  BY <1>1, SameView DEF Moved
<1>7. req'[r].snap = req[r].snap /\ req'[r].in = req[r].in /\ req'[r].held = req[r].held
  BY <1>1 DEF Moved
<1>8. Vetted(r) /\ HeldOff(r) /\ SparedIsTrusted(r)
  BY DEF Sound
<1>9. ASSUME Passed(r) PROVE Vetted(r)' /\ HeldOff(r)' /\ SparedIsTrusted(r)'
  <2>1. /\ req[r].pc = "inspect" /\ req[r].at \in 1..10 /\ req'[r].pc = "inspect"
        /\ req'[r].at = req[r].at + 1
    BY <1>9 DEF Passed
  <2>2. Vetted(r)'
    <3>1. req[r].in \in Input /\ In(r).host \in Site /\ (req[r].trusted => Spared(r))
          /\ \A i \in 1..(req[r].at - 1) : LetBy(r, Pipe(r)[i])
      BY <1>8, <2>1 DEF Vetted
    <3>2. req'[r].trusted => Spared(r)'
      BY <1>6, <1>9, <3>1 DEF Passed
    <3>3. LetBy(r, Pipe(r)[req[r].at])
      BY <1>9, <3>1 DEF Passed
    <3>4. ASSUME NEW i \in 1..(req'[r].at - 1) PROVE LetBy(r, Pipe(r)[i])
      <4>1. i = req[r].at \/ i \in 1..(req[r].at - 1)
        BY <2>1
      <4> QED
        BY <3>1, <3>3, <4>1
    <3>5. ASSUME NEW i \in 1..(req'[r].at - 1) PROVE LetBy(r, Pipe(r)[i])'
      <4>1. PICK st : st = Pipe(r)[i]
        OBVIOUS
      <4>2. LetBy(r, st)' /\ st = Pipe(r)'[i]
        BY <1>6, <3>4, <4>1
      <4> QED
        BY <4>2 DEF LetBy
    <3> QED
      BY <1>6, <1>7, <2>1, <3>1, <3>2, <3>5 DEF Vetted
  <2>3. HeldOff(r)'
    <3>1. req'[r].held <= clock' + Ban
      BY <1>1, <1>7, <1>8 DEF HeldOff
    <3>2. ASSUME Policy(r).penalty.mode = "deny", ~(req[r].held < clock)
          PROVE  req'[r].at <= 2 /\ Snap(r)'.bans[In(r).client] >= req[r].held
      <4>1. /\ req[r].at <= 2 /\ Snap(r).bans[In(r).client] >= req[r].held
            /\ req[r].held \in Nat /\ Snap(r) \in Snapshots /\ req[r].snap \in DOMAIN snaps
        BY <1>8, <2>1, <3>2, RequestType DEF HeldOff
      <4>2. In(r).client \in Client
        BY <1>8, <2>1, InputType DEF Vetted, In
      <4>3. Snap(r).bans[In(r).client] \in Nat
        BY <4>1, <4>2, SnapshotType
      <4> DEFINE b == Snap(r).bans[In(r).client]
                 n == Snap(r)'.bans[In(r).client]
      <4>4. n = b \/ (n = 0 /\ clock > b)
        BY <1>7, <4>1, <4>2 DEF StageStep, Mild, Snap
      <4>5. b \in Nat /\ b >= req[r].held /\ b # 0 /\ ~(clock > b)
        BY <1>4, <3>2, <4>1, <4>3
      <4>6. req[r].at # 2
        <5>1. InForce(Snap(r), In(r).client)
          BY <3>2, <4>5 DEF InForce, Banned, Expired, Policy
        <5>2. CheckBlocks(Snap(r), In(r).client)
          BY <3>2, <5>1 DEF CheckBlocks, Policy
        <5> QED
          BY <1>9, <5>2 DEF Passed
      <4>7. req'[r].at <= 2
        BY <2>1, <4>1, <4>6
      <4>8. n >= req[r].held
        BY <4>4, <4>5
      <4> QED
        BY <4>7, <4>8
    <3> QED
      BY <1>1, <1>6, <1>7, <3>1, <3>2 DEF HeldOff
  <2>4. SparedIsTrusted(r)'
    <3>1. /\ Whitelisted(Policy(r), In(r).host, In(r).client) => req'[r].trusted
          /\ Exempt(Policy(r), In(r).host, In(r).kind) /\ req'[r].at > 4 => req'[r].trusted
      <4>1. req[r].at = 1 \/ req[r].at > 1
        BY <2>1
      <4>2. req'[r].at > 4 => req[r].at = 4 \/ req[r].at > 4
        BY <2>1
      <4> QED
        BY <1>8, <1>9, <2>1, <4>1, <4>2 DEF SparedIsTrusted, Passed
    <3>2. req'[r].at > 1
      BY <2>1
    <3> QED
      BY <1>6, <2>1, <3>1, <3>2 DEF SparedIsTrusted
  <2> QED
    BY <2>2, <2>3, <2>4
<1>10. ASSUME Refused(r) PROVE Vetted(r)' /\ HeldOff(r)' /\ SparedIsTrusted(r)'
  <2>1. /\ req[r].pc = "inspect" /\ req[r].at \in 1..10 /\ req[r].at # 4 /\ req'[r].pc = "decide"
        /\ req'[r].at = req[r].at /\ req'[r].trusted = req[r].trusted
        /\ req[r].at = 1 => ~Whitelisted(Policy(r), In(r).host, In(r).client)
    BY <1>10 DEF Refused
  <2>2. Vetted(r)'
    BY <1>6, <1>7, <1>8, <2>1 DEF Vetted
  <2>3. HeldOff(r)'
    BY <1>1, <1>7, <1>8, <2>1 DEF HeldOff
  <2>4. SparedIsTrusted(r)'
    <3>1. req[r].at = 1 \/ req[r].at > 1
      BY <2>1
    <3>2. req[r].at >= 1 /\ req[r].at # 0
      BY <2>1
    <3> QED
      BY <1>6, <1>8, <2>1, <3>1, <3>2 DEF SparedIsTrusted
  <2> QED
    BY <2>2, <2>3, <2>4
<1>11. \A g \in DOMAIN snaps', c \in Client : Earned(g, c)'
  BY <1>1, <1>4, EarnedKept DEF StageStep, Mild
<1>12. SparedFlowsNeverFeed'
  BY <1>1, HistoryKept
<1>13. OffWasAsked'
  BY DEF Sound, StageStep, Mild
<1> QED
  BY <1>2, <1>5, <1>9, <1>10, <1>11, <1>12, <1>13 DEF Sound, StageStep

\* A step that touches neither the snapshots nor the events.
LEMMA QuietHistory ==
  ASSUME TypeOK, Sound, snaps' = snaps, events' = events, ClockType', clock' >= clock
  PROVE  /\ SnapsType' /\ EventsType' /\ SnapsGrow /\ BansHold
         /\ \A g \in DOMAIN snaps', c \in Client : Earned(g, c)'
         /\ SparedFlowsNeverFeed' /\ OffWasAsked'
<1>1. SnapsType /\ EventsType /\ ClockType
  BY TypeParts
<1>2. SnapsType' /\ SnapsGrow
  BY <1>1 DEF SnapsType, SnapsGrow, BelowThreshold, Doc
<1>3. EventsType'
  <2>1. 1..clock \subseteq 1..clock'
    BY <1>1 DEF ClockType
  <2>2. Events(Len(snaps), clock) \subseteq Events(Len(snaps), clock')
    BY <2>1 DEF Events
  <2>3. events \in Seq(Events(Len(snaps), clock'))
    BY <1>1, <2>2 DEF EventsType
  <2> QED
    BY <2>3 DEF EventsType, Events
<1>4. BansHold
  BY DEF BansHold
<1>5. ASSUME NEW g \in DOMAIN snaps, NEW c \in Client PROVE Earned(g, c)'
  BY <1>2, EarnedKept
<1>6. SparedFlowsNeverFeed'
  BY <1>2, HistoryKept
<1>7. OffWasAsked'
  BY DEF Sound, OffWasAsked, Doc
<1> QED
  BY <1>2, <1>3, <1>4, <1>5, <1>6, <1>7

\* A slot with no request in it.
LEMMA IdleShape ==
  /\ Idle.pc = "idle" /\ Idle.at = 0 /\ Idle.held = 0 /\ Idle.trusted = FALSE
  /\ \A n \in Nat : n >= 1 => Idle \in Requests(n)
<1> DEFINE x == CHOOSE in \in Input : TRUE
<1> HIDE DEF x
<1>1. Idle = [pc |-> "idle", snap |-> 1, at |-> 0, in |-> x, trusted |-> FALSE, rule |-> 0,
              act |-> "allow", held |-> 0]
  BY DEF Idle, x
<1>2. 0 \in Tick0
  BY Settings DEF Tick0
<1>3. Idle.in = x /\ \A n \in Nat : n >= 1 => 1 \in 1..n
  BY <1>1
<1> QED
  BY <1>1, <1>2, <1>3 DEF Requests

LEMMA IdleSafe ==
  ASSUME ClockType', NEW r \in Slot, req'[r] = Idle
  PROVE  Vetted(r)' /\ HeldOff(r)' /\ SparedIsTrusted(r)'
<1>1. req'[r].pc = "idle" /\ req'[r].held = 0 /\ clock' \in Nat /\ Ban \in Nat
  BY IdleShape, Settings DEF ClockType
<1>2. Vetted(r)' /\ SparedIsTrusted(r)'
  BY <1>1 DEF Vetted, SparedIsTrusted
<1>3. HeldOff(r)'
  BY <1>1 DEF HeldOff
<1> QED
  BY <1>2, <1>3

LEMMA LeaveSafe == ASSUME TypeOK, Sound, NEW r \in Slot, Leave(r) PROVE TypeOK' /\ Sound'
<1>1. /\ SnapsType /\ PlaneType /\ ReqType /\ ClockType /\ Len(snaps) \in Nat /\ Len(snaps) >= 1
      /\ snaps' = snaps /\ serving' = serving /\ hook' = hook /\ arrived' = arrived
      /\ events' = events /\ clock' = clock /\ req' = [req EXCEPT ![r] = Idle]
  BY TypeParts DEF Leave, others, SnapsType, PlaneType
<1>2. ClockType' /\ clock' >= clock /\ PlaneType'
  BY <1>1 DEF ClockType, PlaneType
<1>3. /\ SnapsType' /\ EventsType' /\ SnapsGrow /\ BansHold
      /\ \A g \in DOMAIN snaps', c \in Client : Earned(g, c)'
      /\ SparedFlowsNeverFeed' /\ OffWasAsked'
  BY <1>1, <1>2, QuietHistory
<1>4. ReqType' /\ req'[r] = Idle /\ \A q \in Slot \ {r} : req'[q] = req[q]
  BY <1>1, IdleShape DEF ReqType
<1>5. \A q \in Slot : Vetted(q)' /\ HeldOff(q)' /\ SparedIsTrusted(q)'
  BY <1>2, <1>3, <1>4, IdleSafe, Bystander
<1> QED
  BY <1>2, <1>3, <1>4, <1>5, JoinParts DEF Sound

\* Past the last stage, every detector has been passed.
LEMMA ForwardSafe == ASSUME TypeOK, Sound, NEW r \in Slot, Forward(r) PROVE TypeOK' /\ Sound'
<1>1. /\ SnapsType /\ PlaneType /\ ReqType /\ ClockType /\ req[r] \in Requests(Len(snaps))
      /\ snaps' = snaps /\ serving' = serving /\ hook' = hook /\ arrived' = arrived
      /\ events' = events /\ clock' = clock /\ req' = [req EXCEPT ![r].pc = "forward"]
      /\ \/ req[r].pc = "inspect" /\ req[r].at > Len(Pipe(r))
         \/ req[r].pc = "decide" /\ req[r].at # 0 /\ ~SiteOf(r).intercept
  BY TypeParts, RequestType DEF Forward, others
<1>2. ClockType' /\ clock' >= clock /\ PlaneType'
  BY <1>1 DEF ClockType, PlaneType
<1>3. /\ SnapsType' /\ EventsType' /\ SnapsGrow /\ BansHold
      /\ \A g \in DOMAIN snaps', c \in Client : Earned(g, c)'
      /\ SparedFlowsNeverFeed' /\ OffWasAsked'
  BY <1>1, <1>2, QuietHistory
<1> DEFINE new == [req[r] EXCEPT !.pc = "forward"]
<1>4. new \in Requests(Len(snaps)) /\ new.pc = "forward" /\ new.snap = req[r].snap /\ new.in = req[r].in
      /\ new.held = req[r].held
  BY <1>1 DEF Requests
<1>5. req' = [req EXCEPT ![r] = new]
  BY <1>1
<1> HIDE DEF new
<1>6. Moved(r) /\ req'[r] = new
  BY <1>1, <1>4, <1>5, MoveOne
<1>7. ReqType' /\ \A q \in Slot \ {r} : req'[q] = req[q]
  BY <1>1, <1>6 DEF Moved, ReqType
<1>8. Vetted(r) /\ HeldOff(r)
  BY DEF Sound
<1>9. /\ In(r)' = In(r) /\ SiteOf(r)' = SiteOf(r)
      /\ \A st : LetBy(r, st) => LetBy(r, st)'
  BY <1>3, <1>4, <1>6, SameView
<1>10. ASSUME NEW st \in Detectors PROVE LetBy(r, st)
  <2>1. CASE req[r].pc = "inspect" /\ req[r].at > Len(Pipe(r))
    <3>1. /\ Pipe(r) = Stages[Snap(r).rev] /\ Snap(r).rev \in Revision /\ req[r].at \in 0..11
      BY RequestType
    <3>2. Len(Pipe(r)) = 10 /\ Pipe(r)[6] = "botdetect" /\ Pipe(r)[9] = "semantic" /\ Pipe(r)[10] = "coraza"
      BY <3>1, StagesShape
    <3>3. 6 \in 1..(req[r].at - 1) /\ 9 \in 1..(req[r].at - 1) /\ 10 \in 1..(req[r].at - 1)
      BY <2>1, <3>1, <3>2
    <3>4. LetBy(r, Pipe(r)[6]) /\ LetBy(r, Pipe(r)[9]) /\ LetBy(r, Pipe(r)[10])
      BY <1>8, <2>1, <3>3 DEF Vetted
    <3> QED
      BY <3>2, <3>4 DEF Detectors
  <2>2. CASE ~SiteOf(r).intercept
    BY <2>2 DEF LetBy
  <2> QED
    BY <1>1, <2>1, <2>2
<1>11. Vetted(r)'
  BY <1>1, <1>4, <1>6, <1>8, <1>9, <1>10 DEF Vetted
<1>12. HeldOff(r)' /\ SparedIsTrusted(r)'
  BY <1>1, <1>4, <1>6, <1>8 DEF HeldOff, SparedIsTrusted
<1>13. \A q \in Slot : Vetted(q)' /\ HeldOff(q)' /\ SparedIsTrusted(q)'
  BY <1>2, <1>3, <1>7, <1>11, <1>12, Bystander
<1> QED
  BY <1>2, <1>3, <1>7, <1>13, JoinParts DEF Sound

\* The clock moves, a snapshot is swapped in, or nothing happens.
LEMMA PlaneSafe == ASSUME TypeOK, Sound, Tick \/ Swap \/ UNCHANGED vars PROVE TypeOK' /\ Sound'
<1>1. /\ SnapsType /\ PlaneType /\ ReqType /\ ClockType /\ snaps' = snaps /\ hook' = hook
      /\ arrived' = arrived /\ events' = events /\ req' = req
      /\ clock' = clock \/ (clock < MaxClock /\ clock' = clock + 1)
      /\ serving' = serving \/ (serving < Len(snaps) /\ serving' = Len(snaps))
  BY TypeParts DEF Tick, Swap, vars
<1>2. ClockType' /\ clock' >= clock
  BY <1>1, Settings DEF ClockType
<1>3. /\ SnapsType' /\ EventsType' /\ SnapsGrow /\ BansHold
      /\ \A g \in DOMAIN snaps', c \in Client : Earned(g, c)'
      /\ SparedFlowsNeverFeed' /\ OffWasAsked'
  BY <1>1, <1>2, QuietHistory
<1>4. PlaneType' /\ ReqType'
  BY <1>1 DEF PlaneType, ReqType, SnapsType
<1>5. \A q \in Slot : Vetted(q)' /\ HeldOff(q)' /\ SparedIsTrusted(q)'
  BY <1>1, <1>2, <1>3, Bystander
<1> QED
  BY <1>2, <1>3, <1>4, <1>5, JoinParts DEF Sound

LEMMA FedFinite ==
  ASSUME TypeOK, NEW g, NEW c, NEW from, NEW to
  PROVE  IsFiniteSet(Fed(g, c, from, to)) /\ Cardinality(Fed(g, c, from, to)) \in Nat
<1>1. IsFiniteSet(DOMAIN events)
  <2>1. DOMAIN events = 1..Len(events) /\ Len(events) \in Int
    BY EventsShape
  <2>2. IsFiniteSet(1..Len(events))
    BY <2>1, FS_Interval
  <2> QED
    BY <2>1, <2>2
<1>2. Fed(g, c, from, to) \subseteq DOMAIN events
  BY DEF Fed
<1>3. IsFiniteSet(Fed(g, c, from, to))
  BY <1>1, <1>2, FS_Subset
<1> QED
  BY <1>3, FS_CardinalityType

\* A new manager owes nothing to the past.
LEMMA WireSafe == ASSUME TypeOK, Sound, Wire PROVE TypeOK' /\ Sound'
<1>1. PICK rev \in Published : snaps' = Append(snaps, Built(rev))
  BY DEF Wire
<1>2. /\ SnapsType /\ PlaneType /\ ReqType /\ ClockType /\ EventsType /\ snaps \in Seq(Snapshots)
      /\ Len(snaps) \in Nat /\ DOMAIN snaps = 1..Len(snaps) /\ serving = Len(snaps)
      /\ hook' = Hooked(Len(snaps'))
      /\ serving' = serving /\ arrived' = arrived /\ events' = events /\ clock' = clock /\ req' = req
  BY TypeParts DEF Wire, SnapsType
<1>3. /\ Built(rev) \in Snapshots /\ Built(rev).off = {}
      /\ \A c \in Client : Built(rev).counts[c] = NoWindow /\ Built(rev).bans[c] = 0
  BY FreshType DEF Built
<1>4. /\ snaps' \in Seq(Snapshots) /\ Len(snaps') = Len(snaps) + 1 /\ DOMAIN snaps' = 1..(Len(snaps) + 1)
      /\ snaps'[Len(snaps) + 1] = Built(rev) /\ \A g \in DOMAIN snaps : snaps'[g] = snaps[g]
  BY <1>1, <1>2, <1>3
<1>5. SnapsGrow /\ BansHold
  BY <1>2, <1>4 DEF SnapsGrow, BansHold
<1>6. BelowThreshold(Built(rev))
  <2>1. Doc(Built(rev)).penalty.threshold \in Nat /\ Doc(Built(rev)).penalty.threshold > 0
    BY <1>3, SnapshotType
  <2>2. NoWindow.n = 0
    BY DEF NoWindow
  <2> QED
    BY <1>3, <2>1, <2>2 DEF BelowThreshold
<1>7. SnapsType'
  <2>1. \A g \in DOMAIN snaps' : g \in DOMAIN snaps \/ g = Len(snaps) + 1
    BY <1>2, <1>4
  <2>2. \A g \in DOMAIN snaps' : BelowThreshold(snaps'[g])
    BY <1>2, <1>4, <1>6, <2>1 DEF SnapsType
  <2> QED
    BY <1>4, <2>2 DEF SnapsType, BelowThreshold, Doc
<1>8. PlaneType'
  <2>1. Hooked(Len(snaps')) \in 0..Len(snaps')
    BY <1>2, <1>4 DEF Hooked
  <2> QED
    BY <1>2, <1>4, <2>1 DEF PlaneType
<1>9. ReqType'
  <2>1. 1..Len(snaps) \subseteq 1..Len(snaps')
    BY <1>2, <1>4
  <2>2. Requests(Len(snaps)) \subseteq Requests(Len(snaps'))
    BY <2>1 DEF Requests
  <2> QED
    BY <1>2, <2>2 DEF ReqType
<1>10. ClockType' /\ clock' >= clock
  BY <1>2 DEF ClockType
<1>11. EventsType'
  <2>1. 1..Len(snaps) \subseteq 1..Len(snaps') /\ 0..Len(snaps) \subseteq 0..Len(snaps')
    BY <1>2, <1>4
  <2>2. Events(Len(snaps), clock) \subseteq Events(Len(snaps'), clock)
    BY <2>1 DEF Events
  <2>3. events \in Seq(Events(Len(snaps'), clock))
    BY <1>2, <2>2 DEF EventsType
  <2> QED
    BY <1>2, <2>3 DEF EventsType, Events
<1>12. TypeOK'
  BY <1>7, <1>8, <1>9, <1>10, <1>11, JoinParts
<1>13. \A q \in Slot : Vetted(q)' /\ HeldOff(q)' /\ SparedIsTrusted(q)'
  BY <1>2, <1>5, <1>10, Bystander
<1>14. SparedFlowsNeverFeed'
  BY <1>2, <1>5, HistoryKept
<1>15. ASSUME NEW g \in DOMAIN snaps', NEW c \in Client PROVE Earned(g, c)'
  <2>1. CASE g \in DOMAIN snaps
    BY <1>2, <1>4, <1>5, <1>10, <2>1, EarnedKept
  <2>2. CASE g = Len(snaps) + 1
    <3>1. snaps'[g].bans[c] = 0 /\ snaps'[g].counts[c] = NoWindow
          /\ NoWindow.n = 0 /\ NoWindow.start = 0
      BY <1>3, <1>4, <2>2 DEF NoWindow
    <3>2. \A from, to : Cardinality(Fed(g, c, from, to)') \in Nat
      <4>1. \A from, to : Fed(g, c, from, to)' = Fed(g, c, from, to)
        BY <1>2 DEF Fed
      <4> QED
        BY <4>1, FedFinite
    <3>3. clock' \in Nat /\ Ban \in Nat
      BY <1>10, Settings DEF ClockType
    <3>4. PICK f : f = snaps'[g].counts[c].start
      OBVIOUS
    <3>5. Cardinality(Fed(g, c, f, f + Window - 1)') >= 0
      BY <3>2
    <3>6. Cardinality(Fed(g, c, snaps[g].counts[c].start, snaps[g].counts[c].start + Window - 1)')
            >= snaps'[g].counts[c].n
      BY <3>1, <3>4, <3>5 DEF Fed
    <3>7. snaps'[g].bans[c] <= clock' + Ban
      BY <3>1, <3>3
    <3>8. snaps'[g].counts[c].start = 0
      BY <3>1
    <3>9. snaps'[g].counts[c].start <= clock'
      BY <3>3, <3>8
    <3> QED
      BY <3>1, <3>6, <3>7, <3>9 DEF Earned
  <2> QED
    BY <1>2, <1>4, <2>1, <2>2
<1>16. OffWasAsked'
  <2>1. ASSUME NEW g \in DOMAIN snaps', NEW o \in snaps'[g].off
        PROVE  g \in DOMAIN snaps /\ o \in snaps[g].off /\ Doc(snaps'[g]) = Doc(snaps[g])
    BY <1>2, <1>3, <1>4
  <2> QED
    BY <2>1 DEF Sound, OffWasAsked, Doc
<1> QED
  BY <1>12, <1>13, <1>14, <1>15, <1>16 DEF Sound

\* A request arrives on the serving snapshot, with the ban it holds against its client.
LEMMA ArriveSafe == ASSUME TypeOK, Sound, NEW r \in Slot, Arrive(r) PROVE TypeOK' /\ Sound'
<1> DEFINE doc == Doc(snaps[serving])
           new(in) == [Idle EXCEPT !.snap = serving, !.in = in, !.held = snaps[serving].bans[in.client]]
<1>1. PICK in \in Input :
        \/ /\ Preflight(doc, in) \in PreflightRefusals
           /\ req' = [req EXCEPT ![r] = [new(in) EXCEPT !.pc = "decide", !.act = "deny"]]
        \/ /\ Preflight(doc, in) = "inspect"
           /\ req' = [req EXCEPT ![r] = [new(in) EXCEPT !.pc = "inspect", !.at = 1]]
  BY DEF Arrive
<1>2. /\ SnapsType /\ PlaneType /\ ReqType /\ ClockType /\ snaps' = snaps /\ serving' = serving
      /\ hook' = hook /\ events' = events /\ clock' = clock
      /\ arrived < MaxRequests /\ arrived' = arrived + 1
  BY TypeParts DEF Arrive
<1>3. ClockType' /\ clock' >= clock /\ PlaneType' /\ clock \in Nat /\ Ban \in Nat
  BY <1>2, Settings DEF ClockType, PlaneType
<1>4. /\ SnapsType' /\ EventsType' /\ SnapsGrow /\ BansHold
      /\ \A g \in DOMAIN snaps', c \in Client : Earned(g, c)'
      /\ SparedFlowsNeverFeed' /\ OffWasAsked'
  BY <1>2, <1>3, QuietHistory
<1>5. /\ in.client \in Client /\ serving \in DOMAIN snaps /\ serving \in 1..Len(snaps)
      /\ snaps[serving] \in Snapshots
  BY <1>2, InputType DEF SnapsType, PlaneType
<1> DEFINE b == snaps[serving].bans[in.client]
<1>6. b \in Tick0 /\ b \in Nat /\ b <= clock + Ban
  BY <1>5, SnapshotType DEF Sound, Earned
<1>7. Idle \in Requests(Len(snaps)) /\ Idle.at = 0 /\ Idle.trusted = FALSE
  BY <1>2, IdleShape DEF PlaneType, SnapsType
<1>8. \E x \in Requests(Len(snaps)) :
        /\ req' = [req EXCEPT ![r] = x] /\ x.snap = serving /\ x.in = in /\ x.held = b /\ ~x.trusted
        /\ \/ x.pc = "decide" /\ x.at = 0 /\ Preflight(doc, in) \in PreflightRefusals
           \/ x.pc = "inspect" /\ x.at = 1 /\ Preflight(doc, in) = "inspect"
  <2> HIDE DEF b, doc
  <2>1. CASE /\ Preflight(doc, in) \in PreflightRefusals
             /\ req' = [req EXCEPT ![r] = [new(in) EXCEPT !.pc = "decide", !.act = "deny"]]
    <3> DEFINE x == [Idle EXCEPT !.snap = serving, !.in = in, !.held = b, !.pc = "decide", !.act = "deny"]
    <3>1. x \in Requests(Len(snaps)) /\ x.snap = serving /\ x.in = in /\ x.held = b /\ x.pc = "decide"
          /\ x.at = Idle.at /\ x.trusted = Idle.trusted
      BY <1>5, <1>6, <1>7 DEF Requests
    <3>2. req' = [req EXCEPT ![r] = x]
      BY <1>7, <2>1 DEF Requests, b
    <3> QED
      BY <1>7, <2>1, <3>1, <3>2
  <2>2. CASE /\ Preflight(doc, in) = "inspect"
             /\ req' = [req EXCEPT ![r] = [new(in) EXCEPT !.pc = "inspect", !.at = 1]]
    <3> DEFINE one == 1
               x == [Idle EXCEPT !.snap = serving, !.in = in, !.held = b, !.pc = "inspect", !.at = one]
    <3>0. one \in 0..11
      OBVIOUS
    <3> HIDE DEF one
    <3>1. x \in Requests(Len(snaps)) /\ x.snap = serving /\ x.in = in /\ x.held = b /\ x.pc = "inspect"
          /\ x.at = one /\ x.trusted = Idle.trusted
      BY <1>5, <1>6, <1>7, <3>0 DEF Requests
    <3>2. req' = [req EXCEPT ![r] = x]
      BY <1>7, <2>2 DEF Requests, b, one
    <3> QED
      BY <1>7, <2>2, <3>1, <3>2 DEF one
  <2> QED
    BY <1>1, <2>1, <2>2 DEF doc
<1>9. PICK x \in Requests(Len(snaps)) :
        /\ req' = [req EXCEPT ![r] = x] /\ x.snap = serving /\ x.in = in /\ x.held = b /\ ~x.trusted
        /\ \/ x.pc = "decide" /\ x.at = 0 /\ Preflight(doc, in) \in PreflightRefusals
           \/ x.pc = "inspect" /\ x.at = 1 /\ Preflight(doc, in) = "inspect"
  BY <1>8
<1>10. ReqType' /\ req'[r] = x /\ \A q \in Slot \ {r} : req'[q] = req[q]
  BY <1>2, <1>9 DEF ReqType
<1>11. In(r)' = in /\ Policy(r)' = doc /\ Snap(r)' = snaps[serving]
  BY <1>2, <1>9, <1>10 DEF In, Policy, Snap, Doc
<1>12. Preflight(doc, in) = "inspect" => in.host \in Site
  BY DEF Preflight
<1>13. Vetted(r)'
  <2>1. 1..(1 - 1) = {}
    OBVIOUS
  <2>2. x.pc = "inspect" \/ (x.pc = "decide" /\ x.at # 0) => x.at = 1 /\ x.pc = "inspect" /\ in.host \in Site
    BY <1>9, <1>12
  <2> QED
    BY <1>9, <1>10, <1>11, <2>1, <2>2 DEF Vetted
<1>14. HeldOff(r)'
  BY <1>2, <1>6, <1>9, <1>10, <1>11 DEF HeldOff
<1>15. SparedIsTrusted(r)'
  BY <1>9, <1>10, <1>11 DEF SparedIsTrusted
<1>16. \A q \in Slot : Vetted(q)' /\ HeldOff(q)' /\ SparedIsTrusted(q)'
  BY <1>3, <1>4, <1>10, <1>13, <1>14, <1>15, Bystander
<1> QED
  BY <1>3, <1>4, <1>10, <1>16, JoinParts DEF Sound

\* One more event.
LEMMA FedGrows ==
  ASSUME TypeOK, NEW e, events' = Append(events, e), NEW g, NEW c, NEW from, NEW to
  PROVE  /\ Fed(g, c, from, to) \subseteq Fed(g, c, from, to)'
         /\ IsFiniteSet(Fed(g, c, from, to)') /\ Cardinality(Fed(g, c, from, to)') \in Nat
         /\ Cardinality(Fed(g, c, from, to)') >= Cardinality(Fed(g, c, from, to))
         /\ e.fed = g /\ e.client = c /\ e.at \in from..to =>
              Cardinality(Fed(g, c, from, to)') >= Cardinality(Fed(g, c, from, to)) + 1
<1>1. /\ Len(events) \in Nat /\ DOMAIN events = 1..Len(events) /\ EventsType
  BY EventsShape, TypeParts
<1>2. /\ DOMAIN events' = 1..(Len(events) + 1) /\ events'[Len(events) + 1] = e
      /\ \A i \in DOMAIN events : events'[i] = events[i]
  BY <1>1 DEF EventsType
<1> DEFINE n == Len(events) + 1
           F == Fed(g, c, from, to)
<1>3. F \subseteq DOMAIN events /\ n \notin F /\ IsFiniteSet(F) /\ Cardinality(F) \in Nat
  <2>1. F \subseteq DOMAIN events
    BY DEF Fed
  <2>2. n \notin DOMAIN events
    BY <1>1
  <2> QED
    BY <2>1, <2>2, FedFinite
<1>4. F \subseteq Fed(g, c, from, to)'
  BY <1>1, <1>2 DEF Fed
<1>5. IsFiniteSet(Fed(g, c, from, to)')
  <2>1. IsFiniteSet(1..n)
    BY <1>1, FS_Interval
  <2>2. Fed(g, c, from, to)' \subseteq 1..n
    BY <1>2 DEF Fed
  <2> QED
    BY <2>1, <2>2, FS_Subset
<1>6. e.fed = g /\ e.client = c /\ e.at \in from..to => n \in Fed(g, c, from, to)'
  BY <1>1, <1>2 DEF Fed
<1>7. Cardinality(F \cup {n}) = Cardinality(F) + 1 /\ IsFiniteSet(F \cup {n})
  BY <1>3, FS_AddElement
<1>8. PICK G : G = Fed(g, c, from, to)'
  OBVIOUS
<1> HIDE DEF F, n
<1>9. IsFiniteSet(G) /\ F \subseteq G
      /\ (e.fed = g /\ e.client = c /\ e.at \in from..to => F \cup {n} \subseteq G)
  BY <1>4, <1>5, <1>6, <1>8
<1>10. Cardinality(G) \in Nat /\ Cardinality(F) <= Cardinality(G)
  BY <1>9, FS_Subset, FS_CardinalityType
<1>11. F \cup {n} \subseteq G => Cardinality(F) + 1 <= Cardinality(G)
  BY <1>7, <1>9, FS_Subset
<1> QED
  BY <1>3, <1>4, <1>5, <1>8, <1>9, <1>10, <1>11 DEF F

LEMMA RecentGrows ==
  ASSUME TypeOK, NEW e, events' = Append(events, e), NEW g, NEW c, NEW t
  PROVE  /\ Recent(g, c, t) \subseteq Recent(g, c, t)'
         /\ Cardinality(Recent(g, c, t)) \in Nat /\ Cardinality(Recent(g, c, t)') \in Nat
         /\ Cardinality(Recent(g, c, t)') >= Cardinality(Recent(g, c, t))
<1>1. Recent(g, c, t) \subseteq Recent(g, c, t)'
  <2>1. Fed(g, c, 0, t) \subseteq Fed(g, c, 0, t)' /\ Fed(g, c, 0, t) \subseteq DOMAIN events
    BY FedGrows DEF Fed
  <2>2. \A i \in DOMAIN events : events'[i] = events[i]
    BY TypeParts DEF EventsType
  <2> QED
    BY <2>1, <2>2 DEF Recent
<1>2. IsFiniteSet(Fed(g, c, 0, t)') /\ Recent(g, c, t)' \subseteq Fed(g, c, 0, t)'
  BY FedGrows DEF Recent
<1>3. PICK G : G = Recent(g, c, t)'
  OBVIOUS
<1>4. IsFiniteSet(G)
  BY <1>2, <1>3, FS_Subset
<1> DEFINE R == Recent(g, c, t)
<1> HIDE DEF R
<1>5. R \subseteq G
  BY <1>1, <1>3 DEF R
<1>6. IsFiniteSet(R) /\ Cardinality(R) \in Nat /\ Cardinality(G) \in Nat /\ Cardinality(R) <= Cardinality(G)
  BY <1>4, <1>5, FS_Subset, FS_CardinalityType
<1> QED
  BY <1>1, <1>3, <1>6 DEF R

\* The event that fills the window.
LEMMA RecentFilled ==
  ASSUME TypeOK, NEW e, events' = Append(events, e), NEW g, NEW c, e.fed = g, e.client = c,
         NEW t \in Nat, t = clock, e.at = t, NEW f \in Nat
  PROVE  /\ Cardinality(Recent(g, c, t)') >= 1
         /\ f <= t /\ t - f < Window =>
              Cardinality(Recent(g, c, t)') >= Cardinality(Fed(g, c, f, f + Window - 1)) + 1
<1>1. /\ Len(events) \in Nat /\ DOMAIN events = 1..Len(events) /\ EventsType
      /\ Window \in Nat /\ Window > 0
      /\ \A i \in DOMAIN events : events[i].at \in 1..t
  BY EventsShape, TypeParts, Settings
<1>2. /\ DOMAIN events' = 1..(Len(events) + 1) /\ events'[Len(events) + 1] = e
      /\ \A i \in DOMAIN events : events'[i] = events[i]
  BY <1>1 DEF EventsType
<1> DEFINE n == Len(events) + 1
           F == Fed(g, c, f, f + Window - 1)
<1>3. PICK G : G = Recent(g, c, t)'
  OBVIOUS
<1>4. IsFiniteSet(G)
  <2>1. IsFiniteSet(Fed(g, c, 0, t)') /\ Recent(g, c, t)' \subseteq Fed(g, c, 0, t)'
    BY FedGrows DEF Recent
  <2> QED
    BY <1>3, <2>1, FS_Subset
<1>5. n \in G
  BY <1>1, <1>2, <1>3 DEF Recent, Fed
<1>6. F \subseteq DOMAIN events /\ n \notin F /\ IsFiniteSet(F) /\ Cardinality(F) \in Nat
  <2>1. F \subseteq DOMAIN events
    BY DEF Fed
  <2>2. n \notin DOMAIN events
    BY <1>1
  <2> QED
    BY <2>1, <2>2, FedFinite
<1>7. ASSUME f <= t, t - f < Window PROVE F \subseteq G
  <2>1. ASSUME NEW i \in F PROVE i \in G
    <3>1. /\ i \in DOMAIN events /\ events[i].fed = g /\ events[i].client = c
          /\ events[i].at \in f..(f + Window - 1) /\ events[i].at \in 1..t
      BY <1>1, <2>1 DEF Fed
    <3>2. events[i].at \in 0..t /\ t - events[i].at < Window
      BY <1>1, <1>7, <3>1
    <3>3. i \in DOMAIN events' /\ events'[i] = events[i]
      BY <1>1, <1>2, <3>1
    <3> QED
      BY <1>3, <3>1, <3>2, <3>3 DEF Recent, Fed
  <2> QED
    BY <2>1
<1>8. Cardinality(F \cup {n}) = Cardinality(F) + 1 /\ IsFiniteSet(F \cup {n})
  BY <1>6, FS_AddElement
<1>9. Cardinality({n}) = 1
  BY FS_Singleton
<1> HIDE DEF F, n
<1>10. {n} \subseteq G /\ Cardinality(G) \in Nat
  BY <1>4, <1>5, FS_CardinalityType
<1>11. 1 <= Cardinality(G)
  BY <1>4, <1>9, <1>10, FS_Subset
<1>12. F \cup {n} \subseteq G => Cardinality(F) + 1 <= Cardinality(G)
  BY <1>4, <1>8, FS_Subset
<1> QED
  BY <1>3, <1>5, <1>6, <1>7, <1>10, <1>11, <1>12 DEF F

\* A client whose window and ban the event leaves alone.
LEMMA EarnedGrows ==
  ASSUME TypeOK, Sound, SnapsGrow, NEW e, events' = Append(events, e), clock' = clock,
         NEW g \in DOMAIN snaps, NEW c \in Client,
         snaps'[g].bans[c] = snaps[g].bans[c], snaps'[g].counts[c] = snaps[g].counts[c]
  PROVE  Earned(g, c)'
<1>1. Earned(g, c) /\ Doc(snaps[g])' = Doc(snaps[g])
  BY DEF Sound, SnapsGrow, Doc
<1>2. PICK f : f = snaps[g].counts[c].start
  OBVIOUS
<1>3. PICK t : t = snaps[g].bans[c] - Ban
  OBVIOUS
<1>4. snaps[g].counts[c].n \in Nat /\ Doc(snaps[g]).penalty.threshold \in Nat
  BY TypeParts, SnapshotType DEF SnapsType, Windows
<1>5. Cardinality(Fed(g, c, f, f + Window - 1)') \in Nat /\ Cardinality(Fed(g, c, f, f + Window - 1)) \in Nat
      /\ Cardinality(Fed(g, c, f, f + Window - 1)') >= Cardinality(Fed(g, c, f, f + Window - 1))
  BY FedGrows, FedFinite
<1>6. /\ Cardinality(Recent(g, c, t)) \in Nat /\ Cardinality(Recent(g, c, t)') \in Nat
      /\ Cardinality(Recent(g, c, t)') >= Cardinality(Recent(g, c, t))
  BY RecentGrows
<1>7. Doc(snaps[g]).penalty.mode = "deny" =>
        /\ snaps[g].counts[c].start <= clock
        /\ Cardinality(Fed(g, c, f, f + Window - 1)) >= snaps[g].counts[c].n
        /\ snaps[g].bans[c] # 0 => Cardinality(Recent(g, c, t)) >= Doc(snaps[g]).penalty.threshold
  BY <1>1, <1>2, <1>3 DEF Earned
<1>8. Doc(snaps[g]).penalty.mode = "deny" =>
        /\ Cardinality(Fed(g, c, f, f + Window - 1)') >= snaps[g].counts[c].n
        /\ snaps[g].bans[c] # 0 => Cardinality(Recent(g, c, t)') >= Doc(snaps[g]).penalty.threshold
  <2> DEFINE n    == snaps[g].counts[c].n
             lim  == Doc(snaps[g]).penalty.threshold
             fed  == Cardinality(Fed(g, c, f, f + Window - 1))
             fedN == Cardinality(Fed(g, c, f, f + Window - 1)')
             rec  == Cardinality(Recent(g, c, t))
             recN == Cardinality(Recent(g, c, t)')
  <2> SUFFICES ASSUME Doc(snaps[g]).penalty.mode = "deny"
               PROVE  fedN >= n /\ (snaps[g].bans[c] # 0 => recN >= lim)
    OBVIOUS
  <2>1. n \in Nat /\ fed \in Nat /\ fedN \in Nat /\ fedN >= fed /\ fed >= n
    BY <1>4, <1>5, <1>7
  <2>2. lim \in Nat /\ rec \in Nat /\ recN \in Nat /\ recN >= rec
        /\ (snaps[g].bans[c] # 0 => rec >= lim)
    BY <1>4, <1>6, <1>7
  <2> HIDE DEF n, lim, fed, fedN, rec, recN
  <2> QED
    BY <2>1, <2>2
<1>9. f = snaps'[g].counts[c].start /\ t = snaps'[g].bans[c] - Ban
  BY <1>2, <1>3
<1>10. Doc(snaps[g])'.penalty.mode = "deny" =>
         Cardinality(Fed(g, c, snaps[g].counts[c].start, snaps[g].counts[c].start + Window - 1)')
           >= snaps'[g].counts[c].n
  BY <1>1, <1>8, <1>9 DEF Fed
<1>11. Doc(snaps[g])'.penalty.mode = "deny" /\ snaps'[g].bans[c] # 0 =>
         Cardinality(Recent(g, c, snaps[g].bans[c] - Ban)') >= Doc(snaps[g])'.penalty.threshold
  BY <1>1, <1>8, <1>9 DEF Recent, Fed
<1>12. snaps'[g].bans[c] <= clock' + Ban
       /\ (Doc(snaps[g])'.penalty.mode = "deny" => snaps'[g].counts[c].start <= clock')
  BY <1>1, <1>7 DEF Earned
<1> QED
  BY <1>10, <1>11, <1>12 DEF Earned

\* The client of the event: its window is counted on, or it is banned for what the
\* window holds.
LEMMA EarnedByObserve ==
  ASSUME TypeOK, Sound, SnapsGrow, NEW e, events' = Append(events, e), clock' = clock,
         NEW g \in DOMAIN snaps, NEW c \in Client, e.fed = g, e.client = c, e.at = clock,
         snaps'[g] = Observed(snaps[g], c)
  PROVE  Earned(g, c)'
<1> DEFINE s == snaps[g]
           w == Counted(s.counts[c], Window)
<1>1. Earned(g, c) /\ Doc(snaps[g])' = Doc(snaps[g])
  BY DEF Sound, SnapsGrow, Doc
<1>2. /\ clock \in 1..MaxClock /\ clock \in Nat /\ s \in Snapshots /\ s.counts[c] \in Windows
      /\ Doc(s).penalty.threshold \in Nat /\ s.bans[c] \in Nat /\ Ban \in Nat
      /\ Window \in Nat /\ Window > 0
  BY TypeParts, SnapshotType, Settings DEF SnapsType, ClockType
<1>3. \/ Observed(s, c) = s /\ Doc(s).penalty.mode = "off"
      \/ /\ Observed(s, c).counts[c] = w /\ w.n < Doc(s).penalty.threshold
         /\ Observed(s, c).bans[c] = s.bans[c]
      \/ /\ Observed(s, c).counts[c] = NoWindow /\ Observed(s, c).bans[c] = clock + Ban
         /\ ~(w.n < Doc(s).penalty.threshold)
  BY <1>2, ObservedEffect
<1>4. PICK f : f = s.counts[c].start
  OBVIOUS
<1>5. f \in Nat /\ s.counts[c].n \in Nat
  BY <1>2, <1>4, Settings DEF Windows
<1>6. PICK t \in Nat : t = clock
  BY <1>2
<1>7. \/ w.start = t /\ w.n = 1
      \/ ~(t - f >= Window) /\ w.start = f /\ w.n = s.counts[c].n + 1
  BY <1>2, <1>4, <1>6, CountedType
<1>8. s.bans[c] <= t + Ban
      /\ (Doc(s).penalty.mode = "deny" => f <= t /\ Cardinality(Fed(g, c, f, f + Window - 1)) >= s.counts[c].n)
  BY <1>1, <1>4, <1>6 DEF Earned
<1> HIDE DEF w
<1>9. CASE Observed(s, c) = s /\ Doc(s).penalty.mode = "off"
  BY <1>1, <1>6, <1>8, <1>9 DEF Earned
<1>10. CASE /\ Observed(s, c).counts[c] = w /\ w.n < Doc(s).penalty.threshold
            /\ Observed(s, c).bans[c] = s.bans[c]
  <2>1. PICK h : h = w.start
    OBVIOUS
  <2>2. PICK b : b = s.bans[c] - Ban
    OBVIOUS
  <2>3. snaps'[g].counts[c] = w /\ snaps'[g].bans[c] = s.bans[c]
    BY <1>10
  <2>4. /\ Cardinality(Fed(g, c, h, h + Window - 1)) \in Nat
        /\ Cardinality(Fed(g, c, h, h + Window - 1)') \in Nat
        /\ e.at \in h..(h + Window - 1) =>
             Cardinality(Fed(g, c, h, h + Window - 1)') >= Cardinality(Fed(g, c, h, h + Window - 1)) + 1
    BY FedGrows, FedFinite
  <2>5. Doc(s).penalty.mode = "deny" => h <= t /\ e.at \in h..(h + Window - 1)
    BY <1>2, <1>5, <1>6, <1>7, <1>8, <2>1
  <2>6. Doc(s).penalty.mode = "deny" => Cardinality(Fed(g, c, h, h + Window - 1)') >= w.n
    <3> DEFINE x == Cardinality(Fed(g, c, h, h + Window - 1)')
               y == Cardinality(Fed(g, c, h, h + Window - 1))
               n == s.counts[c].n
    <3>1. Doc(s).penalty.mode = "deny" => x \in Nat /\ y \in Nat /\ x >= y + 1
      BY <2>4, <2>5
    <3>2. CASE w.n = 1
      <4> HIDE DEF x, y
      <4> QED
        BY <3>1, <3>2 DEF x
    <3>3. CASE w.start = f /\ w.n = n + 1
      <4>1. Doc(s).penalty.mode = "deny" => y >= n
        BY <1>8, <2>1, <3>3
      <4> HIDE DEF x, y, n
      <4>2. n \in Nat
        BY <1>5 DEF n
      <4>3. Doc(s).penalty.mode = "deny" => x >= w.n
        BY <3>1, <3>3, <4>1, <4>2
      <4> QED
        BY <4>3 DEF x
    <3> QED
      BY <1>7, <3>2, <3>3
  <2>7. /\ Cardinality(Recent(g, c, b)) \in Nat /\ Cardinality(Recent(g, c, b)') \in Nat
        /\ Cardinality(Recent(g, c, b)') >= Cardinality(Recent(g, c, b))
    BY RecentGrows
  <2>8. Doc(s).penalty.mode = "deny" /\ s.bans[c] # 0 => Cardinality(Recent(g, c, b)) >= Doc(s).penalty.threshold
    BY <1>1, <2>2 DEF Earned
  <2>9. Doc(s).penalty.mode = "deny" /\ s.bans[c] # 0 => Cardinality(Recent(g, c, b)') >= Doc(s).penalty.threshold
    BY <1>2, <2>7, <2>8
  <2>10. Doc(snaps[g])'.penalty.mode = "deny" =>
           Cardinality(Fed(g, c, snaps[g].counts[c].start, snaps[g].counts[c].start + Window - 1)')
             >= snaps'[g].counts[c].n
    BY <1>1, <2>1, <2>3, <2>6 DEF Fed
  <2>11. Doc(snaps[g])'.penalty.mode = "deny" /\ snaps'[g].bans[c] # 0 =>
           Cardinality(Recent(g, c, snaps[g].bans[c] - Ban)') >= Doc(snaps[g])'.penalty.threshold
    BY <1>1, <2>2, <2>3, <2>9 DEF Recent, Fed
  <2>12. snaps'[g].bans[c] <= clock' + Ban
         /\ (Doc(snaps[g])'.penalty.mode = "deny" => snaps'[g].counts[c].start <= clock')
    BY <1>1, <1>6, <1>8, <2>1, <2>3, <2>5
  <2> QED
    BY <2>10, <2>11, <2>12 DEF Earned
<1>11. CASE /\ Observed(s, c).counts[c] = NoWindow /\ Observed(s, c).bans[c] = clock + Ban
            /\ ~(w.n < Doc(s).penalty.threshold)
  <2>1. /\ snaps'[g].counts[c] = NoWindow /\ NoWindow.n = 0 /\ NoWindow.start = 0
        /\ snaps'[g].bans[c] = t + Ban
    BY <1>6, <1>11 DEF NoWindow
  <2>2. PICK h : h = 0
    OBVIOUS
  <2>3. Cardinality(Fed(g, c, h, h + Window - 1)') \in Nat
    BY FedGrows
  <2>4. Cardinality(Fed(g, c, snaps[g].counts[c].start, snaps[g].counts[c].start + Window - 1)')
          >= snaps'[g].counts[c].n
    <3>1. Cardinality(Fed(g, c, h, h + Window - 1)') >= 0
      BY <2>3
    <3> QED
      BY <2>1, <2>2, <3>1 DEF Fed
  <2>5. /\ Cardinality(Recent(g, c, t)') >= 1
        /\ f <= t /\ t - f < Window =>
             Cardinality(Recent(g, c, t)') >= Cardinality(Fed(g, c, f, f + Window - 1)) + 1
    BY <1>5, <1>6, RecentFilled
  <2>6. Cardinality(Recent(g, c, t)') \in Nat /\ Cardinality(Fed(g, c, f, f + Window - 1)) \in Nat
    BY RecentGrows, FedFinite
  <2>7. Doc(s).penalty.mode = "deny" => Cardinality(Recent(g, c, t)') >= w.n
    <3> DEFINE x == Cardinality(Recent(g, c, t)')
               y == Cardinality(Fed(g, c, f, f + Window - 1))
               n == s.counts[c].n
    <3>1. x \in Nat /\ y \in Nat /\ n \in Nat /\ x >= 1
      BY <1>5, <2>5, <2>6
    <3>2. CASE w.n = 1
      BY <3>1, <3>2
    <3>3. CASE ~(t - f >= Window) /\ w.n = n + 1
      <4>1. Doc(s).penalty.mode = "deny" => y >= n /\ f <= t
        BY <1>8
      <4>2. t - f < Window
        BY <1>2, <1>5, <3>3
      <4>3. Doc(s).penalty.mode = "deny" => x >= y + 1
        BY <2>5, <4>1, <4>2
      <4> HIDE DEF x, y, n
      <4>4. Doc(s).penalty.mode = "deny" => x >= w.n
        BY <3>1, <3>3, <4>1, <4>3
      <4> QED
        BY <4>4 DEF x
    <3> QED
      BY <1>7, <3>2, <3>3
  <2>8. w.n \in Nat /\ w.n >= Doc(s).penalty.threshold
    <3> DEFINE n == s.counts[c].n
               th == Doc(s).penalty.threshold
               m == w.n
    <3>1. n \in Nat /\ th \in Nat /\ ~(m < th) /\ (m = 1 \/ m = n + 1)
      BY <1>2, <1>5, <1>7, <1>11
    <3> HIDE DEF n, th, m
    <3>2. m \in Nat /\ m >= th
      BY <3>1
    <3> QED
      BY <3>2 DEF m, th
  <2>9. Doc(s).penalty.mode = "deny" => Cardinality(Recent(g, c, t)') >= Doc(s).penalty.threshold
    BY <1>2, <2>6, <2>7, <2>8
  <2>10. snaps'[g].bans[c] - Ban = t
    BY <1>2, <2>1
  <2>11. Doc(snaps[g])'.penalty.mode = "deny" =>
           Cardinality(Recent(g, c, snaps[g].bans[c] - Ban)') >= Doc(snaps[g])'.penalty.threshold
    BY <1>1, <2>9, <2>10 DEF Recent, Fed
  <2>12. snaps'[g].bans[c] <= clock' + Ban
    BY <1>2, <1>6, <2>1
  <2>13. snaps'[g].counts[c].start = 0
    BY <2>1
  <2>14. snaps'[g].counts[c].start <= clock'
    BY <1>2, <2>13
  <2> QED
    BY <2>4, <2>11, <2>12, <2>14 DEF Earned
<1> QED
  BY <1>3, <1>9, <1>10, <1>11

\* What an answer writes down.
EventOf(r) ==
  [client |-> In(r).client, host |-> In(r).host, kind |-> In(r).kind, by |-> By(r),
   run |-> req[r].snap, under |-> serving, fed |-> hook, at |-> clock]

\* An answer that is written down feeds nothing an operator has cleared.
LEMMA EventOfShape ==
  ASSUME TypeOK, Sound, NEW r \in Slot, req[r].pc = "decide", req[r].at = 0 \/ SiteOf(r).intercept, Audited(r)
  PROVE  /\ EventOf(r) \in Events(Len(snaps), clock) /\ In(r).client \in Client
         /\ EventOf(r).run = req[r].snap /\ EventOf(r).fed = hook /\ EventOf(r).at = clock
         /\ EventOf(r).client = In(r).client /\ EventOf(r).host = In(r).host /\ EventOf(r).kind = In(r).kind
         /\ EventOf(r).by \notin PreflightRefusals =>
              /\ ~Whitelisted(Policy(r), In(r).host, In(r).client)
              /\ Exempt(Policy(r), In(r).host, In(r).kind) => EventOf(r).by \in {"acl", "penalty", "geo"}
              /\ Policy(r).site[In(r).host].intercept
<1>1. Vetted(r) /\ SparedIsTrusted(r)
  BY DEF Sound
<1>2. /\ In(r).client \in Client /\ In(r).kind \in Kind /\ In(r).host \in Site \cup {"unknown"}
      /\ req[r].at \in 0..10
  BY <1>1, InputType DEF Vetted, In
<1>3. /\ req[r].snap \in 1..Len(snaps)
      /\ serving \in 1..Len(snaps) /\ hook \in 0..Len(snaps) /\ clock \in 1..clock
  <2>1. req[r].snap \in 1..Len(snaps)
    BY RequestType
  <2>2. PlaneType /\ ClockType
    BY TypeParts
  <2>3. clock \in Nat /\ clock >= 1
    BY <2>2 DEF ClockType
  <2> QED
    BY <2>1, <2>2, <2>3 DEF PlaneType
<1>4. Pipe(r) = Stages[Snap(r).rev] /\ Snap(r).rev \in Revision
  BY RequestType
<1>5. req[r].at = 0 => By(r) \in PreflightRefusals
  BY <1>1, <1>2 DEF By, SparedIsTrusted
<1>6. req[r].at # 0 => By(r) = Pipe(r)[req[r].at] /\ req[r].at \in 1..10 /\ req[r].at # 4
  BY <1>1, <1>2 DEF By, SparedIsTrusted
<1>7. By(r) \in Refusers
  <2>1. req[r].at \in 1..10 => Pipe(r)[req[r].at] \in Refusers
    BY <1>4, StagePlace
  <2>2. PreflightRefusals \subseteq Refusers
    BY DEF Refusers
  <2> QED
    BY <1>5, <1>6, <2>1, <2>2
<1> DEFINE e == EventOf(r)
<1>8. /\ e.client = In(r).client /\ e.host = In(r).host /\ e.kind = In(r).kind /\ e.by = By(r)
      /\ e.run = req[r].snap /\ e.under = serving /\ e.fed = hook /\ e.at = clock
  BY DEF EventOf
<1>9. e \in Events(Len(snaps), clock)
  BY <1>2, <1>3, <1>7 DEF EventOf, Events
<1>10. ASSUME By(r) \notin PreflightRefusals
      PROVE  /\ ~Whitelisted(Policy(r), In(r).host, In(r).client)
             /\ Exempt(Policy(r), In(r).host, In(r).kind) => By(r) \in {"acl", "penalty", "geo"}
             /\ Policy(r).site[In(r).host].intercept
  <2>1. req[r].at \in 1..10 /\ req[r].at # 0 /\ ~req[r].trusted
    BY <1>5, <1>6, <1>10 DEF Audited
  <2>2. ~Whitelisted(Policy(r), In(r).host, In(r).client)
    BY <1>1, <2>1 DEF SparedIsTrusted
  <2>3. Exempt(Policy(r), In(r).host, In(r).kind) => req[r].at \in {1, 2, 3}
    BY <1>1, <1>6, <2>1 DEF SparedIsTrusted
  <2>4. req[r].at \in {1, 2, 3} => By(r) \in {"acl", "penalty", "geo"}
    <3>1. Pipe(r)[1] = "acl" /\ Pipe(r)[2] = "penalty" /\ Pipe(r)[3] = "geo"
      BY <1>4, StagesShape
    <3> QED
      BY <1>6, <2>1, <3>1
  <2> QED
    BY <2>1, <2>2, <2>3, <2>4 DEF SiteOf
<1> QED
  BY <1>2, <1>8, <1>9, <1>10

LEMMA ObservedBelow ==
  ASSUME clock \in 1..MaxClock, NEW s \in Snapshots, BelowThreshold(s), NEW c \in Client
  PROVE  BelowThreshold(Observed(s, c))
<1>1. Doc(Observed(s, c)) = Doc(s) /\ Doc(s).penalty.threshold \in Nat /\ Doc(s).penalty.threshold > 0
  BY ObservedEffect, SnapshotType DEF Doc
<1>2. NoWindow.n = 0
  BY DEF NoWindow
<1>3. ASSUME Doc(s).penalty.mode = "deny", NEW d \in Client
      PROVE  Observed(s, c).counts[d].n < Doc(s).penalty.threshold
  <2>1. CASE d = c
    <3>1. \/ Observed(s, c).counts[c] = Counted(s.counts[c], Window)
             /\ Counted(s.counts[c], Window).n < Doc(s).penalty.threshold
          \/ Observed(s, c).counts[c] = NoWindow
      BY <1>3, ObservedEffect
    <3> QED
      BY <1>1, <1>2, <2>1, <3>1
  <2>2. CASE d # c
    <3>1. d \in Client \ {c}
      BY <2>2
    <3>2. Observed(s, c).counts[d] = s.counts[d]
      BY <3>1, ObservedEffect
    <3> QED
      BY <1>3, <3>2 DEF BelowThreshold
  <2> QED
    BY <2>1, <2>2
<1> QED
  BY <1>1, <1>3 DEF BelowThreshold

\* An answer: its event goes to the manager the hook is on.
LEMMA AnswerSafe == ASSUME TypeOK, Sound, NEW r \in Slot, Answer(r) PROVE TypeOK' /\ Sound'
<1>1. /\ SnapsType /\ PlaneType /\ ReqType /\ ClockType /\ EventsType
      /\ Len(snaps) \in Nat /\ Len(snaps) >= 1 /\ DOMAIN snaps = 1..Len(snaps)
      /\ serving' = serving /\ hook' = hook /\ arrived' = arrived /\ clock' = clock
      /\ req' = [req EXCEPT ![r] = Idle] /\ req[r].pc = "decide" /\ (req[r].at = 0 \/ SiteOf(r).intercept)
  BY TypeParts DEF Answer, SnapsType, PlaneType
<1>2. ClockType' /\ clock \in Nat /\ clock' >= clock
  BY <1>1 DEF ClockType
<1>3. \A q \in Slot \ {r} : req'[q] = req[q]
  BY <1>1 DEF ReqType
<1>4. req'[r] = Idle
  BY <1>1 DEF ReqType
<1>5. Len(snaps') = Len(snaps) => PlaneType' /\ ReqType'
  <2>1. Idle \in Requests(Len(snaps))
    BY <1>1, IdleShape
  <2> QED
    BY <1>1, <2>1 DEF PlaneType, ReqType
<1>6. CASE ~Audited(r)
  <2>1. snaps' = snaps /\ events' = events
    BY <1>6 DEF Answer
  <2>2. /\ SnapsType' /\ EventsType' /\ SnapsGrow /\ BansHold
        /\ \A g \in DOMAIN snaps', c \in Client : Earned(g, c)'
        /\ SparedFlowsNeverFeed' /\ OffWasAsked'
    BY <1>2, <2>1, QuietHistory
  <2>3. \A q \in Slot : Vetted(q)' /\ HeldOff(q)' /\ SparedIsTrusted(q)'
    BY <1>2, <1>3, <1>4, <2>2, IdleSafe, Bystander
  <2> QED
    BY <1>2, <1>5, <2>1, <2>2, <2>3, JoinParts DEF Sound
<1>7. CASE Audited(r)
  <2> DEFINE e == EventOf(r)
             c == In(r).client
  <2>1. events' = Append(events, e)
    BY <1>7 DEF Answer, EventOf
  <2>2. /\ e \in Events(Len(snaps), clock) /\ c \in Client /\ e.client = c
        /\ e.run = req[r].snap /\ e.fed = hook /\ e.at = clock
        /\ e.host = In(r).host /\ e.kind = In(r).kind
        /\ e.by \notin PreflightRefusals =>
             /\ ~Whitelisted(Policy(r), In(r).host, In(r).client)
             /\ Exempt(Policy(r), In(r).host, In(r).kind) => e.by \in {"acl", "penalty", "geo"}
             /\ Policy(r).site[In(r).host].intercept
    BY <1>1, <1>7, EventOfShape
  <2>3. PICK k \in Events(Len(snaps), clock) : k = e
    BY <2>2
  <2>4. PICK d \in Client : d = c
    BY <2>2
  \* What becomes of the snapshots.
  <2>5. /\ SnapsType' /\ SnapsGrow /\ Len(snaps') = Len(snaps) /\ DOMAIN snaps' = DOMAIN snaps
        /\ hook \in DOMAIN snaps => snaps'[hook] = Observed(snaps[hook], d)
        /\ \A h \in DOMAIN snaps \ {hook} : snaps'[h] = snaps[h]
    <3>1. CASE hook = 0
      <4>1. snaps' = snaps
        BY <1>7, <3>1 DEF Answer
      <4>2. SnapsType' /\ SnapsGrow
        BY <1>1, <4>1 DEF SnapsType, SnapsGrow, BelowThreshold, Doc
      <4> QED
        BY <1>1, <3>1, <4>1, <4>2
    <3>2. CASE hook # 0
      <4>1. hook \in DOMAIN snaps /\ snaps[hook] \in Snapshots /\ BelowThreshold(snaps[hook])
        <5>1. hook \in 0..Len(snaps)
          BY <1>1 DEF PlaneType
        <5>2. hook \in DOMAIN snaps
          BY <1>1, <3>2, <5>1
        <5> QED
          BY <1>1, <5>2 DEF SnapsType
      <4> DEFINE s == Observed(snaps[hook], d)
      <4>2. s \in Snapshots /\ s.rev = snaps[hook].rev /\ s.off = snaps[hook].off
        BY <1>1, <4>1, ObservedEffect DEF ClockType
      <4>3. BelowThreshold(s)
        BY <1>1, <4>1, ObservedBelow DEF ClockType
      <4>4. snaps' = [snaps EXCEPT ![hook] = s]
        BY <1>7, <2>4, <3>2, <4>1 DEF Answer
      <4> HIDE DEF s
      <4>5. /\ SnapsType' /\ SnapsGrow /\ Len(snaps') = Len(snaps) /\ DOMAIN snaps' = DOMAIN snaps
            /\ snaps'[hook] = s /\ \A h \in DOMAIN snaps \ {hook} : snaps'[h] = snaps[h]
        BY <1>1, <4>1, <4>2, <4>3, <4>4, SnapSet
      <4> QED
        BY <4>5 DEF s
    <3> QED
      BY <3>1, <3>2
  <2>6. \A h \in DOMAIN snaps :
          /\ snaps'[h].off = snaps[h].off /\ Doc(snaps[h])' = Doc(snaps[h])
          /\ \A b \in Client \ {d} : snaps'[h].counts[b] = snaps[h].counts[b]
                                     /\ snaps'[h].bans[b] = snaps[h].bans[b]
          /\ snaps'[h].bans[d] = snaps[h].bans[d] \/ snaps'[h].bans[d] = clock + Ban
    <3>1. ASSUME NEW h \in DOMAIN snaps PROVE Doc(snaps[h])' = Doc(snaps[h])
      BY <2>5 DEF SnapsGrow, Doc
    <3>2. ASSUME hook \in DOMAIN snaps
          PROVE  /\ snaps'[hook].off = snaps[hook].off
                 /\ \A b \in Client \ {d} : snaps'[hook].counts[b] = snaps[hook].counts[b]
                                            /\ snaps'[hook].bans[b] = snaps[hook].bans[b]
                 /\ snaps'[hook].bans[d] = snaps[hook].bans[d] \/ snaps'[hook].bans[d] = clock + Ban
      <4>1. snaps[hook] \in Snapshots
        BY <1>1, <3>2 DEF SnapsType
      <4> QED
        BY <1>1, <2>5, <3>2, <4>1, ObservedEffect DEF ClockType
    <3>3. ASSUME NEW h \in DOMAIN snaps, h # hook PROVE snaps'[h] = snaps[h]
      BY <2>5, <3>3
    <3> TAKE h \in DOMAIN snaps
    <3>4. CASE h = hook
      BY <3>1, <3>2, <3>4
    <3>5. CASE h # hook
      BY <3>1, <3>3, <3>5
    <3> QED
      BY <3>4, <3>5
  <2>7. BansHold
    BY <2>6 DEF BansHold
  <2>8. EventsType'
    <3>1. Append(events, k) \in Seq(Events(Len(snaps), clock))
      BY <1>1 DEF EventsType
    <3> QED
      BY <1>1, <2>1, <2>3, <2>5, <3>1 DEF EventsType, Events
  <2>9. \A q \in Slot : Vetted(q)' /\ HeldOff(q)' /\ SparedIsTrusted(q)'
    BY <1>2, <1>3, <1>4, <2>5, <2>7, IdleSafe, Bystander
  <2>10. ASSUME NEW g \in DOMAIN snaps, NEW b \in Client PROVE Earned(g, b)'
    <3>1. CASE g = hook /\ b = d
      BY <1>1, <2>1, <2>2, <2>3, <2>4, <2>5, <3>1, EarnedByObserve
    <3>2. CASE g # hook \/ b # d
      <4>1. snaps'[g].bans[b] = snaps[g].bans[b] /\ snaps'[g].counts[b] = snaps[g].counts[b]
        BY <2>5, <2>6, <3>2
      <4> QED
        BY <1>1, <2>1, <2>3, <2>5, <4>1, EarnedGrows
    <3> QED
      BY <3>1, <3>2
  <2>11. SparedFlowsNeverFeed'
    <3>1. /\ DOMAIN events = 1..Len(events) /\ DOMAIN events' = 1..(Len(events) + 1) /\ Len(events) \in Nat
          /\ events'[Len(events) + 1] = k /\ \A i \in DOMAIN events : events'[i] = events[i]
      BY <1>1, <2>1, <2>3, EventsShape DEF EventsType
    <3>2. ASSUME NEW i \in DOMAIN events', events'[i].by \notin PreflightRefusals
          PROVE  LET x == events'[i]
                     doc == Doc(snaps'[x.run])
                 IN /\ ~Whitelisted(doc, x.host, x.client)
                    /\ Exempt(doc, x.host, x.kind) => x.by \in {"acl", "penalty", "geo"}
                    /\ doc.site[x.host].intercept
      <4>1. CASE i \in DOMAIN events
        <5>1. events[i].run \in DOMAIN snaps
          BY <1>1, <4>1, EventsShape
        <5>2. Doc(snaps'[events[i].run]) = Doc(snaps[events[i].run])
          BY <2>6, <5>1 DEF Doc
        <5>3. SparedFlowsNeverFeed
          BY DEF Sound
        <5> QED
          BY <3>1, <3>2, <4>1, <5>2, <5>3 DEF SparedFlowsNeverFeed
      <4>2. CASE i = Len(events) + 1
        <5>1. req[r].snap \in DOMAIN snaps
          BY RequestType
        <5>2. Doc(snaps'[req[r].snap]) = Policy(r)
          BY <2>6, <5>1 DEF Doc, Policy, Snap
        <5>3. k.run = req[r].snap /\ k.host = In(r).host /\ k.kind = In(r).kind /\ k.client = In(r).client
          BY <2>2, <2>3
        <5>4. k.by \notin PreflightRefusals
          BY <3>1, <3>2, <4>2
        <5> QED
          BY <2>2, <2>3, <3>1, <4>2, <5>2, <5>3, <5>4
      <4> QED
        BY <3>1, <4>1, <4>2
    <3> QED
      BY <3>2 DEF SparedFlowsNeverFeed, Doc
  <2>12. OffWasAsked'
    <3>1. ASSUME NEW g \in DOMAIN snaps', NEW o \in snaps'[g].off
          PROVE  g \in DOMAIN snaps /\ o \in snaps[g].off /\ Doc(snaps'[g]) = Doc(snaps[g])
      BY <2>5, <2>6 DEF Doc
    <3> QED
      BY <3>1 DEF Sound, OffWasAsked, Doc
  <2> QED
    BY <1>2, <1>5, <2>5, <2>8, <2>9, <2>10, <2>11, <2>12, JoinParts DEF Sound
<1> QED
  BY <1>6, <1>7

-----------------------------------------------------------------------------
(* The theorems.                                                           *)

LEMMA InitSafe == ASSUME Init PROVE TypeOK /\ Sound
<1>1. /\ snaps = <<Fresh(Boot)>> /\ serving = 1 /\ hook = (IF AuditIsSQLite THEN 1 ELSE 0)
      /\ req = [r \in Slot |-> Idle] /\ arrived = 0 /\ events = <<>> /\ clock = 1
  BY DEF Init
<1>2. /\ Fresh(Boot) \in Snapshots /\ Fresh(Boot).off = {}
      /\ \A c \in Client : Fresh(Boot).counts[c] = NoWindow /\ Fresh(Boot).bans[c] = 0
  BY FreshType
<1>3. NoWindow.n = 0 /\ NoWindow.start = 0
  BY DEF NoWindow
<1>4. /\ snaps \in Seq(Snapshots) /\ Len(snaps) = 1 /\ DOMAIN snaps = 1..1 /\ snaps[1] = Fresh(Boot)
      /\ \A g \in DOMAIN snaps : g = 1
  BY <1>1, <1>2
<1>5. SnapsType
  <2>1. Doc(Fresh(Boot)).penalty.threshold \in Nat /\ Doc(Fresh(Boot)).penalty.threshold > 0
    BY <1>2, SnapshotType
  <2>2. BelowThreshold(Fresh(Boot))
    BY <1>2, <1>3, <2>1 DEF BelowThreshold
  <2> QED
    BY <1>4, <2>2 DEF SnapsType
<1>6. PlaneType /\ ClockType
  BY <1>1, <1>4, Settings DEF PlaneType, ClockType
<1>7. ReqType
  <2>1. Idle \in Requests(1)
    BY IdleShape
  <2> QED
    BY <1>1, <1>4, <2>1 DEF ReqType
<1>8. EventsType
  BY <1>1 DEF EventsType
<1>9. TypeOK
  BY <1>5, <1>6, <1>7, <1>8, TypeParts
<1>10. ASSUME NEW r \in Slot PROVE Vetted(r) /\ HeldOff(r) /\ SparedIsTrusted(r)
  <2>1. req[r].pc = "idle" /\ req[r].held = 0 /\ clock = 1 /\ Ban \in Nat
    BY <1>1, IdleShape, Settings
  <2>2. Vetted(r) /\ SparedIsTrusted(r)
    BY <2>1 DEF Vetted, SparedIsTrusted
  <2>3. HeldOff(r)
    BY <2>1 DEF HeldOff
  <2> QED
    BY <2>2, <2>3
<1>11. ASSUME NEW g \in DOMAIN snaps, NEW c \in Client PROVE Earned(g, c)
  <2>1. snaps[g].bans[c] = 0 /\ snaps[g].counts[c].n = 0 /\ snaps[g].counts[c].start = 0
    BY <1>2, <1>3, <1>4
  <2>2. \A from, to : Cardinality(Fed(g, c, from, to)) >= 0
    BY <1>9, FedFinite
  <2> QED
    BY <1>1, <2>1, <2>2, Settings DEF Earned
<1>12. SparedFlowsNeverFeed
  BY <1>1 DEF SparedFlowsNeverFeed
<1>13. OffWasAsked
  BY <1>2, <1>4 DEF OffWasAsked
<1> QED
  BY <1>9, <1>10, <1>11, <1>12, <1>13 DEF Sound

LEMMA SoundAlways == Spec => [](TypeOK /\ Sound)
<1>1. Init => TypeOK /\ Sound
  BY InitSafe
<1>2. TypeOK /\ Sound /\ [Next]_vars => TypeOK' /\ Sound'
  <2> SUFFICES ASSUME TypeOK, Sound, [Next]_vars PROVE TypeOK' /\ Sound'
    OBVIOUS
  <2>1. CASE \E r \in Slot : Arrive(r) \/ Stage(r) \/ Answer(r) \/ Forward(r) \/ Leave(r)
    BY <2>1, ArriveSafe, StageIsStep, StageSafe, AnswerSafe, ForwardSafe, LeaveSafe
  <2>2. CASE Wire
    BY <2>2, WireSafe
  <2>3. CASE Swap \/ Tick \/ UNCHANGED vars
    BY <2>3, PlaneSafe
  <2> QED
    BY <2>1, <2>2, <2>3 DEF Next
<1> QED
  BY <1>1, <1>2, PTL DEF Spec

\* Every variable has its type; in deny mode no window holds as many events as a ban takes.
THEOREM TypeCorrect == Spec => []TypeOK
<1>1. TypeOK /\ Sound => TypeOK
  OBVIOUS
<1> QED
  BY <1>1, SoundAlways, PTL

\* What a detector denies on an intercepting site reaches the upstream only if the flow
\* was spared, the rule excepted or the detector switched off for that site: whatever
\* the order of requests, rules and reloads (pipeline.go:121-136).
THEOREM ForwardIsCleared == Spec => []ForwardedWasCleared
<1>1. TypeOK /\ Sound => ForwardedWasCleared
  BY DEF Sound, Vetted, LetBy, ForwardedWasCleared
<1> QED
  BY <1>1, SoundAlways, PTL

\* Nobody is banned by fewer events than the threshold, within the window, for any
\* settings of the penalty (penalty.go:62-96).
THEOREM BansAreEarned == Spec => []BanIsEarned
<1>1. TypeOK /\ Sound => BanIsEarned
  BY DEF Sound, Earned, Recent, BanIsEarned
<1> QED
  BY <1>1, SoundAlways, PTL

\* What operators have cleared never feeds the penalty (proxy.go:759-771, 802-810).
THEOREM SparedNeverFeeds == Spec => []SparedFlowsNeverFeed
<1>1. TypeOK /\ Sound => SparedFlowsNeverFeed
  BY DEF Sound
<1> QED
  BY <1>1, SoundAlways, PTL

\* No request of an older snapshot switches a module off in a newer one
\* (stages/disable.go:25-46).
THEOREM OffIsAsked == Spec => []OffWasAsked
<1>1. TypeOK /\ Sound => OffWasAsked
  BY DEF Sound
<1> QED
  BY <1>1, SoundAlways, PTL

\* A request that is neither whitelisted nor excepted goes to the upstream only when the
\* ban it arrived under is over, whatever the other requests of the client did meanwhile
\* (penalty.go:98-117).
THEOREM BanIsEnforced == Spec => PenaltyIsEnforced
<1>1. TypeOK /\ Sound /\ [Next]_vars =>
        [\A r \in Slot :
           /\ req[r].pc # "forward" /\ req'[r].pc = "forward"
           /\ Policy(r).penalty.mode = "deny" /\ SiteOf(r).intercept
           => req[r].held < clock \/ Preferred(r)]_vars
  <2> SUFFICES ASSUME TypeOK, Sound, Next, NEW r \in Slot,
                      req[r].pc # "forward", req'[r].pc = "forward",
                      Policy(r).penalty.mode = "deny", SiteOf(r).intercept
               PROVE  req[r].held < clock
    OBVIOUS
  <2>1. Forward(r)
    <3>1. PICK q \in Slot : Arrive(q) \/ Stage(q) \/ Answer(q) \/ Forward(q) \/ Leave(q)
      BY DEF Next, Wire, Swap, Tick
    <3>2. ReqType
      BY TypeParts
    <3>3. CASE Arrive(q)
      <4> DEFINE new(in) == [Idle EXCEPT !.snap = serving, !.in = in,
                                         !.held = snaps[serving].bans[in.client]]
      <4>1. PICK in \in Input :
              \/ req' = [req EXCEPT ![q] = [new(in) EXCEPT !.pc = "decide", !.act = "deny"]]
              \/ req' = [req EXCEPT ![q] = [new(in) EXCEPT !.pc = "inspect", !.at = 1]]
        BY <3>3 DEF Arrive
      <4>2. /\ [new(in) EXCEPT !.pc = "decide", !.act = "deny"].pc = "decide"
            /\ [new(in) EXCEPT !.pc = "inspect", !.at = 1].pc = "inspect"
        BY DEF Idle
      <4> HIDE DEF new
      <4>3. req'[q].pc \in {"decide", "inspect"} /\ \A p \in Slot \ {q} : req'[p] = req[p]
        BY <3>2, <4>1, <4>2 DEF ReqType
      <4> QED
        BY <4>3
    <3>4. CASE Stage(q)
      BY <3>4, StageIsStep DEF StageStep, Moved, Passed, Refused
    <3>5. CASE Answer(q) \/ Leave(q)
      <4>1. req' = [req EXCEPT ![q] = Idle]
        BY <3>5 DEF Answer, Leave
      <4> QED
        BY <3>2, <4>1, IdleShape DEF ReqType
    <3>6. CASE Forward(q)
      BY <3>2, <3>6 DEF Forward, ReqType
    <3> QED
      BY <3>1, <3>3, <3>4, <3>5, <3>6
  <2>2. req[r].pc = "inspect" /\ req[r].at > Len(Pipe(r))
    BY <2>1 DEF Forward
  <2>3. Len(Pipe(r)) = 10 /\ req[r].at \in 0..11
    BY RequestType, StagesShape
  <2>4. ~(req[r].at <= 2)
    BY <2>2, <2>3
  <2> QED
    BY <2>2, <2>4 DEF Sound, HeldOff
<1> QED
  BY <1>1, SoundAlways, PTL DEF Spec, PenaltyIsEnforced
=============================================================================
