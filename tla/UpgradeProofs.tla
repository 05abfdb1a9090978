---------------------------- MODULE UpgradeProofs -----------------------------
(***************************************************************************)
(* Theorems about Upgrade: any releases and any order of their names, with *)
(* or without the hook, any number of tasks and deaths.                    *)
(***************************************************************************)
EXTENDS Upgrade, TLAPS, FiniteSetTheorems, WellFoundedInduction

USE UpgradeAssumption

-----------------------------------------------------------------------------
(* What pruning leaves.                                                    *)

LEMMA BackupsFinite == \A n, files : IsFiniteSet(Backups(n, files))
<1> SUFFICES ASSUME NEW n, NEW files PROVE IsFiniteSet(Backups(n, files))
  OBVIOUS
<1>1. IsFiniteSet(Release)
  BY FS_Interval DEF Release
<1>2. Backups(n, files) \in SUBSET Release
  BY DEF Backups
<1> QED
  BY <1>1, <1>2, FS_Subset

\* A set of backups that is not empty has a highest name.
LEMMA HighestName ==
  ASSUME NEW B, IsFiniteSet(B), B \subseteq Release, B # {}
  PROVE  \E m \in B : \A w \in B : Rank[w] <= Rank[m]
<1> DEFINE Above(v) == {w \in B : Rank[w] > Rank[v]}
           Tops == {Above(v) : v \in B}
<1>1. Tops \subseteq FiniteSubsetsOf(B) /\ Tops # {}
  <2>1. \A v \in B : Above(v) \in SUBSET B
    OBVIOUS
  <2>2. \A v \in B : IsFiniteSet(Above(v))
    BY <2>1, FS_Subset
  <2> HIDE DEF Above
  <2>3. \A v \in B : Above(v) \in FiniteSubsetsOf(B)
    BY <2>1, <2>2 DEF FiniteSubsetsOf
  <2> QED
    BY <2>3
<1>2. IsWellFoundedOn(StrictSubsetOrdering(B), FiniteSubsetsOf(B))
  BY FS_StrictSubsetOrderingWellFounded
<1>3. PICK x \in Tops : \A y \in Tops : ~(<<y, x>> \in StrictSubsetOrdering(B))
  <2> HIDE DEF Tops
  <2> QED
    BY <1>1, <1>2, WFMin
<1>4. PICK m \in B : x = Above(m)
  OBVIOUS
<1>5. ASSUME NEW w \in B, Rank[w] > Rank[m] PROVE FALSE
  <2>1. Rank \in [Release -> Nat] /\ w \in Release /\ m \in Release
    OBVIOUS
  <2>2. \A u \in Above(w) : u \in Above(m)
    BY <1>5, <2>1
  <2>3. w \in Above(m) /\ w \notin Above(w)
    BY <1>5, <2>1
  <2>4. <<Above(w), Above(m)>> \in StrictSubsetOrdering(B)
    BY <2>2, <2>3 DEF StrictSubsetOrdering
  <2> QED
    BY <1>3, <1>4, <2>4
<1> QED
  BY <1>5

\* The highest name is never pruned, so pruning hides no later name.
LEMMA PruneKeepsHighest ==
  ASSUME NEW n, NEW files, NEW m \in Backups(n, files),
         \A w \in Backups(n, files) : Rank[w] <= Rank[m]
  PROVE  m \notin Pruned(n, files)
<1>1. m \in Release /\ Backups(n, files) \subseteq Release /\ Rank \in [Release -> Nat]
  BY DEF Backups
<1>2. {w \in Backups(n, files) : Rank[w] > Rank[m]} = {}
  BY <1>1
<1>3. Cardinality({w \in Backups(n, files) : Rank[w] > Rank[m]}) = 0
  BY <1>2, FS_EmptySet
<1> QED
  BY <1>3 DEF Pruned

\* A backup that is made and pruned: the new one is there, unless a later name is.
LEMMA BackupEffect ==
  ASSUME bak \in [Name -> [Release -> Content]], running \in Release,
         NEW n \in Name, file[n] \in Content \ {Absent}, Backup(n)
  PROVE  /\ bak' \in [Name -> [Release -> Content]]
         /\ \A o \in Name \ {n} : bak'[o] = bak[o]
         /\ \A v, w \in Release : bak[n][w] # Absent /\ Rank[w] > Rank[v] =>
              \E x \in Release : bak'[n][x] # Absent /\ Rank[x] > Rank[v]
         /\ \/ bak'[n][running] = file[n]
            \/ \E x \in Release : bak'[n][x] # Absent /\ Rank[x] > Rank[running]
         /\ \A v \in Release \ {running} : bak'[n][v] \in {bak[n][v], Absent}
<1> DEFINE c == Copied(n)
           B == Backups(n, c)
           p == [v \in Release |-> IF v \in Pruned(n, c) THEN Absent ELSE c[n][v]]
<1>1. /\ c \in [Name -> [Release -> Content]] /\ c[n][running] = file[n]
      /\ \A v \in Release \ {running} : c[n][v] = bak[n][v]
      /\ \A o \in Name \ {n} : c[o] = bak[o]
  BY DEF Copied
<1>2. bak' = [c EXCEPT ![n] = p]
  BY DEF Backup
<1>3. p \in [Release -> Content]
  BY <1>1 DEF Content, Absent, Torn
<1>4. /\ running \in B /\ B \subseteq Release /\ IsFiniteSet(B)
      /\ \A v \in Release : v \in B <=> c[n][v] # Absent
  BY <1>1, BackupsFinite DEF Backups
<1>5. PICK m \in B : \A w \in B : Rank[w] <= Rank[m]
  BY <1>4, HighestName
<1>6. m \notin Pruned(n, c)
  BY <1>5, PruneKeepsHighest
<1>7. m \in Release /\ p[m] # Absent
  BY <1>4, <1>6
<1> HIDE DEF c, B
<1>8. \A v \in Release : p[v] \in {c[n][v], Absent}
  OBVIOUS
<1> HIDE DEF p
<1>9. bak' \in [Name -> [Release -> Content]] /\ bak'[n] = p /\ \A o \in Name \ {n} : bak'[o] = bak[o]
  BY <1>1, <1>2, <1>3
<1>10. ASSUME NEW v \in Release, NEW w \in Release, bak[n][w] # Absent, Rank[w] > Rank[v]
       PROVE  \E x \in Release : bak'[n][x] # Absent /\ Rank[x] > Rank[v]
  <2>1. w \in B
    BY <1>1, <1>4, <1>10
  <2>2. Rank[w] <= Rank[m] /\ Rank \in [Release -> Nat]
    BY <1>5, <2>1
  <2>3. Rank[m] > Rank[v]
    BY <1>7, <1>10, <2>2
  <2> QED
    BY <1>7, <1>9, <2>3
<1>11. \/ bak'[n][running] = file[n]
       \/ \E x \in Release : bak'[n][x] # Absent /\ Rank[x] > Rank[running]
  <2>1. CASE m = running
    BY <1>1, <1>7, <1>8, <1>9, <2>1
  <2>2. CASE m # running
    <3>1. Rank[running] # Rank[m] /\ Rank[running] <= Rank[m] /\ Rank \in [Release -> Nat]
      BY <1>4, <1>5, <1>7, <2>2
    <3>2. Rank[m] > Rank[running]
      BY <1>7, <3>1
    <3> QED
      BY <1>7, <1>9, <3>2
  <2> QED
    BY <2>1, <2>2
<1>12. \A v \in Release \ {running} : bak'[n][v] \in {bak[n][v], Absent}
  BY <1>1, <1>8, <1>9
<1> QED
  BY <1>9, <1>10, <1>11, <1>12

\* The ways backups change.
BackupsChange ==
  \/ UNCHANGED bak
  \/ \E n \in Name : bak' \in {TornCopy(n), Copied(n)} \/ Backup(n)

\* A later name, once backed up, stays.
LEMMA LaterBackupStays ==
  ASSUME bak \in [Name -> [Release -> Content]], file \in [Name -> Content \ {Absent}],
         running \in Release, NEW v \in Release, BackupsChange, NoLaterBackup(v)'
  PROVE  NoLaterBackup(v)
<1>0. Torn # Absent /\ Rank \in [Release -> Nat]
  BY DEF Torn, Absent
<1> SUFFICES ASSUME NEW n \in Name, NEW w \in Release, bak[n][w] # Absent, Rank[w] > Rank[v]
             PROVE  \E x \in Release : bak'[n][x] # Absent /\ Rank[x] > Rank[v]
  BY <1>0 DEF NoLaterBackup
<1>1. CASE UNCHANGED bak
  BY <1>1
<1>2. ASSUME NEW o \in Name, bak' \in {TornCopy(o), Copied(o)}
      PROVE  bak'[n][w] # Absent
  BY <1>0, <1>2 DEF TornCopy, Copied
<1>3. ASSUME NEW o \in Name, Backup(o)
      PROVE  \E x \in Release : bak'[n][x] # Absent /\ Rank[x] > Rank[v]
  <2>1. /\ \A u, y \in Release : bak[o][y] # Absent /\ Rank[y] > Rank[u] =>
             \E x \in Release : bak'[o][x] # Absent /\ Rank[x] > Rank[u]
        /\ \A i \in Name \ {o} : bak'[i] = bak[i]
    BY <1>3, BackupEffect
  <2> QED
    BY <2>1
<1> QED
  BY <1>1, <1>2, <1>3 DEF BackupsChange

-----------------------------------------------------------------------------
(* Type correctness.                                                       *)

Stages == {"idle", "fetch", "backupServer", "backupCli", "swapServer", "swapCli", "mark",
           "restart", "restoreServer", "restoreCli"}
Tasks == [pc : Stages, target : 0..Last, outcome : {"none", "success", "failed", "restored"}]
Procs == [pc : {"heal", "rollServer", "rollCli", "unmark", "exec", "up"}, by : {"hook", "main"}]

LEMMA ReleaseType ==
  /\ Release \subseteq Content \ {Absent} /\ Torn \in Content \ {Absent} /\ Absent \in Content
  /\ Release \subseteq 0..Last /\ 0 \notin Release
BY DEF Release, Content, Torn, Absent

\* The task goes to its next stage, or is over.
LEMMA GoToType ==
  ASSUME TypeOK, NEW pc \in Stages, GoTo(pc)
  PROVE  /\ task' \in Tasks /\ task'.pc = pc
         /\ task'.target = task.target /\ task'.outcome = task.outcome
BY DEF GoTo, TypeOK, Tasks, Stages

LEMMA IdleType ==
  ASSUME NEW outcome \in {"none", "success", "failed", "restored"}
  PROVE  /\ Idle(outcome) \in Tasks /\ Idle(outcome).pc = "idle" /\ Idle(outcome).target = 0
         /\ Idle(outcome).outcome = outcome
BY DEF Idle, Tasks, Stages

\* The unit starts again, and goes on.
LEMMA BootType ==
  /\ Boot \in Procs /\ Boot.pc \in {"heal", "exec"} /\ Boot.by = "hook"
  /\ Continue \in Procs
  /\ Continue.pc = IF proc.by = "hook" THEN "exec" ELSE "up"
  /\ Continue.by = IF proc.by = "hook" THEN "hook" ELSE "main"
BY DEF Boot, Continue, Procs

LEMMA ProcStep ==
  ASSUME TypeOK, NEW pc \in {"rollServer", "rollCli", "unmark"}, proc' = [proc EXCEPT !.pc = pc]
  PROVE  proc' \in Procs /\ proc'.pc = pc /\ proc'.by = proc.by
BY DEF TypeOK, Procs

\* The parts of the type invariant: the disk, the unit, the task and the bounds.
DiskType ==
  /\ file \in [Name -> Content \ {Absent}]
  /\ bak \in [Name -> [Release -> Content]]
  /\ marker \in [target : Release, backup : Release] \cup {NoMarker}
UnitType ==
  /\ running \in Release /\ proc \in Procs /\ hook \in BOOLEAN
  /\ queued \in BOOLEAN /\ cut \in BOOLEAN /\ crashes \in 0..MaxCrash
TaskType == task \in Tasks /\ cool \in BOOLEAN /\ timer \in BOOLEAN
BoundsType ==
  /\ tasks \in 0..MaxTask /\ faults \in 0..MaxFault
  /\ before \in [Name -> Content \ {Absent}] /\ lost \subseteq Name

LEMMA TypeParts == TypeOK <=> DiskType /\ UnitType /\ TaskType /\ BoundsType
BY DEF TypeOK, DiskType, UnitType, TaskType, BoundsType, Tasks, Procs, Stages

LEMMA JoinParts ==
  ASSUME DiskType', UnitType', TaskType', BoundsType'
  PROVE  TypeOK'
BY DEF TypeOK, DiskType, UnitType, TaskType, BoundsType, Tasks, Procs, Stages

LEMMA SameParts ==
  ASSUME TypeOK
  PROVE  /\ UNCHANGED disk => DiskType'
         /\ UNCHANGED unit => UnitType'
         /\ UNCHANGED <<task, cool, timer>> => TaskType'
         /\ UNCHANGED bounds => BoundsType'
<1>1. DiskType /\ UnitType /\ TaskType /\ BoundsType
  BY TypeParts
<1>2. UNCHANGED disk => DiskType'
  BY <1>1 DEF DiskType, disk
<1>3. UNCHANGED unit => UnitType'
  BY <1>1 DEF UnitType, unit
<1>4. UNCHANGED <<task, cool, timer>> => TaskType'
  BY <1>1 DEF TaskType
<1>5. UNCHANGED bounds => BoundsType'
  BY <1>1 DEF BoundsType, bounds
<1> QED
  BY <1>2, <1>3, <1>4, <1>5

LEMMA InitType == Init => TypeOK
<1> SUFFICES ASSUME Init PROVE TypeOK
  OBVIOUS
<1>1. file \in [Name -> Content \ {Absent}] /\ before \in [Name -> Content \ {Absent}]
  BY ReleaseType DEF Init
<1>2. bak \in [Name -> [Release -> Content]]
  BY ReleaseType DEF Init
<1>3. proc \in Procs /\ running \in Release /\ marker = NoMarker
  BY DEF Init, Procs
<1>4. task \in Tasks
  BY IdleType DEF Init
<1>5. hook \in BOOLEAN /\ cool = FALSE /\ timer = FALSE /\ queued = FALSE /\ cut = FALSE
      /\ tasks = 0 /\ crashes = 0 /\ faults = 0 /\ lost = {}
  BY DEF Init
<1>6. 0 \in 0..MaxTask /\ 0 \in 0..MaxCrash /\ 0 \in 0..MaxFault
  OBVIOUS
<1>7. DiskType /\ UnitType /\ TaskType /\ BoundsType
  BY <1>1, <1>2, <1>3, <1>4, <1>5, <1>6 DEF DiskType, UnitType, TaskType, BoundsType
<1> QED
  BY <1>7, TypeParts

\* A task at work: its target is a release, newer than what runs once it was fetched;
\* nothing of it outlives the process, which main has started.
Resting ==
  /\ proc.pc # "up" => task.pc = "idle" /\ task.outcome = "none"
  /\ proc.pc = "up" => proc.by = "main"
  /\ task.pc # "idle" => task.target \in Release /\ task.outcome = "none"
  /\ task.pc \notin {"idle", "fetch"} => task.target > running
  /\ proc.pc \in {"rollServer", "rollCli", "unmark"} => marker # NoMarker

LEMMA RestingInit == Init => Resting
BY IdleType DEF Init, Resting

\* One binary replaced by another leaves complete binaries.
LEMMA FileSet ==
  ASSUME file \in [Name -> Content \ {Absent}], NEW n \in Name, NEW c \in Content \ {Absent},
         file' = [file EXCEPT ![n] = c]
  PROVE  /\ file' \in [Name -> Content \ {Absent}]
         /\ file'[n] = c /\ \A o \in Name \ {n} : file'[o] = file[o]
OBVIOUS

LEMMA RestoredType ==
  ASSUME TypeOK, NEW n \in Name
  PROVE  Restored(n) \in Content \ {Absent}
<1>1. bak[n][running] \in Content /\ file[n] \in Content \ {Absent}
  BY DEF TypeOK
<1> QED
  BY <1>1 DEF Restored

LEMMA BackupBinaryType ==
  ASSUME TypeOK, NEW n \in Name, NEW pc, NEW next \in Stages, BackupBinary(n, pc, next)
  PROVE  /\ TypeOK' /\ BackupsChange /\ Up /\ task.pc = pc
         /\ UNCHANGED <<file, marker, unit, timer, bounds>>
         /\ \/ Backup(n) /\ task'.pc = next /\ task'.target = task.target /\ task'.outcome = task.outcome
            \/ bak' \in {bak, TornCopy(n), Copied(n)} /\ task' = Idle("failed")
<1>1. DiskType /\ UnitType /\ TaskType /\ BoundsType
  BY TypeParts
<1>2. /\ Up /\ task.pc = pc /\ UNCHANGED <<file, marker, unit, timer, bounds>>
      /\ \/ Backup(n) /\ GoTo(next) /\ UNCHANGED cool
         \/ bak' \in {bak, TornCopy(n), Copied(n)} /\ task' = Idle("failed") /\ cool' \in BOOLEAN
  BY DEF BackupBinary, At, Finish
<1>3. UnitType' /\ BoundsType'
  BY <1>2, SameParts
<1>4. file[n] \in Content \ {Absent} /\ Torn \in Content /\ running \in Release
      /\ bak \in [Name -> [Release -> Content]]
  BY <1>1, ReleaseType DEF DiskType, UnitType
<1>5. CASE Backup(n) /\ GoTo(next) /\ UNCHANGED cool
  <2>1. bak' \in [Name -> [Release -> Content]]
    BY <1>4, <1>5, BackupEffect
  <2>2. task' \in Tasks /\ task'.pc = next /\ task'.target = task.target /\ task'.outcome = task.outcome
    BY <1>5, GoToType
  <2>3. DiskType' /\ TaskType'
    BY <1>1, <1>2, <1>5, <2>1, <2>2 DEF DiskType, TaskType
  <2> QED
    BY <1>2, <1>3, <1>5, <2>2, <2>3, JoinParts DEF BackupsChange
<1>6. CASE bak' \in {bak, TornCopy(n), Copied(n)} /\ task' = Idle("failed") /\ cool' \in BOOLEAN
  <2>1. bak' \in [Name -> [Release -> Content]]
    <3>1. CASE bak' = bak
      BY <1>4, <3>1
    <3>2. CASE bak' = TornCopy(n)
      BY <1>4, <3>2 DEF TornCopy
    <3>3. CASE bak' = Copied(n)
      BY <1>4, <3>3 DEF Copied
    <3> QED
      BY <1>6, <3>1, <3>2, <3>3
  <2>2. task' \in Tasks
    BY <1>6, IdleType
  <2>3. DiskType' /\ TaskType'
    BY <1>1, <1>2, <1>6, <2>1, <2>2 DEF DiskType, TaskType
  <2> QED
    BY <1>2, <1>3, <1>6, <2>3, JoinParts DEF BackupsChange
<1> QED
  BY <1>2, <1>5, <1>6

LEMMA SwapType ==
  ASSUME TypeOK, Resting, NEW n \in Name, NEW pc \in Stages \ {"idle"},
         NEW next \in Stages, Swap(n, pc, next)
  PROVE  /\ TypeOK' /\ Up /\ task.pc = pc
         /\ UNCHANGED <<bak, marker, unit, timer, bounds>>
         /\ task'.target = task.target /\ task'.outcome = task.outcome
         /\ file' = [file EXCEPT ![n] = task.target] \/ (file' = file /\ task'.pc = "restoreServer")
         /\ task'.pc = next \/ task'.pc = "restoreServer"
<1>1. DiskType /\ UnitType /\ TaskType /\ BoundsType
  BY TypeParts
<1>2. /\ Up /\ task.pc = pc /\ UNCHANGED <<bak, marker, unit, cool, timer, bounds>>
      /\ \/ file' = [file EXCEPT ![n] = task.target] /\ GoTo(next)
         \/ file' \in {file, [file EXCEPT ![n] = task.target]} /\ GoTo("restoreServer")
  BY DEF Swap, At, AfterSwapError
<1>3. task.target \in Content \ {Absent}
  BY <1>2, ReleaseType DEF Resting
<1>4. file' \in [Name -> Content \ {Absent}]
  BY <1>1, <1>2, <1>3, FileSet DEF DiskType
<1>5. /\ task' \in Tasks /\ task'.target = task.target /\ task'.outcome = task.outcome
      /\ \/ file' = [file EXCEPT ![n] = task.target] /\ task'.pc = next
         \/ file' \in {file, [file EXCEPT ![n] = task.target]} /\ task'.pc = "restoreServer"
  BY <1>2, GoToType DEF Stages
<1>6. DiskType' /\ TaskType' /\ UnitType' /\ BoundsType'
  BY <1>1, <1>2, <1>4, <1>5, SameParts DEF DiskType, TaskType
<1> QED
  BY <1>2, <1>5, <1>6, JoinParts

\* The stages that change neither a binary nor a backup.
LEMMA StagesType ==
  ASSUME TypeOK, Resting,
         (\E v \in Release : Start(v)) \/ Fetch \/ WriteIntent \/ SubmitRestart \/ CooldownOver
         \/ RequestRestart \/ FireRestart
  PROVE  TypeOK'
<1>1. DiskType /\ UnitType /\ TaskType /\ BoundsType
  BY TypeParts
<1>2. ASSUME NEW v \in Release, Start(v) PROVE TypeOK'
  <2>1. task' \in Tasks
    BY <1>2, ReleaseType DEF Start, Tasks, Stages
  <2>2. /\ tasks' \in 0..MaxTask /\ before' \in [Name -> Content \ {Absent}]
        /\ lost' = {} /\ faults' \in 0..MaxFault
    BY <1>1, <1>2 DEF Start, BoundsType, DiskType
  <2> QED
    BY <1>1, <1>2, <2>1, <2>2, SameParts, JoinParts DEF Start, TaskType, BoundsType
<1>3. CASE Fetch
  <2>1. task' \in Tasks /\ cool' \in BOOLEAN
    BY <1>1, <1>3, GoToType, IdleType DEF Fetch, Finish, Stages, TaskType
  <2> QED
    BY <1>1, <1>3, <2>1, SameParts, JoinParts DEF Fetch, TaskType
<1>4. CASE WriteIntent
  <2>1. task' \in Tasks
    BY <1>4, GoToType DEF WriteIntent, Stages, AfterMarkError
  <2>2. task.target \in Release /\ running \in Release
    BY <1>1, <1>4 DEF WriteIntent, At, Resting, UnitType
  <2>3. marker' \in [target : Release, backup : Release] \cup {NoMarker}
    BY <1>1, <1>4, <2>2 DEF WriteIntent, Intent, DiskType
  <2>4. DiskType' /\ TaskType'
    BY <1>1, <1>4, <2>1, <2>3 DEF WriteIntent, DiskType, TaskType
  <2> QED
    BY <1>4, <2>4, SameParts, JoinParts DEF WriteIntent
<1>5. CASE SubmitRestart
  <2>1. task' \in Tasks /\ cool' \in BOOLEAN
    BY <1>1, <1>5, IdleType DEF SubmitRestart, Finish, TaskType
  <2>2. UnitType'
    BY <1>1, <1>5 DEF SubmitRestart, UnitType
  <2> QED
    BY <1>1, <1>5, <2>1, <2>2, SameParts, JoinParts DEF SubmitRestart, TaskType
<1>6. CASE CooldownOver
  BY <1>1, <1>6, SameParts, JoinParts DEF CooldownOver, TaskType
<1>7. CASE RequestRestart
  BY <1>1, <1>7, SameParts, JoinParts DEF RequestRestart, TaskType
<1>8. CASE FireRestart
  <2>1. UnitType'
    BY <1>1, <1>8 DEF FireRestart, UnitType
  <2> QED
    BY <1>1, <1>8, <2>1, SameParts, JoinParts DEF FireRestart, TaskType
<1> QED
  BY <1>2, <1>3, <1>4, <1>5, <1>6, <1>7, <1>8

LEMMA RestoreType ==
  ASSUME TypeOK, RestoreServer \/ RestoreCli
  PROVE  TypeOK'
<1>1. DiskType /\ UnitType /\ TaskType /\ BoundsType
  BY TypeParts
<1>2. ASSUME NEW n \in Name, Restore(n)
      PROVE  /\ file' \in [Name -> Content \ {Absent}]
             /\ lost' \subseteq Name /\ faults' \in 0..MaxFault
  <2>1. CASE file' = [file EXCEPT ![n] = Restored(n)] /\ UNCHANGED <<lost, faults>>
    BY <1>1, <2>1, RestoredType, FileSet DEF DiskType, BoundsType
  <2>2. CASE Fault /\ lost' = lost \cup {n} /\ UNCHANGED file
    BY <1>1, <2>2 DEF DiskType, BoundsType, Fault
  <2> QED
    BY <1>2, <2>1, <2>2 DEF Restore
<1>3. CASE RestoreServer
  <2>1. file' \in [Name -> Content \ {Absent}] /\ lost' \subseteq Name /\ faults' \in 0..MaxFault
    BY <1>2, <1>3 DEF RestoreServer, Name
  <2>2. task' \in Tasks
    BY <1>3, GoToType DEF RestoreServer, Stages
  <2> QED
    BY <1>1, <1>3, <2>1, <2>2, SameParts, JoinParts DEF RestoreServer, DiskType, TaskType, BoundsType
<1>4. CASE RestoreCli
  <2>1. file' \in [Name -> Content \ {Absent}] /\ lost' \subseteq Name /\ faults' \in 0..MaxFault
    BY <1>2, <1>4 DEF RestoreCli, Name
  <2>2. task' \in Tasks /\ cool' \in BOOLEAN
    BY <1>4, IdleType DEF RestoreCli, Finish
  <2> QED
    BY <1>1, <1>4, <2>1, <2>2, SameParts, JoinParts DEF RestoreCli, DiskType, TaskType, BoundsType
<1> QED
  BY <1>3, <1>4

LEMMA DieType ==
  ASSUME TypeOK, Stop \/ Crash
  PROVE  /\ TypeOK' /\ Die /\ BackupsChange
         /\ \/ UNCHANGED bak
            \/ task.pc = "backupServer" /\ bak' = TornCopy("server")
            \/ task.pc = "backupCli" /\ bak' = TornCopy("cli")
<1>1. DiskType /\ UnitType /\ TaskType /\ BoundsType
  BY TypeParts
<1>2. /\ Die /\ crashes' \in 0..MaxCrash
      /\ \/ UNCHANGED bak
         \/ task.pc = "backupServer" /\ bak' = TornCopy("server")
         \/ task.pc = "backupCli" /\ bak' = TornCopy("cli")
  BY <1>1 DEF Stop, Crash, UnitType
<1>3. bak' \in [Name -> [Release -> Content]]
  BY <1>1, <1>2, ReleaseType DEF TornCopy, DiskType, UnitType
<1>4. DiskType'
  BY <1>1, <1>2, <1>3 DEF Die, DiskType
<1>5. UnitType'
  BY <1>1, <1>2, BootType DEF Die, UnitType
<1>6. TaskType'
  BY <1>2, IdleType DEF Die, TaskType
<1>7. BoundsType'
  BY <1>2, SameParts DEF Die
<1>8. BackupsChange
  BY <1>2 DEF BackupsChange, Name
<1> QED
  BY <1>2, <1>4, <1>5, <1>6, <1>7, <1>8, JoinParts

\* What a start does to the disk and to the count of errors.
LEMMA StartingType ==
  ASSUME TypeOK, Resting, Starting
  PROVE  /\ TypeOK'
         /\ UNCHANGED <<bak, hook, task, cool, timer, queued, crashes, cut, tasks, before, lost>>
         /\ UNCHANGED faults \/ (faults' \in Nat /\ faults' # 0)
<1>1. DiskType /\ UnitType /\ TaskType /\ BoundsType
  BY TypeParts
<1>2. UNCHANGED <<bak, hook, task, cool, timer, queued, crashes, cut, tasks, before, lost>>
  BY DEF Starting, Healing, Heal, RollServer, RollCli, Unmark, Exec, disk, bounds
<1>3. UNCHANGED faults \/ Fault
  BY DEF Starting, Heal, RollServer, RollCli, Unmark, Exec, bounds
<1>4. faults' \in 0..MaxFault /\ (UNCHANGED faults \/ (faults' \in Nat /\ faults' # 0))
  BY <1>1, <1>3 DEF Fault, BoundsType
<1>5. TaskType' /\ BoundsType'
  BY <1>1, <1>2, <1>4, SameParts DEF BoundsType
<1>6. CASE Heal
  <2>1. [proc EXCEPT !.pc = "rollServer"] \in Procs
    BY <1>1 DEF UnitType, Procs
  <2>2. proc' \in Procs /\ marker' \in {marker, NoMarker} /\ UNCHANGED <<file, running>>
    BY <1>6, <2>1, BootType DEF Heal, Healing
  <2> QED
    BY <1>1, <1>2, <1>4, <1>5, <2>2, JoinParts DEF DiskType, UnitType
<1>7. CASE RollServer
  <2>1. marker \in [target : Release, backup : Release] /\ marker.backup \in Release
    BY <1>1, <1>7 DEF RollServer, Healing, Resting, DiskType
  <2>2. bak["server"][marker.backup] \in Content
    BY <1>1, <2>1 DEF DiskType, Name
  <2>3. file' \in [Name -> Content \ {Absent}]
    BY <1>1, <1>7, <2>2, FileSet DEF RollServer, DiskType, Name
  <2>4. proc' \in Procs /\ UNCHANGED <<marker, running>>
    BY <1>7, ProcStep, BootType DEF RollServer, Healing
  <2> QED
    BY <1>1, <1>2, <1>4, <1>5, <2>3, <2>4, JoinParts DEF DiskType, UnitType
<1>8. CASE RollCli
  <2>1. marker \in [target : Release, backup : Release] /\ marker.backup \in Release
    BY <1>1, <1>8 DEF RollCli, Healing, Resting, DiskType
  <2>2. CliBackup \in Content
    BY <1>1, <2>1 DEF DiskType, Name, CliBackup
  <2>3. CliRestored \in [Name -> Content \ {Absent}]
    BY <1>1, <2>2 DEF CliRestored, DiskType, Name
  <2>4. file' \in [Name -> Content \ {Absent}]
    BY <1>1, <1>8, <2>3 DEF RollCli, DiskType
  <2>5. proc' \in Procs /\ UNCHANGED <<marker, running>>
    BY <1>8, ProcStep, BootType DEF RollCli, Healing
  <2> QED
    BY <1>1, <1>2, <1>4, <1>5, <2>4, <2>5, JoinParts DEF DiskType, UnitType
<1>9. CASE Unmark
  <2>1. proc' \in Procs /\ marker' \in {marker, NoMarker} /\ UNCHANGED <<file, running>>
    BY <1>9, BootType DEF Unmark, Healing
  <2> QED
    BY <1>1, <1>2, <1>4, <1>5, <2>1, JoinParts DEF DiskType, UnitType
<1>10. CASE Exec
  <2>1. file["server"] \in Content \ {Absent}
    BY <1>1 DEF DiskType, Name
  <2>2. file["server"] \notin Broken \cup {Torn} => file["server"] \in Release
    BY <2>1 DEF Content, Absent, Torn, Release
  <2>3. proc' \in Procs /\ running' \in Release
    BY <1>1, <1>10, <2>2, BootType DEF Exec, Procs, UnitType
  <2>4. DiskType'
    BY <1>1, <1>10 DEF Exec, disk, DiskType
  <2>5. UnitType'
    BY <1>1, <1>2, <2>3 DEF UnitType
  <2> QED
    BY <1>2, <1>4, <1>5, <2>4, <2>5, JoinParts
<1> QED
  BY <1>2, <1>4, <1>6, <1>7, <1>8, <1>9, <1>10 DEF Starting

LEMMA NextType == TypeOK /\ Resting /\ [Next]_vars => TypeOK'
<1> SUFFICES ASSUME TypeOK, Resting, [Next]_vars PROVE TypeOK'
  OBVIOUS
<1>1. ASSUME NEW n \in Name, NEW pc, NEW next \in Stages, BackupBinary(n, pc, next) PROVE TypeOK'
  BY <1>1, BackupBinaryType
<1>2. ASSUME NEW n \in Name, NEW pc \in Stages \ {"idle"}, NEW next \in Stages, Swap(n, pc, next)
      PROVE  TypeOK'
  BY <1>2, SwapType
<1>3. CASE Upgrading
  BY <1>1, <1>2, <1>3, StagesType, RestoreType DEF Upgrading, Name, Stages
<1>4. CASE Stop \/ Crash
  BY <1>4, DieType
<1>5. CASE UNCHANGED vars
  BY <1>5, SameParts, JoinParts DEF vars, disk, unit, bounds
<1> QED
  BY <1>3, <1>4, <1>5, StagesType, StartingType DEF Next

-----------------------------------------------------------------------------
(* What the stages leave on disk.                                          *)

Pair(c) == [n \in Name |-> c]
Working == task.pc \in {"fetch", "backupServer", "backupCli", "swapServer", "swapCli", "mark",
                        "restoreServer", "restoreCli"}
Rolling == proc.pc \in {"rollServer", "rollCli", "unmark"}
RunningLeads == NoLaterBackup(running)
\* No restore or rollback has failed so far, and no backup has a later name than the marker's.
MarkedLeads == NoLaterBackup(marker.backup) /\ faults = 0

\* What a failed replace stage restores from: once a name is backed up, its backup is
\* the binary the task found.
Kept ==
  RunningLeads =>
    /\ Swapping => \A n \in Name : bak[n][running] = before[n]
    /\ task.pc = "backupCli" => bak["server"][running] = before["server"]
    /\ task.pc = "restoreCli" => \A n \in {"server"} \ lost : file[n] = before[n]
    /\ Up /\ task.outcome = "restored" => \A n \in Name \ lost : file[n] = before[n]

\* What the swaps have done so far.
Progress ==
  /\ task.pc \in {"fetch", "backupServer", "backupCli", "swapServer"} => file = before
  /\ task.pc = "swapCli" => file = [before EXCEPT !["server"] = task.target]
  /\ task.pc \in {"mark", "restart"} => file = Pair(task.target)
  /\ task.pc = "restart" => marker = Intent
  /\ Up /\ task.outcome = "success" => file = Pair(marker.target) /\ marker.target > running

\* A marker tells of a complete upgrade, whose process may have begun another: what the
\* net finds changed was being swapped, and the backup is the marker's own release.  An
\* error of a restore leaves a mixed pair, one of a rollback an old marker.
Marked ==
  marker # NoMarker /\ MarkedLeads =>
    /\ \A n \in Name : bak[n][marker.backup] # Absent
    /\ Up => /\ marker.backup = running
             /\ task.pc \notin {"swapCli", "mark", "restoreServer", "restoreCli"} =>
                  file = Pair(marker.target)
             /\ Working => before = Pair(marker.target)
    /\ (~Up /\ file["server"] # marker.target) \/ Rolling =>
         cut /\ \A n \in Name : bak[n][marker.backup] = marker.target
    /\ proc.pc \in {"rollCli", "unmark"} => file["server"] = marker.target
    /\ proc.pc = "unmark" => file["cli"] = marker.target

\* What could not be restored was counted.
Spotless == faults = 0 => lost = {}

Sound == Resting /\ Kept /\ Progress /\ Marked

LEMMA SoundInit == Init => Sound
<1> SUFFICES ASSUME Init PROVE Sound
  OBVIOUS
<1>1. Up /\ task.pc = "idle" /\ task.outcome = "none" /\ marker = NoMarker
  BY IdleType DEF Init, Up
<1> QED
  BY <1>1, RestingInit DEF Sound, Kept, Progress, Marked, Swapping

\* What holds of the names already backed up goes on holding while nothing is backed up.
LEMMA SameLeads ==
  ASSUME UNCHANGED bak
  PROVE  /\ UNCHANGED running => (RunningLeads' <=> RunningLeads)
         /\ UNCHANGED <<marker, faults>> => (MarkedLeads' <=> MarkedLeads)
BY DEF RunningLeads, MarkedLeads, NoLaterBackup

LEMMA LeadsBefore ==
  ASSUME TypeOK, BackupsChange
  PROVE  /\ UNCHANGED running /\ RunningLeads' => RunningLeads
         /\ UNCHANGED <<marker, faults>> /\ marker # NoMarker /\ MarkedLeads' => MarkedLeads
<1>1. /\ bak \in [Name -> [Release -> Content]] /\ file \in [Name -> Content \ {Absent}]
      /\ running \in Release /\ marker \in [target : Release, backup : Release] \cup {NoMarker}
  BY DEF TypeOK
<1>2. \A v \in Release : NoLaterBackup(v)' => NoLaterBackup(v)
  BY <1>1, LaterBackupStays
<1>3. ASSUME UNCHANGED running, RunningLeads' PROVE RunningLeads
  <2>1. PICK r \in Release : running = r
    BY <1>1
  <2> QED
    BY <1>2, <1>3, <2>1 DEF RunningLeads, NoLaterBackup
<1>4. ASSUME UNCHANGED <<marker, faults>>, marker # NoMarker, MarkedLeads' PROVE MarkedLeads
  <2>1. PICK r \in Release : marker.backup = r
    BY <1>1, <1>4
  <2> QED
    BY <1>2, <1>4, <2>1 DEF MarkedLeads, NoLaterBackup
<1> QED
  BY <1>3, <1>4


\* The stages that change neither a binary nor a backup, and the restart API.
Quiet ==
  \/ \E v \in Release : Start(v)
  \/ Fetch \/ WriteIntent \/ SubmitRestart \/ CooldownOver \/ RequestRestart \/ FireRestart

LEMMA QuietEffect ==
  ASSUME TypeOK, Resting, Quiet
  PROVE  /\ UNCHANGED <<file, bak, running, proc, cut, faults>>
         /\ \/ /\ task.pc = "idle" /\ task'.pc = "fetch" /\ task'.target \in Release
               /\ task'.outcome = "none" /\ Up /\ before' = file /\ UNCHANGED marker
            \/ /\ task.pc = "fetch" /\ task'.pc = "backupServer" /\ task'.target = task.target
               /\ task'.outcome = "none" /\ task.target > running /\ Up /\ UNCHANGED <<before, marker, lost>>
            \/ /\ task.pc = "mark" /\ task'.pc = "restart" /\ task'.target = task.target
               /\ task'.outcome = "none" /\ Up /\ UNCHANGED <<before, lost>> /\ marker' = Intent
            \/ /\ task.pc = "mark" /\ task'.pc = "restoreServer" /\ task'.target = task.target
               /\ task'.outcome = "none" /\ Up /\ UNCHANGED <<before, marker, lost>>
            \/ /\ task.pc = "restart" /\ task' = Idle("success") /\ Up /\ UNCHANGED <<before, marker, lost>>
            \/ task' = Idle("failed") /\ Up /\ UNCHANGED <<before, marker, lost>>
               /\ task.pc \in {"fetch", "restart"}
            \/ UNCHANGED <<task, before, marker, lost>>
<1>1. ASSUME NEW v \in Release, Start(v) PROVE task'.pc = "fetch" /\ task'.target = v /\ task'.outcome = "none"
  BY <1>1 DEF Start
<1>2. ASSUME NEW pc \in Stages, GoTo(pc), task.pc # "idle"
      PROVE  task'.pc = pc /\ task'.target = task.target /\ task'.outcome = "none"
  BY <1>2, GoToType DEF Resting
<1>3. CASE \E v \in Release : Start(v)
  BY <1>1, <1>3 DEF Start, At, disk, unit
<1>4. CASE Fetch
  BY <1>2, <1>4 DEF Fetch, At, Finish, disk, unit, bounds, Stages
<1>5. CASE WriteIntent
  BY <1>2, <1>5 DEF WriteIntent, At, unit, bounds, AfterMarkError, Stages
<1>6. CASE SubmitRestart
  BY <1>6 DEF SubmitRestart, At, Finish, disk, bounds
<1>7. CASE CooldownOver \/ RequestRestart \/ FireRestart
  BY <1>7 DEF CooldownOver, RequestRestart, FireRestart, disk, unit, bounds
<1> QED
  BY <1>3, <1>4, <1>5, <1>6, <1>7 DEF Quiet

LEMMA QuietSound == TypeOK /\ Sound /\ Quiet => Sound'
<1> SUFFICES ASSUME TypeOK, Sound, Quiet PROVE Sound'
  OBVIOUS
<1>1. Resting /\ Kept /\ Progress /\ Marked
  BY DEF Sound
<1>2. /\ (RunningLeads' <=> RunningLeads)
      /\ UNCHANGED marker => (MarkedLeads' <=> MarkedLeads)
  BY <1>1, QuietEffect, SameLeads
<1>3. Idle("failed").pc = "idle" /\ Idle("failed").outcome = "failed"
      /\ Idle("success").pc = "idle" /\ Idle("success").outcome = "success"
  BY IdleType
<1>4. Resting'
  BY <1>1, <1>3, QuietEffect DEF Resting, Up, Intent, NoMarker
<1>5. Kept'
  BY <1>1, <1>2, <1>3, QuietEffect DEF Kept, Swapping, Up
<1>6. Progress'
  BY <1>1, <1>3, QuietEffect DEF Progress, Resting, Up, Intent
<1>7. Marked'
  <2>1. CASE UNCHANGED marker /\ ~(task.pc = "mark" /\ task'.pc = "restart")
    <3> SUFFICES ASSUME marker # NoMarker, MarkedLeads PROVE Marked'
      BY <1>2, <2>1 DEF Marked
    <3>1. /\ UNCHANGED <<file, bak, running, proc, cut, marker>>
          /\ \/ task.pc \in {"idle", "restart"} /\ before' = file
                /\ task'.pc \notin {"swapCli", "mark", "restoreServer", "restoreCli"}
             \/ UNCHANGED before /\ (task.pc \in {"swapCli", "mark", "restoreServer", "restoreCli"}
                                       <=> task'.pc \in {"swapCli", "mark", "restoreServer", "restoreCli"})
                /\ (Working' => Working)
             \/ task'.pc \in {"idle", "restart"} /\ UNCHANGED before
                /\ task.pc \notin {"swapCli", "mark", "restoreServer", "restoreCli"}
      BY <1>1, <1>3, <2>1, QuietEffect DEF Working, Resting
    <3>2. /\ \A n \in Name : bak[n][marker.backup] # Absent
          /\ Up => /\ marker.backup = running
                   /\ task.pc \notin {"swapCli", "mark", "restoreServer", "restoreCli"} =>
                        file = Pair(marker.target)
                   /\ Working => before = Pair(marker.target)
          /\ (~Up /\ file["server"] # marker.target) \/ Rolling =>
               cut /\ \A n \in Name : bak[n][marker.backup] = marker.target
          /\ proc.pc \in {"rollCli", "unmark"} => file["server"] = marker.target
          /\ proc.pc = "unmark" => file["cli"] = marker.target
      BY <1>1 DEF Marked
    <3> QED
      BY <3>1, <3>2 DEF Marked, Working, Rolling, Up
  <2>2. CASE task.pc = "mark" /\ task'.pc = "restart" /\ Up /\ marker' = Intent
    <3>1. marker'.backup = running /\ marker'.target = task.target /\ UNCHANGED <<file, bak, running, proc>>
      BY <1>1, <2>2, QuietEffect DEF Intent
    <3>2. MarkedLeads' => RunningLeads
      BY <3>1 DEF MarkedLeads, RunningLeads, NoLaterBackup
    <3>3. RunningLeads => \A n \in Name : bak[n][running] = before[n] /\ before[n] # Absent
      BY <1>1, <2>2 DEF Kept, Swapping, TypeOK
    <3>4. file' = Pair(marker'.target)
      BY <1>1, <2>2, <3>1 DEF Progress
    <3> QED
      BY <2>2, <3>1, <3>2, <3>3, <3>4 DEF Marked, Working, Rolling, Up
  <2> QED
    BY <1>1, <2>1, <2>2, QuietEffect
<1> QED
  BY <1>4, <1>5, <1>6, <1>7 DEF Sound

LEMMA BackupSound ==
  ASSUME TypeOK, Sound, NEW n \in Name, NEW pc, NEW next \in Stages, BackupBinary(n, pc, next),
         \/ n = "server" /\ pc = "backupServer" /\ next = "backupCli"
         \/ n = "cli" /\ pc = "backupCli" /\ next = "swapServer"
  PROVE  Sound'
<1>1. Resting /\ Kept /\ Progress /\ Marked
  BY DEF Sound
<1>2. /\ Up /\ task.pc = pc /\ UNCHANGED <<file, marker, running, proc, cut, before, faults>> /\ BackupsChange
      /\ \/ Backup(n) /\ task'.pc = next /\ task'.target = task.target /\ task'.outcome = task.outcome
         \/ bak' \in {bak, TornCopy(n), Copied(n)} /\ task'.pc = "idle" /\ task'.outcome = "failed"
  BY BackupBinaryType, IdleType DEF unit, bounds
<1>3. RunningLeads' => RunningLeads
  BY <1>2, LeadsBefore
<1>4. marker # NoMarker /\ MarkedLeads' => MarkedLeads /\ marker.backup = running /\ RunningLeads'
  BY <1>1, <1>2, LeadsBefore DEF Marked, MarkedLeads, RunningLeads, NoLaterBackup
<1>5. /\ bak \in [Name -> [Release -> Content]] /\ running \in Release
      /\ file[n] \in Content \ {Absent} /\ Torn # Absent
  BY ReleaseType DEF TypeOK
<1>6. ASSUME Backup(n), RunningLeads' PROVE bak'[n][running] = file[n]
  <2>1. \A x \in Release : bak'[n][x] # Absent => Rank[x] <= Rank[running]
    BY <1>2, <1>6 DEF RunningLeads, NoLaterBackup
  <2>2. Rank \in [Release -> Nat]
    OBVIOUS
  <2>3. \A x \in Release : ~(bak'[n][x] # Absent /\ Rank[x] > Rank[running])
    BY <1>5, <2>1, <2>2
  <2>4. \/ bak'[n][running] = file[n]
        \/ \E x \in Release : bak'[n][x] # Absent /\ Rank[x] > Rank[running]
    BY <1>5, <1>6, BackupEffect
  <2> QED
    BY <2>3, <2>4
<1>7. \A o \in Name \ {n} : bak'[o] = bak[o]
  <2>1. Backup(n) => \A o \in Name \ {n} : bak'[o] = bak[o]
    BY <1>5, BackupEffect
  <2> QED
    BY <1>2, <1>5, <2>1 DEF TornCopy, Copied
<1>8. bak' \in {bak, TornCopy(n), Copied(n)} /\ bak[n][running] # Absent => bak'[n][running] # Absent
  BY <1>5 DEF TornCopy, Copied
<1>9. Resting'
  BY <1>1, <1>2 DEF Resting, Up
<1>10. Kept'
  BY <1>1, <1>2, <1>3, <1>6, <1>7 DEF Kept, Progress, Swapping, Resting, Name
<1>11. Progress'
  BY <1>1, <1>2 DEF Progress, Resting, Up
<1>12. Marked'
  <2> SUFFICES ASSUME marker # NoMarker, MarkedLeads' PROVE Marked'
    BY <1>2 DEF Marked
  <2>1. MarkedLeads /\ marker.backup = running /\ RunningLeads'
    BY <1>4
  <2>2. /\ \A o \in Name : bak[o][running] # Absent
        /\ file = Pair(marker.target) /\ before = Pair(marker.target)
    BY <1>1, <1>2, <2>1 DEF Marked, Working
  <2>3. bak'[n][running] # Absent
    BY <1>2, <1>5, <1>6, <1>8, <2>1, <2>2
  <2>4. \A o \in Name : bak'[o][running] # Absent
    BY <1>7, <2>2, <2>3
  <2>5. ~Rolling' /\ Up'
    BY <1>2 DEF Rolling, Up
  <2> QED
    BY <1>2, <2>1, <2>2, <2>4, <2>5 DEF Marked, Rolling, Up
<1> QED
  BY <1>9, <1>10, <1>11, <1>12 DEF Sound


LEMMA SwapSound ==
  ASSUME TypeOK, Sound,
         Swap("server", "swapServer", "swapCli") \/ Swap("cli", "swapCli", "mark")
  PROVE  Sound'
<1>1. Resting /\ Kept /\ Progress /\ Marked
  BY DEF Sound
<1>2. /\ Up /\ UNCHANGED <<bak, marker, running, proc, cut, before, faults, lost>> /\ task'.target = task.target
      /\ task'.outcome = "none"
      /\ \/ /\ task.pc = "swapServer" /\ task'.pc \in {"swapCli", "restoreServer"}
            /\ task'.pc = "swapCli" => file' = [file EXCEPT !["server"] = task.target]
         \/ /\ task.pc = "swapCli" /\ task'.pc \in {"mark", "restoreServer"}
            /\ task'.pc = "mark" => file' = [file EXCEPT !["cli"] = task.target]
  <2>1. CASE Swap("server", "swapServer", "swapCli")
    BY <1>1, <2>1, SwapType DEF Resting, Name, Stages, unit, bounds
  <2>2. CASE Swap("cli", "swapCli", "mark")
    BY <1>1, <2>2, SwapType DEF Resting, Name, Stages, unit, bounds
  <2> QED
    BY <2>1, <2>2
<1>3. (RunningLeads' <=> RunningLeads) /\ (MarkedLeads' <=> MarkedLeads)
  BY <1>2, SameLeads
<1>4. Resting'
  BY <1>1, <1>2 DEF Resting, Up
<1>5. Kept'
  BY <1>1, <1>2, <1>3 DEF Kept, Swapping
<1>6. Progress'
  <2>1. before \in [Name -> Content \ {Absent}]
    BY DEF TypeOK
  <2>2. task'.pc = "swapCli" => file' = [before EXCEPT !["server"] = task.target]
    BY <1>1, <1>2 DEF Progress
  <2>3. task'.pc = "mark" => file' = Pair(task.target)
    <3>1. [[before EXCEPT !["server"] = task.target] EXCEPT !["cli"] = task.target] = Pair(task.target)
      BY <2>1 DEF Pair, Name
    <3> QED
      BY <1>1, <1>2, <3>1 DEF Progress
  <2> QED
    BY <1>2, <2>2, <2>3 DEF Progress, Up
<1>7. Marked'
  BY <1>1, <1>2, <1>3 DEF Marked, Working, Rolling, Up
<1> QED
  BY <1>4, <1>5, <1>6, <1>7 DEF Sound

LEMMA RestoreSound == TypeOK /\ Spotless /\ Sound /\ (RestoreServer \/ RestoreCli) => Sound'
<1> SUFFICES ASSUME TypeOK, Spotless, Sound, RestoreServer \/ RestoreCli PROVE Sound'
  OBVIOUS
<1>1. Resting /\ Kept /\ Progress /\ Marked
  BY DEF Sound
<1>2. /\ file \in [Name -> Content \ {Absent}] /\ before \in [Name -> Content \ {Absent}]
      /\ "server" \in Name /\ "cli" \in Name
  BY DEF TypeOK, Name
<1>3. \A n \in Name : Restore(n) =>
        \/ file' = [file EXCEPT ![n] = Restored(n)] /\ UNCHANGED <<lost, faults>>
        \/ faults' # 0 /\ lost' = lost \cup {n} /\ UNCHANGED file
  BY DEF Restore, Fault, TypeOK
<1>4. /\ Up /\ UNCHANGED <<bak, marker, running, proc, cut, before>>
      /\ \/ /\ task.pc = "restoreServer" /\ task'.pc = "restoreCli" /\ task'.target = task.target
            /\ task'.outcome = "none" /\ Restore("server")
         \/ /\ task.pc = "restoreCli" /\ task' = Idle("restored") /\ Restore("cli")
  <2>1. CASE RestoreServer
    BY <1>1, <2>1, GoToType DEF RestoreServer, At, Resting, Stages, unit
  <2>2. CASE RestoreCli
    BY <2>2 DEF RestoreCli, At, Finish, unit
  <2> QED
    BY <2>1, <2>2
<1>5. /\ RunningLeads' <=> RunningLeads
      /\ MarkedLeads' => MarkedLeads /\ UNCHANGED faults
  <2>1. UNCHANGED faults \/ faults' # 0
    BY <1>2, <1>3, <1>4
  <2> QED
    BY <1>4, <2>1, SameLeads DEF MarkedLeads
<1>6. Idle("restored").pc = "idle" /\ Idle("restored").outcome = "restored"
  BY IdleType
<1>7. RunningLeads => \A n \in Name : bak[n][running] = before[n] /\ Restored(n) = before[n]
  BY <1>1, <1>2, <1>4 DEF Kept, Swapping, Restored
<1>8. CASE task.pc = "restoreServer"
  <2>1. task'.pc = "restoreCli" /\ task'.target = task.target /\ task'.outcome = "none"
    BY <1>4, <1>8
  <2>2. RunningLeads => "server" \in lost' \/ file'["server"] = before["server"]
    BY <1>2, <1>3, <1>4, <1>7, <1>8
  <2>3. Resting'
    BY <1>1, <1>4, <1>8, <2>1 DEF Resting, Up
  <2>4. Kept'
    BY <1>4, <1>5, <1>7, <2>1, <2>2 DEF Kept, Swapping, Up
  <2>5. Progress'
    BY <2>1 DEF Progress
  <2>6. Marked'
    BY <1>1, <1>4, <1>5, <1>8, <2>1 DEF Marked, Working, Rolling, Up
  <2> QED
    BY <2>3, <2>4, <2>5, <2>6 DEF Sound
<1>9. CASE task.pc = "restoreCli"
  <2>1. task'.pc = "idle" /\ task'.outcome = "restored" /\ Restore("cli")
    BY <1>4, <1>6, <1>9
  <2>2. RunningLeads => \A n \in Name \ lost' : file'[n] = before[n]
    <3> SUFFICES ASSUME RunningLeads, NEW n \in Name \ lost' PROVE file'[n] = before[n]
      OBVIOUS
    <3>1. "server" \in lost \/ file["server"] = before["server"]
      BY <1>1, <1>9 DEF Kept
    <3>2. \/ file' = [file EXCEPT !["cli"] = before["cli"]] /\ UNCHANGED lost
          \/ lost' = lost \cup {"cli"} /\ UNCHANGED file
      BY <1>2, <1>3, <1>7, <2>1
    <3> QED
      BY <1>2, <3>1, <3>2 DEF Name
  <2>3. Resting'
    BY <1>1, <1>4, <2>1 DEF Resting, Up
  <2>4. Kept'
    BY <1>4, <1>5, <2>1, <2>2 DEF Kept, Swapping
  <2>5. Progress'
    BY <2>1 DEF Progress
  <2>6. Marked'
    <3> SUFFICES ASSUME marker # NoMarker, MarkedLeads' PROVE Marked'
      BY <1>4 DEF Marked
    <3>1. /\ MarkedLeads /\ marker.backup = running /\ before = Pair(marker.target)
          /\ \A n \in Name : bak[n][marker.backup] # Absent
      BY <1>1, <1>4, <1>5, <1>9 DEF Marked, Working
    <3>2. /\ RunningLeads /\ lost = {}
      BY <3>1 DEF RunningLeads, MarkedLeads, NoLaterBackup, Spotless
    <3>3. UNCHANGED lost
      BY <1>2, <1>3, <1>5, <2>1 DEF MarkedLeads
    <3>4. file' = before
      <4>1. file' \in [Name -> Content \ {Absent}]
        BY <1>4, RestoreType DEF TypeOK
      <4> QED
        BY <1>2, <2>2, <3>2, <3>3, <4>1
    <3> QED
      BY <1>4, <2>1, <3>1, <3>4 DEF Marked, Working, Rolling, Up
  <2> QED
    BY <2>3, <2>4, <2>5, <2>6 DEF Sound
<1> QED
  BY <1>4, <1>8, <1>9

LEMMA DieSound == TypeOK /\ Sound /\ (Stop \/ Crash) => Sound'
<1> SUFFICES ASSUME TypeOK, Sound, Stop \/ Crash PROVE Sound'
  OBVIOUS
<1>1. Resting /\ Kept /\ Progress /\ Marked
  BY DEF Sound
<1>2. /\ UNCHANGED <<file, marker, running, before, faults>> /\ cut' = (cut \/ Swapping) /\ BackupsChange
      /\ \/ UNCHANGED bak
         \/ task.pc = "backupServer" /\ bak' = TornCopy("server")
         \/ task.pc = "backupCli" /\ bak' = TornCopy("cli")
  BY DieType DEF Die, bounds
<1>3. /\ task'.pc = "idle" /\ task'.outcome = "none"
      /\ proc'.pc \in {"heal", "exec"}
  BY DieType, IdleType, BootType DEF Die
<1>4. Resting'
  BY <1>3 DEF Resting
<1>5. Kept'
  BY <1>3 DEF Kept, Swapping, Up
<1>6. Progress'
  BY <1>3 DEF Progress, Up
<1>7. Marked'
  <2> SUFFICES ASSUME marker # NoMarker, MarkedLeads' PROVE Marked'
    BY <1>2 DEF Marked
  <2>1. MarkedLeads
    BY <1>2, LeadsBefore
  <2>2. \A n \in Name : bak[n][marker.backup] # Absent
    BY <1>1, <2>1 DEF Marked
  <2>3. \A n \in Name : bak'[n][marker.backup] # Absent
    <3>1. bak \in [Name -> [Release -> Content]] /\ Torn # Absent
      BY ReleaseType DEF TypeOK
    <3>2. ASSUME NEW n \in Name, bak' = TornCopy(n)
          PROVE  \A o \in Name : bak'[o][marker.backup] # Absent
      BY <2>2, <3>1, <3>2 DEF TornCopy
    <3> QED
      BY <1>2, <2>2, <3>2 DEF Name
  <2>4. ASSUME file["server"] # marker.target
        PROVE  cut' /\ \A n \in Name : bak'[n][marker.backup] = marker.target
    <3>1. CASE Up
      <4>1. /\ marker.backup = running
            /\ Working => before = Pair(marker.target)
            /\ task.pc \notin {"swapCli", "mark", "restoreServer", "restoreCli"} =>
                 file = Pair(marker.target)
        BY <1>1, <2>1, <3>1 DEF Marked
      <4>2. task.pc \in {"swapCli", "mark", "restoreServer", "restoreCli"}
        BY <2>4, <4>1 DEF Pair, Name
      <4>3. RunningLeads /\ Swapping /\ before = Pair(marker.target)
        <5>1. RunningLeads
          BY <2>1, <4>1 DEF RunningLeads, MarkedLeads, NoLaterBackup
        <5> QED
          BY <4>1, <4>2, <5>1 DEF Working, Swapping
      <4>4. UNCHANGED bak /\ \A n \in Name : bak[n][running] = before[n]
        BY <1>1, <1>2, <4>2, <4>3 DEF Kept
      <4>5. \A n \in Name : bak[n][running] = marker.target
        BY <4>3, <4>4 DEF Pair
      <4>6. cut'
        BY <1>2, <4>3
      <4> QED
        BY <4>1, <4>4, <4>5, <4>6
    <3>2. CASE ~Up
      <4>1. cut /\ \A n \in Name : bak[n][marker.backup] = marker.target
        BY <1>1, <2>1, <2>4, <3>2 DEF Marked
      <4>2. UNCHANGED bak
        BY <1>1, <1>2, <3>2 DEF Resting, Up
      <4> QED
        BY <1>2, <4>1, <4>2
    <3> QED
      BY <3>1, <3>2
  <2> QED
    BY <1>2, <1>3, <2>3, <2>4 DEF Marked, Rolling, Up
<1> QED
  BY <1>4, <1>5, <1>6, <1>7 DEF Sound

LEMMA StartingSound == TypeOK /\ Sound /\ Starting => Sound'
<1> SUFFICES ASSUME TypeOK, Sound, Starting PROVE Sound'
  OBVIOUS
<1>1. Resting /\ Kept /\ Progress /\ Marked
  BY DEF Sound
<1>2. UNCHANGED <<bak, task, cut, before, lost>>
  BY <1>1, StartingType
<1>3. /\ ~Up /\ task.pc = "idle" /\ task.outcome = "none"
      /\ proc'.pc = "up" => proc'.by = "main"
      /\ UNCHANGED marker \/ marker' = NoMarker
      /\ proc'.pc \in {"rollServer", "rollCli", "unmark"} => marker # NoMarker /\ UNCHANGED marker
  <2>1. /\ [proc EXCEPT !.pc = "rollServer"].pc = "rollServer"
        /\ [proc EXCEPT !.pc = "rollCli"].pc = "rollCli" /\ [proc EXCEPT !.pc = "unmark"].pc = "unmark"
    BY DEF TypeOK
  <2>2. CASE Heal
    BY <1>1, <2>1, <2>2, BootType DEF Heal, Healing, Resting, Up
  <2>3. CASE RollServer
    BY <1>1, <2>1, <2>3, BootType DEF RollServer, Healing, Resting, Up
  <2>4. CASE RollCli
    BY <1>1, <2>1, <2>4, BootType DEF RollCli, Healing, Resting, Up
  <2>5. CASE Unmark
    BY <1>1, <2>5, BootType DEF Unmark, Healing, Resting, Up
  <2>6. CASE Exec
    BY <1>1, <2>6, BootType DEF Exec, Resting, Up, disk
  <2> QED
    BY <2>2, <2>3, <2>4, <2>5, <2>6 DEF Starting
<1>4. Resting'
  BY <1>2, <1>3 DEF Resting
<1>5. Kept' /\ Progress'
  BY <1>2, <1>3 DEF Kept, Progress, Swapping
<1>6. Marked'
  <2>1. MarkedLeads' => UNCHANGED faults
    BY <1>1, StartingType DEF MarkedLeads
  <2> SUFFICES ASSUME marker # NoMarker, MarkedLeads, UNCHANGED <<marker, faults>>, marker' # NoMarker
               PROVE  Marked'
    BY <1>2, <1>3, <2>1, SameLeads DEF Marked
  <2>2. /\ \A n \in Name : bak[n][marker.backup] # Absent
        /\ file["server"] # marker.target \/ Rolling =>
             cut /\ \A n \in Name : bak[n][marker.backup] = marker.target
        /\ proc.pc \in {"rollCli", "unmark"} => file["server"] = marker.target
    BY <1>1, <1>3 DEF Marked
  <2>3. file \in [Name -> Content \ {Absent}] /\ "server" \in Name /\ "cli" \in Name /\ "server" # "cli"
    BY DEF TypeOK, Name
  <2>4. ~Fault
    BY DEF Fault, TypeOK
  <2>5. CASE Heal
    <3>1. CASE file["server"] # marker.target
      <4>1. proc'.pc = "rollServer" /\ UNCHANGED file
        BY <2>4, <2>5, <3>1, ProcStep DEF Heal
      <4> QED
        BY <1>2, <2>2, <3>1, <4>1 DEF Marked, Rolling, Up
    <3>2. CASE file["server"] = marker.target
      BY <2>4, <2>5, <3>2 DEF Heal
    <3> QED
      BY <3>1, <3>2
  <2>6. CASE RollServer
    <3>1. /\ file' = [file EXCEPT !["server"] = bak["server"][marker.backup]] /\ proc'.pc = "rollCli"
          /\ Rolling
      BY <2>2, <2>3, <2>4, <2>6, ProcStep DEF RollServer, Healing, Rolling
    <3> QED
      BY <1>2, <2>2, <2>3, <3>1 DEF Marked, Rolling, Up
  <2>7. CASE RollCli
    <3>1. /\ file' = [file EXCEPT !["cli"] = bak["cli"][marker.backup]] /\ proc'.pc = "unmark"
          /\ Rolling /\ proc.pc = "rollCli"
      BY <2>2, <2>3, <2>4, <2>7, ProcStep DEF RollCli, Healing, CliRestored, CliBackup, Rolling
    <3> QED
      BY <1>2, <2>2, <2>3, <3>1 DEF Marked, Rolling, Up
  <2>8. CASE Unmark
    BY <2>4, <2>8 DEF Unmark
  <2>9. CASE Exec
    <3>1. UNCHANGED file /\ proc'.pc \in {"heal", "exec"}
      BY <2>9, BootType DEF Exec, disk
    <3> QED
      BY <1>2, <1>3, <2>2, <3>1 DEF Marked, Rolling, Up
  <2> QED
    BY <2>5, <2>6, <2>7, <2>8, <2>9 DEF Starting
<1> QED
  BY <1>4, <1>5, <1>6 DEF Sound

LEMMA SpotlessNext == TypeOK /\ Resting /\ Spotless /\ [Next]_vars => Spotless'
<1> SUFFICES ASSUME TypeOK, Resting, Spotless, [Next]_vars PROVE Spotless'
  OBVIOUS
<1>1. faults \in 0..MaxFault
  BY DEF TypeOK
<1>2. CASE RestoreServer \/ RestoreCli
  BY <1>1, <1>2 DEF RestoreServer, RestoreCli, Restore, Fault, Spotless
<1>3. CASE Quiet
  BY <1>3 DEF Quiet, Start, Fetch, WriteIntent, SubmitRestart, CooldownOver, RequestRestart, FireRestart,
              bounds, Spotless
<1>4. CASE Starting
  BY <1>1, <1>4, StartingType DEF Spotless
<1>5. CASE Stop \/ Crash
  BY <1>5 DEF Stop, Crash, Die, bounds, Spotless
<1>6. ASSUME NEW n, NEW pc, NEW next, BackupBinary(n, pc, next) \/ Swap(n, pc, next)
      PROVE  Spotless'
  BY <1>6 DEF BackupBinary, Swap, bounds, Spotless
<1>7. CASE UNCHANGED vars
  BY <1>7 DEF vars, Spotless
<1> QED
  BY <1>2, <1>3, <1>4, <1>5, <1>6, <1>7 DEF Next, Upgrading, Quiet

LEMMA SoundNext == TypeOK /\ Spotless /\ Sound /\ [Next]_vars => Sound'
<1> SUFFICES ASSUME TypeOK, Spotless, Sound, [Next]_vars PROVE Sound'
  OBVIOUS
<1>1. CASE Upgrading
  BY <1>1, QuietSound, BackupSound, SwapSound, RestoreSound DEF Upgrading, Quiet, Name, Stages
<1>2. CASE RequestRestart \/ FireRestart
  BY <1>2, QuietSound DEF Quiet
<1>3. CASE UNCHANGED vars
  BY <1>3 DEF vars, Sound, Resting, Kept, Progress, Marked, Swapping, Working, Rolling, Up, Intent,
              RunningLeads, MarkedLeads, NoLaterBackup
<1> QED
  BY <1>1, <1>2, <1>3, DieSound, StartingSound DEF Next

LEMMA SoundAlways == Spec => [](TypeOK /\ Spotless /\ Sound)
<1>1. Init => TypeOK /\ Spotless /\ Sound
  <2>1. Init => Spotless
    BY DEF Init, Spotless
  <2> QED
    BY <2>1, InitType, SoundInit
<1>2. TypeOK /\ Spotless /\ Sound /\ [Next]_vars => (TypeOK /\ Spotless /\ Sound)'
  BY NextType, SpotlessNext, SoundNext DEF Sound
<1> QED
  BY <1>1, <1>2, PTL DEF Spec

\* Every step keeps the types of the disk, the unit and the task.
THEOREM TypeCorrect == Spec => []TypeOK
BY SoundAlways, PTL

\* A failed replace stage put back every binary whose restore met no error, whatever the
\* process had upgraded and failed to restore before (replace.go:46-49, 106-119).
THEOREM FailureRestores == Spec => []FailedReplaceRestores
<1>1. Sound => FailedReplaceRestores
  BY DEF Sound, Kept, RunningLeads, FailedReplaceRestores
<1> QED
  BY <1>1, SoundAlways, PTL

\* A task that reported success left the complete pair and its marker (replace.go:95-98).
THEOREM SuccessIsComplete == Spec => []SuccessIsInstalled
<1>1. Sound => SuccessIsInstalled
  BY DEF Sound, Progress, Pair, Name, SuccessIsInstalled
<1> QED
  BY <1>1, SoundAlways, PTL

\* The net rolls back only what an interrupted swap or an I/O error left (rollback.go:38-48).
THEOREM NetIsSparing == Spec => []NetSparesGoodInstall
<1>1. TypeOK /\ Sound => NetSparesGoodInstall
  BY DEF TypeOK, Sound, Resting, Marked, MarkedLeads, Rolling, NetSparesGoodInstall
<1> QED
  BY <1>1, SoundAlways, PTL

\* Without such errors, a rollback that came to its end left the pair of one release
\* (rollback.go:91-99).
THEOREM RollbackIsWhole == Spec => []RollbackRestoresPair
<1>1. Sound => RollbackRestoresPair
  BY DEF Sound, Resting, Marked, MarkedLeads, Rolling, RollbackRestoresPair, Name
<1> QED
  BY <1>1, SoundAlways, PTL
=============================================================================
