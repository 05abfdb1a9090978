------------------------------- MODULE Upgrade -------------------------------
(***************************************************************************)
(* The self-upgrade pipeline (internal/upgrade): the replace stage that    *)
(* swaps the pair of binaries, the intent marker, the restart, and the     *)
(* self-heal net that reads the marker at the next start - the unit's      *)
(* ExecStartPre hook (kmwafctl upgrade-rollback) and the start of main.    *)
(*                                                                         *)
(* A binary is the release it was built from; backups are named by the     *)
(* version of the process that made them.  The process, or the machine,    *)
(* may die between any two steps; the disk keeps what was renamed.  Every  *)
(* file operation may fail; the mode bits a failed chmod leaves are not    *)
(* modelled.                                                               *)
(***************************************************************************)
EXTENDS Naturals, FiniteSets

CONSTANTS
  Last,      \* releases are 1..Last
  Installed, \* the release installed at first
  OldBackup, \* versions backed up by earlier upgrades
  Rank,      \* order of the versions' names: what sort.Strings compares
  Broken,    \* releases that pass verification but do not start
  Keep,      \* backupKeep (2 in the code)
  MaxTask,   \* bound: upgrade tasks
  MaxCrash,  \* bound: deaths of the process
  MaxFault   \* bound: I/O errors of restores and rollbacks

Release == 1..Last
Absent  == 0
Torn    == Last + 1
Content == 0..Torn
Name    == {"server", "cli"}

ASSUME UpgradeAssumption ==
  /\ Last \in Nat /\ Installed \in Release /\ OldBackup \subseteq Release
  /\ Rank \in [Release -> Nat]
  /\ \A v, w \in Release : Rank[v] = Rank[w] => v = w
  /\ Broken \subseteq Release /\ Installed \notin Broken
  /\ Keep \in Nat \ {0} /\ MaxTask \in Nat /\ MaxCrash \in Nat /\ MaxFault \in Nat
  /\ Cardinality(OldBackup) <= Keep

VARIABLES
  file,    \* the installed binaries
  bak,     \* bak[n][v]: the file <n>.bak-<v>
  marker,  \* intent.json
  running, \* the release this process was started from
  proc,    \* the unit: healing (the hook, then main), starting, or up
  hook,    \* the unit file has the ExecStartPre line
  task,    \* the upgrade task
  cool,    \* the cooldown after a failed task runs
  timer,   \* an API restart waits for its delay
  queued,  \* systemd accepted a restart job
  tasks, crashes, faults,
  before,  \* history: the binaries when the task began
  lost,    \* history: the binaries this task failed to restore
  cut      \* history: the process died inside a swap

vars == <<file, bak, marker, running, proc, hook, task, cool, timer, queued, tasks, crashes,
          faults, before, lost, cut>>
disk   == <<file, bak, marker>>
unit   == <<running, proc, hook, queued, crashes, cut>>
bounds == <<tasks, before, lost, faults>>

NoMarker == [target |-> 0, backup |-> 0]
Idle(outcome) == [pc |-> "idle", target |-> 0, outcome |-> outcome]

Init ==
  /\ file = [n \in Name |-> Installed]
  /\ bak = [n \in Name |-> [v \in Release |-> IF v \in OldBackup THEN v ELSE Absent]]
  /\ marker = NoMarker
  /\ running = Installed
  /\ proc = [pc |-> "up", by |-> "main"]
  /\ hook \in BOOLEAN
  /\ task = Idle("none")
  /\ cool = FALSE /\ timer = FALSE /\ queued = FALSE
  /\ tasks = 0 /\ crashes = 0 /\ faults = 0
  /\ before = file /\ lost = {} /\ cut = FALSE

-----------------------------------------------------------------------------
(* The task.                                                               *)

Up == proc.pc = "up"
At(pc) == Up /\ task.pc = pc
GoTo(pc) == task' = [task EXCEPT !.pc = pc]

\* finishTask: single flight is released, a failure arms the cooldown.
Finish(outcome) ==
  /\ task' = Idle(outcome)
  /\ cool' = (outcome # "success")

\* Service.Start.  While a task runs every caller gets that task.
Start(v) ==
  /\ At("idle") /\ ~cool /\ tasks < MaxTask
  /\ task' = [pc |-> "fetch", target |-> v, outcome |-> "none"]
  /\ tasks' = tasks + 1
  /\ before' = file /\ lost' = {}
  /\ UNCHANGED <<disk, unit, cool, timer, faults>>

\* stageDetect refuses what is not newer; the archive is downloaded and verified.
Fetch ==
  /\ At("fetch")
  /\ \/ task.target > running /\ GoTo("backupServer") /\ UNCHANGED cool
     \/ Finish("failed")
  /\ UNCHANGED <<disk, unit, timer, bounds>>

Backups(n, files) == {v \in Release : files[n][v] # Absent}

\* Bug of Pruned: the newest names go, not the oldest.
PrunedNewest(n, files) ==
  {v \in Backups(n, files) : Cardinality({w \in Backups(n, files) : Rank[w] < Rank[v]}) >= Keep}
\* pruneBackups: the Keep highest names stay.
Pruned(n, files) ==
  {v \in Backups(n, files) : Cardinality({w \in Backups(n, files) : Rank[w] > Rank[v]}) >= Keep}

Copied(n) == [bak EXCEPT ![n][running] = file[n]]
TornCopy(n) == [bak EXCEPT ![n][running] = Torn]

\* backupCurrentBinaries for one name: copy, then prune.
Backup(n) ==
  bak' = [Copied(n) EXCEPT ![n] = [v \in Release |->
            IF v \in Pruned(n, Copied(n)) THEN Absent ELSE Copied(n)[n][v]]]

BackupBinary(n, pc, next) ==
  /\ At(pc)
  /\ \/ Backup(n) /\ GoTo(next) /\ UNCHANGED cool
     \/ \* the probe, the copy or the pruning failed: nothing was swapped
        /\ bak' \in {bak, TornCopy(n), Copied(n)}
        /\ Finish("failed")
  /\ UNCHANGED <<file, marker, unit, timer, bounds>>

AfterSwapError == "restoreServer"

\* atomicInstall of one binary: it fails before the rename, or after it (chmod).
Swap(n, pc, next) ==
  /\ At(pc)
  /\ \/ file' = [file EXCEPT ![n] = task.target] /\ GoTo(next)
     \/ file' \in {file, [file EXCEPT ![n] = task.target]} /\ GoTo(AfterSwapError)
  /\ UNCHANGED <<bak, marker, unit, cool, timer, bounds>>

\* Bug of Intent: the marker describes the release that was replaced.
IntentOfRunning == [target |-> running, backup |-> running]

Intent == [target |-> task.target, backup |-> running]

AfterMarkError == "restoreServer"

\* writeIntent.
WriteIntent ==
  /\ At("mark")
  /\ \/ marker' = Intent /\ GoTo("restart")
     \/ UNCHANGED marker /\ GoTo(AfterMarkError)
  /\ UNCHANGED <<file, bak, unit, cool, timer, bounds>>

\* An I/O error of a restore or a rollback.
Fault == faults < MaxFault /\ faults' = faults + 1

\* restoreFromBackups for one name; a missing backup is ignored.
Restored(n) == IF bak[n][running] = Absent THEN file[n] ELSE bak[n][running]

\* An error of the restore is ignored as well: that binary stays as the swap left it.
Restore(n) ==
  \/ file' = [file EXCEPT ![n] = Restored(n)] /\ UNCHANGED <<lost, faults>>
  \/ Fault /\ lost' = lost \cup {n} /\ UNCHANGED file

RestoreServer ==
  /\ At("restoreServer")
  /\ Restore("server")
  /\ GoTo("restoreCli")
  /\ UNCHANGED <<bak, marker, unit, cool, timer, tasks, before>>

RestoreCli ==
  /\ At("restoreCli")
  /\ Restore("cli")
  /\ Finish("restored")
  /\ UNCHANGED <<bak, marker, unit, timer, tasks, before>>

\* defaultRestartStage: the submission is accepted or refused.
SubmitRestart ==
  /\ At("restart")
  /\ \/ queued' = TRUE /\ Finish("success")
     \/ UNCHANGED queued /\ Finish("failed")
  /\ UNCHANGED <<disk, running, proc, hook, crashes, cut, timer, bounds>>

CooldownOver ==
  /\ cool /\ cool' = FALSE
  /\ UNCHANGED <<disk, unit, task, timer, bounds>>

-----------------------------------------------------------------------------
(* The restart API (internal/api/system_restart.go).                       *)

\* One request at a time is pending (a bound: the code takes any number).
RequestRestart ==
  /\ At("idle") /\ ~timer /\ ~queued
  /\ timer' = TRUE
  /\ UNCHANGED <<disk, unit, task, cool, bounds>>

\* The delay is over: submitted, refused, or cancelled by a task started meanwhile.
FireRestart ==
  /\ Up /\ timer
  /\ timer' = FALSE
  /\ queued' = (queued \/ task.pc = "idle")
  /\ UNCHANGED <<disk, running, proc, hook, crashes, cut, task, cool, bounds>>

-----------------------------------------------------------------------------
(* The unit.                                                               *)

Boot == IF hook THEN [pc |-> "heal", by |-> "hook"] ELSE [pc |-> "exec", by |-> "hook"]

\* The stages between the first rename and the durable marker, or the restore.
Swapping == task.pc \in {"swapServer", "swapCli", "mark", "restoreServer", "restoreCli"}

Die ==
  /\ proc' = Boot
  /\ task' = Idle("none")
  /\ cool' = FALSE /\ timer' = FALSE /\ queued' = FALSE
  /\ cut' = (cut \/ Swapping)
  /\ UNCHANGED <<file, marker, running, hook, bounds>>

\* systemd stops the process for the queued restart.
Stop == Up /\ queued /\ Die /\ UNCHANGED <<bak, crashes>>

\* The process or the machine dies; a backup being copied stays torn.
Crash ==
  /\ crashes < MaxCrash
  /\ crashes' = crashes + 1
  /\ Die
  /\ \/ UNCHANGED bak
     \/ task.pc = "backupServer" /\ bak' = TornCopy("server")
     \/ task.pc = "backupCli" /\ bak' = TornCopy("cli")

\* From the hook to the executable, from main's own check to service.
Continue == IF proc.by = "hook" THEN [pc |-> "exec", by |-> "hook"] ELSE [pc |-> "up", by |-> "main"]

Healing(pc) == proc.pc = pc /\ UNCHANGED <<bak, running, hook, task, cool, timer, queued, crashes, cut,
                                           tasks, before, lost>>

\* CheckUpgradeIntent: no marker, a satisfied marker that is consumed, a mismatch.  A marker
\* that cannot be read or removed is left; a binary that cannot be read counts as a mismatch.
Heal ==
  /\ Healing("heal") /\ UNCHANGED file
  /\ \/ /\ IF marker # NoMarker /\ file["server"] # marker.target
           THEN proc' = [proc EXCEPT !.pc = "rollServer"] /\ UNCHANGED marker
           ELSE proc' = Continue /\ marker' = NoMarker
        /\ UNCHANGED faults
     \/ /\ marker # NoMarker /\ Fault /\ UNCHANGED marker
        /\ proc' \in {Continue, [proc EXCEPT !.pc = "rollServer"]}

\* PerformRollback: the server; without its backup nothing is touched.  An error, before or
\* after the rename, ends the rollback: the cli and the marker stay for the next start.
RollServer ==
  /\ Healing("rollServer") /\ UNCHANGED marker
  /\ IF bak["server"][marker.backup] = Absent
     THEN proc' = Continue /\ UNCHANGED <<file, faults>>
     ELSE \/ /\ file' = [file EXCEPT !["server"] = bak["server"][marker.backup]]
             /\ proc' = [proc EXCEPT !.pc = "rollCli"]
             /\ UNCHANGED faults
          \/ /\ file' \in {file, [file EXCEPT !["server"] = bak["server"][marker.backup]]}
             /\ proc' = Continue /\ Fault

\* Bug of CliBackup: siblingBackupPath finds nothing.
CliBackupUnknown == Absent
CliBackup == bak["cli"][marker.backup]
CliRestored == IF CliBackup = Absent THEN file ELSE [file EXCEPT !["cli"] = CliBackup]

RollCli ==
  /\ Healing("rollCli") /\ UNCHANGED marker
  /\ \/ file' = CliRestored /\ proc' = [proc EXCEPT !.pc = "unmark"] /\ UNCHANGED faults
     \/ file' \in {file, CliRestored} /\ proc' = Continue /\ Fault

Unmark ==
  /\ Healing("unmark") /\ UNCHANGED file
  /\ proc' = Continue
  /\ \/ marker' = NoMarker /\ UNCHANGED faults
     \/ UNCHANGED marker /\ Fault

\* systemd executes the binary; one that does not start is tried again.
Exec ==
  /\ proc.pc = "exec"
  /\ IF file["server"] \in Broken \cup {Torn}
     THEN proc' = Boot /\ UNCHANGED running
     ELSE proc' = [pc |-> "heal", by |-> "main"] /\ running' = file["server"]
  /\ UNCHANGED <<disk, hook, task, cool, timer, queued, crashes, cut, bounds>>

-----------------------------------------------------------------------------

Upgrading ==
  \/ \E v \in Release : Start(v)
  \/ Fetch
  \/ BackupBinary("server", "backupServer", "backupCli")
  \/ BackupBinary("cli", "backupCli", "swapServer")
  \/ Swap("server", "swapServer", "swapCli") \/ Swap("cli", "swapCli", "mark")
  \/ WriteIntent \/ RestoreServer \/ RestoreCli \/ SubmitRestart \/ CooldownOver

Starting == Heal \/ RollServer \/ RollCli \/ Unmark \/ Exec

Next == Upgrading \/ RequestRestart \/ FireRestart \/ Stop \/ Crash \/ Starting

Spec == Init /\ [][Next]_vars

\* systemd keeps starting the unit (Restart=on-failure, RestartSec=3).
FairSpec == Spec /\ WF_vars(Starting)

-----------------------------------------------------------------------------
(* What an upgrade promises.                                               *)

\* Every variable keeps its type; an installed binary is never missing.
TypeOK ==
  /\ file \in [Name -> Content \ {Absent}]
  /\ bak \in [Name -> [Release -> Content]]
  /\ marker \in [target : Release, backup : Release] \cup {NoMarker}
  /\ running \in Release
  /\ proc \in [pc : {"heal", "rollServer", "rollCli", "unmark", "exec", "up"}, by : {"hook", "main"}]
  /\ hook \in BOOLEAN
  /\ task \in [pc : {"idle", "fetch", "backupServer", "backupCli", "swapServer", "swapCli", "mark",
                     "restart", "restoreServer", "restoreCli"},
               target : 0..Last, outcome : {"none", "success", "failed", "restored"}]
  /\ cool \in BOOLEAN /\ timer \in BOOLEAN /\ queued \in BOOLEAN /\ cut \in BOOLEAN
  /\ tasks \in 0..MaxTask /\ crashes \in 0..MaxCrash /\ faults \in 0..MaxFault
  /\ before \in [Name -> Content \ {Absent}] /\ lost \subseteq Name

\* No backup carries a later name than v's.  pruneBackups compares names, so this is
\* what its "oldest backups go" rests on (replace.go:249-253).
NoLaterBackup(v) == \A n \in Name, w \in Release : bak[n][w] # Absent => Rank[w] <= Rank[v]

\* A replace stage that failed put back every binary it did not fail to restore, also when
\* the process had already upgraded once and its backups carry its old name, and whatever
\* restores failed before (replace.go:46-49, 106-119).
FailedReplaceRestores ==
  Up /\ task.outcome = "restored" /\ NoLaterBackup(running) =>
    \A n \in Name \ lost : file[n] = before[n]

\* "Every failure leaves the installation either untouched or restored to the pre-upgrade
\* binaries" (replace.go:46-49).  An ignored error of the restore leaves a mixed pair.
FailedReplaceIsWhole == Up /\ task.outcome = "restored" => file = before

\* The same of the binaries whose restore met no error: pruneBackups may already have
\* removed what the restore needs.
RestoresAreWhole == Up /\ task.outcome = "restored" => \A n \in Name \ lost : file[n] = before[n]

\* An upgrade reported successful is complete on disk, marker included
\* (replace.go:95-98).
SuccessIsInstalled ==
  Up /\ task.outcome = "success" =>
    /\ file["server"] = file["cli"] /\ marker.target = file["server"]
    /\ file["server"] > running

\* The net never rolls back an installation no swap of which was interrupted, unless some
\* file could not be read, restored or removed (rollback.go:38-48).
NetSparesGoodInstall ==
  proc.pc \in {"rollServer", "rollCli", "unmark"} /\ NoLaterBackup(marker.backup) =>
    cut \/ faults > 0

\* Where no file operation of a restore or rollback failed, a rollback that comes to its
\* end leaves both binaries of one release, those of the backup it was told of, also when
\* the process died in the middle of rollbacks before (rollback.go:91-99).
RollbackRestoresPair ==
  proc.pc = "unmark" /\ NoLaterBackup(marker.backup) /\ faults = 0 =>
    file["server"] = bak["server"][marker.backup] /\ file["server"] = file["cli"]

\* A death inside a swap "is what the L2 ExecStartPre rollback recovers from"
\* (replace.go:286-289).  The hook finds no marker of that swap.
CutSwapIsMended == hook /\ cut /\ Up /\ task = Idle("none") => file["server"] = file["cli"]

\* With the hook installed, a new package that does not start is rolled back to the
\* version before, and the service comes back (deploy/README.md:337).  The first start
\* consumes the marker before the new binary has proved that it runs.
ServiceComesBack == hook /\ ~Up ~> Up
=============================================================================
