SPECIFICATION Spec
CONSTANTS
  Last = 5
  Installed = 1
  OldBackup <- None
  Rank <- InOrder
  Broken <- Newest
  Keep = 2
  MaxTask = 3
  MaxCrash = 2
  MaxFault = 2
INVARIANTS FailedReplaceRestores NetSparesGoodInstall RollbackRestoresPair
