SPECIFICATION Spec
CONSTANTS
  Last = 3
  Installed = 1
  OldBackup <- None
  Rank <- InOrder
  Broken <- None
  Keep = 2
  MaxTask = 2
  MaxCrash = 1
  MaxFault = 1
INVARIANT FailedReplaceIsWhole
