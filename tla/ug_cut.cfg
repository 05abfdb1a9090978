SPECIFICATION Spec
CONSTANTS
  Last = 2
  Installed = 1
  OldBackup <- None
  Rank <- InOrder
  Broken <- None
  Keep = 2
  MaxTask = 1
  MaxCrash = 1
  MaxFault = 0
INVARIANT CutSwapIsMended
