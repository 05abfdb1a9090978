SPECIFICATION FairSpec
CONSTANTS
  Last = 2
  Installed = 1
  OldBackup <- None
  Rank <- InOrder
  Broken <- Newest
  Keep = 2
  MaxTask = 1
  MaxCrash = 0
  MaxFault = 0
PROPERTY ServiceComesBack
