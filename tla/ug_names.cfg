SPECIFICATION Spec
CONSTANTS
  Last = 4
  Installed = 3
  OldBackup <- TwoOld
  Rank <- DigitCarry
  Broken <- None
  Keep = 2
  MaxTask = 2
  MaxCrash = 1
  MaxFault = 0
INVARIANT RestoresAreWhole
