\* The backward scan of checkAddProtection runs past offset 0.
CONSTANTS
  W = 8
  Programs <- OnlyFirstBlockAdd
  Inputs <- MCInputs
  CDSize = 2
  StackLimit = 6
  BlockNumbers <- MCBlockNumbers
SPECIFICATION FairSpec
PROPERTY AbortHonoured
