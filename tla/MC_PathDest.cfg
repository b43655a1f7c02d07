\* opJumpi records pos - 1 as the destination.
CONSTANTS
  W = 8
  Programs <- OnlyAddGuarded
  Inputs <- MCInputs
  CDSize = 2
  StackLimit = 6
  BlockNumbers <- MCBlockNumbers
SPECIFICATION Spec
INVARIANT PathRecordsDestination
