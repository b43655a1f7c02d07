\* The CALLDATALOAD at pc 14 pushes a SAFE tag for a call-data word.
CONSTANTS
  W = 8
  Programs <- OnlyUnpaired
  Inputs <- MCInputs
  CDSize = 2
  StackLimit = 6
  BlockNumbers <- MCBlockNumbers
SPECIFICATION Spec
PROPERTY CallDataLoadTainted
