\* EXP, SLT, MULMOD and SGT leave the taint stack alone.
CONSTANTS
  W = 8
  Programs <- OnlyUnpaired
  Inputs <- MCInputs
  CDSize = 2
  StackLimit = 6
  BlockNumbers <- MCBlockNumbers
SPECIFICATION Spec
INVARIANT StackPaired
