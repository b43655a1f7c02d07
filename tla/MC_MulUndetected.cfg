\* opMul compares temp_res with itself.
CONSTANTS
  W = 8
  Programs <- OnlyMulBranch
  Inputs <- MCInputs
  CDSize = 2
  StackLimit = 6
  BlockNumbers <- MCBlockNumbers
SPECIFICATION Spec
PROPERTY MulOverflowDetected
