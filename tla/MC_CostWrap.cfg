\* The flip distance x - y + 1 wraps to 0.
CONSTANTS
  W = 8
  Programs <- OnlyComparisons
  Inputs <- MCInputs
  CDSize = 2
  StackLimit = 6
  BlockNumbers <- MCBlockNumbers
SPECIFICATION Spec
INVARIANT CostPairConvention
