\* A tainted LT feeding PUSH1 dest JUMPI never sets the BRANCH flag.
CONSTANTS
  W = 8
  Programs <- OnlyComparisons
  Inputs <- MCInputs
  CDSize = 2
  StackLimit = 6
  BlockNumbers <- MCBlockNumbers
SPECIFICATION Spec
PROPERTY BranchFlagRecorded
