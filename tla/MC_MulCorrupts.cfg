\* opMul's Div overwrites the product on the stack.
CONSTANTS
  W = 8
  Programs <- OnlyMulBranch
  Inputs <- MCInputs
  CDSize = 2
  StackLimit = 6
  BlockNumbers <- MCBlockNumbers
SPECIFICATION Spec
PROPERTY MulResultUnchanged
