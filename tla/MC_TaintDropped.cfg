\* opAdd and opSub push a fresh tag without the operands' CALLDATA bit.
CONSTANTS
  W = 8
  Programs <- OnlyAddSubUnguarded
  Inputs <- MCInputs
  CDSize = 2
  StackLimit = 6
  BlockNumbers <- MCBlockNumbers
SPECIFICATION Spec
PROPERTY TaintPropagates
