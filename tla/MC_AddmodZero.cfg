\* ADDMOD of two call-data words modulo callvalue, which may be 0.
CONSTANTS
  W = 8
  Programs <- OnlyAddmodValue
  Inputs <- MCInputs
  CDSize = 2
  StackLimit = 6
  BlockNumbers <- MCBlockNumbers
SPECIFICATION Spec
PROPERTY AddmodZeroClassified
