\* Every modelled contract: the invariants that hold whatever the handlers
\* do to the pairing of the stacks.
CONSTANTS
  W = 8
  Programs <- AllPrograms
  Inputs <- MCInputs
  CDSize = 2
  StackLimit = 6
  BlockNumbers <- MCBlockNumbers
SPECIFICATION Spec
INVARIANT TypeOK
INVARIANT TaintCoversStack
INVARIANT FindingsRecorded
INVARIANT PathWellFormed
PROPERTY OverflowClassified
PROPERTY AnalysisRefined
PROPERTY PairingKept
