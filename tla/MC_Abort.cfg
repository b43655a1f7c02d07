\* Every contract whose frame cannot hang in a protection scan, run under
\* weak fairness of the interpreter loop.
CONSTANTS
  W = 8
  Programs <- NoScanHang
  Inputs <- MCInputs
  CDSize = 2
  StackLimit = 6
  BlockNumbers <- MCBlockNumbers
SPECIFICATION FairSpec
PROPERTY AbortHonoured
