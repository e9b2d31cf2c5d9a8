SPECIFICATION Spec
CONSTANTS
  N = 4
  W = 8
  Overwrite = FALSE
  Values = {0, 1}
  MaxBurst = 4
INVARIANTS IndexInv PeekIsCurrent
PROPERTY ImplementsFifo
