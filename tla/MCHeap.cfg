\* Three block sizes, so that a gap can be too small, exact or too large; the
\* limit is reached by the third or fourth block.
CONSTANTS
  HeapStart = 4
  HeapEnd = 84
  WordModulus = 65536
  Requests = {1, 9, 17}
  Processes = {"p"}
  AddressBound = 132
SPECIFICATION Spec
INVARIANTS TypeOK BlocksDisjoint ListSorted AccountingExact ProcessAccounting
PROPERTIES ImplementsBlockStore
CHECK_DEADLOCK FALSE
