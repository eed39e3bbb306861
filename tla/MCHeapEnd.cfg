\* The bounds of MCHeap.cfg; AddressBound leaves room for chunks past HeapEnd.
CONSTANTS
  HeapStart = 4
  HeapEnd = 84
  WordModulus = 65536
  Requests = {1, 9, 17}
  Processes = {"p"}
  AddressBound = 132
SPECIFICATION Spec
INVARIANTS WithinHeap
CHECK_DEADLOCK FALSE
