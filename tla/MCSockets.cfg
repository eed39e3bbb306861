CONSTANTS
  WIZNET_SOCKET_COUNT = 3
  Procs = {p1, p2}
  BufferSize = 2
  RegModulus = 4
  Rules <- AllRules
  MaxIn <- MCMaxIn
  MaxOut <- MCMaxOut
SYMMETRY MCSymmetry
SPECIFICATION Spec
INVARIANTS TypeOK BytesInOrder  NoUndefinedAccess
CHECK_DEADLOCK FALSE
