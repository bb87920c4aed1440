SPECIFICATION AwaitedSpec
CONSTANTS
  i1 = i1
  i2 = i2
  c1 = c1
  c2 = c2
  c3 = c3
  c4 = c4
  c5 = c5
  None = None
  Inst = {i1}
  Call = {c1, c2, c3, c4}
  InstOf <- OneInst
  Ops = {"start", "stop", "restart"}
  Modes = {"managed"}
SYMMETRY CallSymmetry
INVARIANT LiveChildOwned
CHECK_DEADLOCK FALSE
