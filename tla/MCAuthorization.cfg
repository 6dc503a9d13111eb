SPECIFICATION Spec
CONSTANTS
  first = first
  second = second
  other = other
  window = window
  lanA = lanA
  lanB = lanB
  pc = pc
  Conns = {first, second, other, window}
  Ips = {lanA, lanB, pc}
  IpOf <- MCIpOf
  KindOf <- MCKindOf
  NoIp = NoIp
  MaxFails = 2
  BlockSecs = 2
  MaxTime = 2
  MaxChanges = 1
INVARIANTS TypeOK GuessesAreRationed AdmissionIsSound
PROPERTY RevokeReachesTheServed
SYMMETRY Symmetric
CHECK_DEADLOCK FALSE
