SPECIFICATION Spec
CONSTANTS
  m1 = m1
  m2 = m2
  m3 = m3
  s1 = s1
  s2 = s2
  Master = {m1, m2, m3}
  Old = m1
  Slave = {s1, s2}
  MaxEpoch = 3
  Environments <- Timely
SYMMETRY Symmetry
INVARIANTS ElectionSafety 
