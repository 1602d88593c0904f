SPECIFICATION Spec
CONSTANTS
  m1 = m1
  m2 = m2
  s1 = s1
  r1 = r1
  b1 = b1
  b2 = b2
  w1 = w1
  w2 = w2
  NoSlot = NoSlot
  NoCommand = NoCommand
  Absent = Absent
  Commands = {m1, s1}
  Operation <- MCOperation
  Slots = {b1}
  Callers = {w1}
  MaxEvents = 2
INVARIANTS FenceHeld
