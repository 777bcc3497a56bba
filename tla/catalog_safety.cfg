SPECIFICATION Spec
CONSTANTS
  c1 = c1
  c2 = c2
  c3 = c3
  o1 = o1
  o2 = o2
  Commands = {c1, c2, c3}
  Processes = {o1, o2}
  ProcessOf <- TwoAndOne
  Windows = TRUE
  MaxVersion = 2
  MaxFaults = 1
  None = None
INVARIANTS
  PinIsKept
  EntriesAreWhole
PROPERTIES
  NoSilentRefetch
