SPECIFICATION UdpSpec
CHECK_DEADLOCK FALSE
CONSTANTS
  d1 = d1
  d2 = d2
  e1 = e1
  Packets = {d1, d2, e1}
  Empties = {e1}
  MaxTasks = 2
INVARIANTS ClosedOnce NothingStranded
