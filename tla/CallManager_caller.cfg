SPECIFICATION Spec
CONSTANTS
  c1 = c1
  c2 = c2
  o1 = o1
  d1 = d1
  d2 = d2
  Incoming <- MCIncoming
  Outgoing <- MCOutgoing
  Devices <- MCDevices
  NoDevice = NoDevice
  MaxCalls = 1
  MaxSessions = 3
  MaxTasks = 2
  MaxFaults = 0
INVARIANTS NoneAfterTheCaller
CHECK_DEADLOCK FALSE
