SPECIFICATION StopSpec
CONSTANTS
  Clients = {1, 2, 3}
  Outings <- MCOutings
  Quantum = 2
  KernelRoom = 2
  MaxBytes = 6
  MaxOpened = 2
  Numbers = {1, 2}
  Servers = {1, 2}
  Ports = {1, 2}
  Services = {1, 2}
  Addresses = {1, 2}
  Connections = {1, 2}
  MaxPublishers = 1
  MaxCalls = 2
  MaxEdits = 2
  MaxFaults = 1
  Intervals = {0, 1}
  Notes = {1}
  InFolder = {1}
  Editors <- MCEditors
CHECK_DEADLOCK FALSE
INVARIANT NeverAborts
