CONSTANTS
  MAX_PROCESSES = 3
  Quantum = 1
  MaxSleep = 1
  DiskTicks = 2
SPECIFICATION SchedulerSpec
PROPERTIES
  LoggedCallReturns
