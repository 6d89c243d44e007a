CONSTANTS
  MAX_PROCESSES = 4
  Quantum = 1
  MaxSleep = 2
  DiskTicks = 2
SPECIFICATION SchedulerSpec
INVARIANTS
  RunsInItsOwnContext
  WaitingProcessResumable
  ExitedNeverRuns
PROPERTIES
  Preempted
  NoStarvation
  SleepEnds
  BootEnds
