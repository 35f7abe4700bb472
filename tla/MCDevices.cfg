SPECIFICATION FairSpec
CONSTANTS
  Cpus = {0, 1}
  NoCpu = 9
  Boot = 0
  Locks = {"cons", "tickslock", "ptable"}
  INPUT_BUF = 2
  UintMod = 4
  Letters = {"a"}
  Calls <- MCCalls
  Ticks0 = 3
  Index0 = 3
  MaxEvents = 4
INVARIANTS LocksSound InterruptsRestored SleepExact
PROPERTIES ImplementsTty SleeperRuns
CHECK_DEADLOCK FALSE
