SPECIFICATION PollingSpec
CONSTANTS
  InService = TRUE
  MaxAttempts = 1
  Controls = {"STOP", "PAUSE", "INTERROGATE"}
  StatusArgs = {"RUNNING", "STOPPED"}
  CheckPoints = {0}
  ExitCodes = {0, 5}
  DWord = 4
  Answers = {FALSE, TRUE}
INVARIANTS
  ShutdownHonoursMode
  OwnStopRecorded
PROPERTIES
  PollingKeepsStop
  StopLeadsToExit
  LifecycleSpec
