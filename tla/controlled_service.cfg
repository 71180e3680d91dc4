SPECIFICATION ScriptSpec
CONSTANTS
  InService = TRUE
  MaxAttempts = 1
  Controls = {"STOP", "PAUSE", "CONTINUE", "INTERROGATE"}
  StatusArgs = {"RUNNING", "PAUSED", "CONTINUE_PENDING", "PAUSE_PENDING", "STOPPED"}
  CheckPoints = {0}
  ExitCodes = {}
  DWord = 4
INVARIANT StopIsClean
PROPERTIES
  PauseSettles
  ContinueSettles
  InterrogateSettles
  StopSettles
  UncrossedStopEnds
