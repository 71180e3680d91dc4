SPECIFICATION Spec
CONSTANTS
  InService = TRUE
  MaxAttempts = 2
  Controls = {"STOP", "PAUSE"}
  StatusArgs = {"RUNNING", "STOPPED", "START_PENDING", "NONE"}
  CheckPoints = {0}
  ExitCodes = {5}
  DWord = 4
INVARIANTS
  TypeOK
  StartResultSound
  AcceptedAgree
  ToldUnlessStopped
  ReleaseIsSafe
  ExitCodeExplained
