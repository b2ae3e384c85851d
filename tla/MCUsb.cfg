SPECIFICATION FairSpec
CONSTANTS
  MAX_TDS = 4
  MAX_URBS = 1
  Endpoints = {"keyboard"}
  POLLS = 1
  CSW_POLLS = 1
  ATTEMPTS = 2
  MaxCommands = 2
  MaxControls = 1
  MaxErrors = 1
INVARIANTS
  ScheduleSound
  CommandTruthful
PROPERTY KeyboardAlive
