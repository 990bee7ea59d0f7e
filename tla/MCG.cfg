SPECIFICATION MCFairSpec
CONSTANTS
  Boards <- MCBoards
INVARIANTS
  RegistersSound
  SettledBetweenCalls
  FrequencyTruthful
  MonitorNeverFires
  LastResultTruthful
PROPERTIES
  SwitchesAreSafe
  ImplementsClockModes
  CallReturns
  BootEnds
CHECK_DEADLOCK FALSE
