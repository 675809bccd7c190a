SPECIFICATION Spec
CONSTANTS
  Echoes <- MCEchoes
  Sums <- MCSums
  Draws <- MCDraws
  Solution = 2
INVARIANTS PrintsExpected ProgramsFit WorkingServiceIsUp
CHECK_DEADLOCK FALSE
