CONSTANTS
  Polls = 1
  MaxAttempts = 2
  Boards <- MCBoards
SPECIFICATION Spec
INVARIANTS
  TypeOK
  IdentifiedSlowly
  KindRight
  AcceptedWorks
  FindsMode
  BootSettings
PROPERTY
  AttemptEnds
CHECK_DEADLOCK FALSE
