CONSTANTS
  LetterCount = 2
  Attempts = {a1, a2, a3}
  Clerks = {c1, c2}
  Nobody = nobody
  MaxFaults = 1
SPECIFICATION FairSpec
INVARIANTS CopiesAreAccounted NothingSentByAccident
INVARIANTS AcknowledgedIsRecorded ExhaustedForAReason
PROPERTY ActivityEnds
CHECK_DEADLOCK FALSE
