CONSTANTS
  MailCount = 3
  PollLimit = 2
  Readers = {r1}
  Relays = {w}
  MaxRelayed = 1
  MaxInboxFaults = 1
  MaxOdd = 1
SPECIFICATION MCSpec
INVARIANTS LossIsAccounted QuotedOnceAlone
CHECK_DEADLOCK FALSE
