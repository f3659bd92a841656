\* Two hands, of which the first may be settled twice; the deadlines shortened, the
\* timeout below the delay.
CONSTANTS
  MaxHands = 2
  MaxActions = 2
  MaxFinals = 2
  SaveTimeout = 2
  EndDelay = 3
  LateHands = {1}
SPECIFICATION FairSpec
INVARIANTS TypeOK NothingUnfinished SavedIsFinal NoPileUp
PROPERTIES Stored
CHECK_DEADLOCK FALSE
