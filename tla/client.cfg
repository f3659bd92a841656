\* Two hands of two streets, with up to two scheduled advances at a time; a channel smaller
\* than the bursts of messages, so that one of them may be dropped anywhere.
CONSTANTS
  Cap = 1
  Streets = 2
  MaxHands = 2
  MaxAsides = 1
  MaxAdvances = 2
  MaxDrops = 1
SPECIFICATION FairSpec
INVARIANTS TypeOK CatchesUp OneHandShown
PROPERTIES TurnShown
CHECK_DEADLOCK FALSE
