\* Late actions, races with the turn timer, commands lost in a full queue.
CONSTANTS
  ann = ann
  bob = bob
  cyd = cyd
  Nobody = Nobody
  Users = {ann, bob}
  MaxSeats = 3
  SmallBlind = 1
  BigBlind = 2
  BuyIns = {3}
  Deals <- OneDeal
  Intents <- FewIntents
  PreActions <- NoPreActions
  BankUses = {0, 1}
  TimeBankInit = 1
  TimeBankPerHand = 1
  TimeBankCap = 2
  MaxConsecutiveTimeouts = 2
  MaxSittingOutHands = 2
  Options = {"slow", "late", "race", "drop"}
  MaxHands = 1
  MaxDue = 1
  MaxFinals = 2
  MaxTimeouts = 2
SYMMETRY Symmetric
SPECIFICATION Spec
INVARIANTS Standing
PROPERTIES OutOfBetting
CHECK_DEADLOCK FALSE
