\* Any turn may run out of time, and no player ever has to answer.
CONSTANTS
  ann = ann
  bob = bob
  cyd = cyd
  Nobody = Nobody
  Users = {ann, bob, cyd}
  MaxSeats = 3
  SmallBlind = 1
  BigBlind = 2
  BuyIns = {1, 2, 6}
  Deals <- OneDeal
  Intents <- MinIntents
  PreActions <- NoPreActions
  BankUses = {0}
  TimeBankInit = 1
  TimeBankPerHand = 1
  TimeBankCap = 1
  MaxConsecutiveTimeouts = 2
  MaxSittingOutHands = 2
  Options = {"slow"}
  MaxHands = 1
  MaxDue = 2
  MaxFinals = 2
  MaxTimeouts = 9
SPECIFICATION FairSpec
INVARIANTS OneDriver
PROPERTIES HandEnds
CHECK_DEADLOCK FALSE
