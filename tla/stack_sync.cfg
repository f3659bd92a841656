\* A player takes the chair of one who left during the hand.
CONSTANTS
  ann = ann
  bob = bob
  cyd = cyd
  Nobody = Nobody
  Users = {ann, bob, cyd}
  MaxSeats = 3
  SmallBlind = 1
  BigBlind = 2
  BuyIns = {4, 7}
  Deals <- OneDeal
  Intents <- QuickIntents
  PreActions <- NoPreActions
  BankUses = {0}
  TimeBankInit = 1
  TimeBankPerHand = 1
  TimeBankCap = 1
  MaxConsecutiveTimeouts = 2
  MaxSittingOutHands = 2
  Options = {"leave"}
  MaxHands = 1
  MaxDue = 2
  MaxFinals = 2
  MaxTimeouts = 9
SYMMETRY Symmetric
SPECIFICATION Spec
PROPERTIES OwnStackBack
CHECK_DEADLOCK FALSE
