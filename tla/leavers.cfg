\* Players leave during the hand with pre-actions armed, others take their chairs, one user takes two.
CONSTANTS
  ann = ann
  bob = bob
  cyd = cyd
  Nobody = Nobody
  Users = {ann, bob, cyd}
  MaxSeats = 3
  SmallBlind = 1
  BigBlind = 2
  BuyIns = {4}
  Deals <- OneDeal
  Intents <- QuickIntents
  PreActions <- AllPreActions
  BankUses = {0}
  TimeBankInit = 1
  TimeBankPerHand = 1
  TimeBankCap = 1
  MaxConsecutiveTimeouts = 2
  MaxSittingOutHands = 2
  Options = {"leave", "twice"}
  MaxHands = 1
  MaxDue = 2
  MaxFinals = 1
  MaxTimeouts = 9
SYMMETRY Symmetric
SPECIFICATION Spec
INVARIANTS HandInOrder Ledger NoLingering
CHECK_DEADLOCK FALSE
