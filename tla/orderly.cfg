\* Three players, every betting action, ties and side pots; one hand of orderly play.
CONSTANTS
  ann = ann
  bob = bob
  cyd = cyd
  Nobody = Nobody
  Users = {ann, bob, cyd}
  MaxSeats = 3
  SmallBlind = 1
  BigBlind = 2
  BuyIns = {4, 7}
  Deals <- TwoDeals
  Intents <- AllIntents
  PreActions <- NoPreActions
  BankUses = {0}
  TimeBankInit = 1
  TimeBankPerHand = 1
  TimeBankCap = 1
  MaxConsecutiveTimeouts = 2
  MaxSittingOutHands = 2
  Options = {}
  MaxHands = 1
  MaxDue = 2
  MaxFinals = 2
  MaxTimeouts = 9
SYMMETRY Symmetric
SPECIFICATION Spec
INVARIANTS TypeOK PaidOnce
PROPERTIES StreetAfterClosed FairShowdown RaiseSize PlaysForMoney
CHECK_DEADLOCK FALSE
