\* Three players come, go, sit out and back in over two hands.
CONSTANTS
  ann = ann
  bob = bob
  cyd = cyd
  Nobody = Nobody
  Users = {ann, bob, cyd}
  MaxSeats = 3
  SmallBlind = 1
  BigBlind = 2
  BuyIns = {4}
  Deals <- OneDeal
  Intents <- FoldIntents
  PreActions <- NoPreActions
  BankUses = {0}
  TimeBankInit = 1
  TimeBankPerHand = 1
  TimeBankCap = 1
  MaxConsecutiveTimeouts = 2
  MaxSittingOutHands = 2
  Options = {"sit_out"}
  MaxHands = 2
  MaxDue = 2
  MaxFinals = 2
  MaxTimeouts = 9
SYMMETRY Symmetric
SPECIFICATION Spec
INVARIANTS SeatedCount Standing
PROPERTIES EntryPaid
CHECK_DEADLOCK FALSE
