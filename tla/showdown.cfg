\* Every contribution of 0..4 chips by four seats and every set of folded seats with one
\* dealing; eight contributions with every dealing.
CONSTANTS
  MaxSeats = 4
  MaxChips = 4
  Suits = {"s", "h", "d", "c"}
  KickerRadix = 15
  CategoryUnit = 759375
  Dealings <- MCDealings
  OneDealing <- MCOneDealing
  FewContributions <- MCContributions
SPECIFICATION ShowdownSpec
INVARIANTS TypeOK NothingLost IsLayered TableStakes ScoreIsStrength PaysAsOneStep
CHECK_DEADLOCK FALSE
