SPECIFICATION FairSpec
CONSTANTS
  Good = {g1, g2}
  g1 = g1
  Bad = Bad
  Rejected = Rejected
  Deposits = Deposits
  Plans <- MCLivePlans
PROPERTIES DerivationGoesOn
CHECK_DEADLOCK FALSE
