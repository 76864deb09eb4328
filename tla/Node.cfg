SPECIFICATION Spec
CONSTANTS
  Good = {g1, g2}
  g1 = g1
  Bad = Bad
  Rejected = Rejected
  Deposits = Deposits
  Plans <- MCPlans
INVARIANTS HeadsDerived ForkchoiceSound ActorsInStep
PROPERTIES FinalityKept
CHECK_DEADLOCK FALSE
