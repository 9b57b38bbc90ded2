\* One call: is its promise always resolved?
SPECIFICATION FairSpec
CONSTANTS
  c1 = c1
  c2 = c2
  Call <- OneCall
  MaxTicks = 4
  MaxForgets = 0
PROPERTIES AlwaysSettles
CHECK_DEADLOCK FALSE
