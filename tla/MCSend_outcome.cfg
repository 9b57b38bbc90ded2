\* Two calls that share one connection, two polls each; timers and timeouts are fair.
SPECIFICATION FairSpec
CONSTANTS
  c1 = c1
  c2 = c2
  Call <- TwoCalls
  MaxTicks = 2
  MaxForgets = 1
INVARIANTS TypeOK TrueMeansHanded AtMostTwice
PROPERTIES Settles
CHECK_DEADLOCK FALSE
