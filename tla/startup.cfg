\* Every environment, two windows, and back-offs past the cap.
CONSTANTS
  WindowLen = 2
  Assets <- MCAssets
  U32Max = 8
  Answers <- MCAnswers
  MaxWall = 2
  MaxOrders = 2
SPECIFICATION FairSpec
INVARIANTS
  TypeOK
  LiveNeedsCredentials
  ArmedMarketIsWhole
PROPERTIES
  BackoffGrows
  RecoversFromFailedStart
\* The process may exit.
CHECK_DEADLOCK FALSE
