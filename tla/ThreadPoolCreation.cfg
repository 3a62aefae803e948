CONSTANTS
  Thread = {w1, w2, main}
  Worker = {w1, w2}
  Main = main
  NoThread = NoThread
  Item = {a, b}
  NoItem = NoItem
SPECIFICATION FairSpec
PROPERTY ConstructionEnds
CHECK_DEADLOCK FALSE
