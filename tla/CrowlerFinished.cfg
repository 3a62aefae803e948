CONSTANTS
  Worker = {w1, w2}
  NoTask = NoTask
  home = home
  news = news
  moved = moved
  bad = bad
  dead = dead
  Url = {home, news, moved, bad, dead}
  StartUrl = home
  Depths = {0, 1, 3}
  Web <- SmallWeb
  Faults = {}
SPECIFICATION Spec
PROPERTY FinishedMeansDone
CHECK_DEADLOCK FALSE
