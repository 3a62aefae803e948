CONSTANTS
  Worker = {w1, w2}
  NoTask = NoTask
  home = home
  moved = moved
  bad = bad
  dead = dead
  Url = {moved, home, bad, dead}
  StartUrl = moved
  Depths = {0, 1, 3}
  Web <- SmallWeb
  Faults = {"network", "hang", "links", "text", "database"}
  t1 = t1
  cat = cat
  dog = dog
  t0 = t0
  Title = {t0, t1}
  eel = eel
  Word = {cat, dog, eel}
  Texts <- SmallTexts
  Earlier <- NewOrOld
  NoPage = NoPage
  NoTitle = NoTitle
SPECIFICATION FairCrawlSpec
INVARIANTS CrawlTypeOK WorkingExact EveryVisitOnTrail FieldsOutliveTasks CrawlComplete CrawledIsFound FoundIsCrawled
PROPERTY ProgramEnds
CHECK_DEADLOCK FALSE
