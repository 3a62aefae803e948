CONSTANTS
  Connection = {c1}
  NoConnection = NoConnection
  NoRequest = NoRequest
  NoAnswer = NoAnswer
  w1 = w1
  w2 = w2
  Worker = {w1, w2}
  l1 = l1
  l2 = l2
  t1 = t1
  cat = cat
  catfish = catfish
  Link = {l1, l2}
  Title = {t1}
  Word = {cat, catfish}
  Page <- FewReadings
  NoPage = NoPage
  NoTitle = NoTitle
  NoWord = NoWord
  IntMax = 2
  MaxSerial = 2
  Requests <- OneSearch
  FileSets <- AllFiles
  Contains <- Parts
  Limit = 1
SYMMETRY Crawlers
SPECIFICATION HistorySpec
PROPERTY StoredIsFound
CHECK_DEADLOCK FALSE
