CONSTANTS
  Connection = {c1, c2}
  NoConnection = NoConnection
  NoRequest = NoRequest
  NoAnswer = NoAnswer
  Worker = {w1}
  l1 = l1
  l2 = l2
  t1 = t1
  t2 = t2
  cat = cat
  catfish = catfish
  Link = {l1, l2}
  Title = {t1, t2}
  Word = {cat, catfish}
  Page <- FewPages
  NoPage = NoPage
  NoTitle = NoTitle
  NoWord = NoWord
  IntMax = 2
  MaxSerial = 2
  Requests <- FewRequests
  FileSets <- MissingFiles
  Contains <- Parts
  Limit = 1
SPECIFICATION SearchSpec
INVARIANT InternalErrorHasItsStatus
CHECK_DEADLOCK FALSE
