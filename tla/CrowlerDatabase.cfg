CONSTANTS
  Worker = {w1, w2}
  l1 = l1
  l2 = l2
  t1 = t1
  t2 = t2
  cat = cat
  dog = dog
  Link = {l1, l2}
  Title = {t1, t2}
  Word = {cat, dog}
  Page <- FewPages
  NoPage = NoPage
  NoTitle = NoTitle
  NoWord = NoWord
  IntMax = 2
  MaxSerial = 2
SYMMETRY Symmetric
SPECIFICATION Spec
INVARIANTS DatabaseTypeOK IdsNameRows StoredWhenReported IndexFromCrawls OneEntryPerWord
PROPERTIES IndexOnlyGrows ImplementsPageIndex
CHECK_DEADLOCK FALSE
