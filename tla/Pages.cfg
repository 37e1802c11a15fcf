SPECIFICATION AttentiveSpec
CONSTANTS
  i1 = i1  i2 = i2
  t1 = t1  t2 = t2  gt = gt
  None = None
  Items = {i1, i2}
  Texts = {t1, t2}
  Conds = {gt}
INVARIANTS
  ShowsItsPage
  SavesItsOwn
  ListIsFresh
PROPERTIES
  ItemIsShown
  ListIsShown
