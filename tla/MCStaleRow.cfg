SPECIFICATION Spec
CONSTANTS
  a = a
  b = b
  t1 = t1
  t2 = t2
  Docs = {a, b}
  Tabs = {t1, t2}
  NoUrl = NoUrl
  MaxRow = 3

PROPERTIES ActionOfItsRow
