SPECIFICATION Spec
CONSTANTS
  p = p
  q = q
  a = a
  b = b
  Processes = {p, q}
  Docs = {a, b}
  Snapshots <- MCSnapshots
  Nobody = Nobody
  NoSession = NoSession
  MaxVisits = 2
SYMMETRY Interchangeable
INVARIANTS SchemaSound VisitsCounted LoadsWhatWasSaved
