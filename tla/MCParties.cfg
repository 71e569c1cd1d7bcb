\* Two participants, two configurations and two calls at once.
CONSTANTS
  Participant = {p1, p2}
  Hint = {h1}
  badHint = badHint
  Call = {k1, k2}
  MaxConfigs = 2

SPECIFICATION Spec
VIEW PartiesView
SYMMETRY PartiesSymmetry

INVARIANTS
  LoadsFailCleanly
  NamespacesAreTheirOwn
  RefusalMeansNotMine
  LookupsAreTrue
