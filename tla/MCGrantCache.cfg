SPECIFICATION Spec
CONSTANTS
  g1 = g1
  g2 = g2
  g3 = g3
  k1 = k1
  k2 = k2
  NoGrant = NoGrant
  Torn = Torn
  Grants = {g1, g2, g3}
  Keys = {k1, k2}
  Key <- MCKey
  Scope <- MCScope
  Filters <- MCFilters
CHECK_DEADLOCK FALSE
INVARIANTS
  TypeOK
  SingleUse
PROPERTIES
  ImplementsSingleUse
