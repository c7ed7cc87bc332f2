CONSTANTS
  u1 = u1
  u2 = u2
  a1 = a1
  a2 = a2
  k1 = k1
  k2 = k2
  Users = {u1, u2}
  Admins = {a1, a2}
  Keys = {k1, k2}
SPECIFICATION Spec
SYMMETRY MCSymmetry
INVARIANTS
  AnsweredKeyHolds
  OpenOnlyAfterFailure
