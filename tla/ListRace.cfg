SPECIFICATION Spec
CONSTANTS
  Key = {k1, k2, k3}
  NoKey = NoKey
SYMMETRY KeySymmetry
INVARIANTS ListReturnsAllItems
