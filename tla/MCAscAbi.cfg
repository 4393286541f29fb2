CONSTANTS
  t1 = t1
  t2 = t2
  u1 = u1
  u2 = u2
  s1 = s1
  Panic = Panic
  Tags <- MCTags
  Lens <- MCLens
  U256s <- MCU256s
  Strs <- MCStrs
SYMMETRY MCSymmetry
SPECIFICATION Spec
INVARIANT RoundTripAsDocumented
