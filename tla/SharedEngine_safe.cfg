CONSTANTS
  a = a
  b = b
  c = c
  ka = ka
  kb = kb
  p1 = p1
  p2 = p2
  p3 = p3
  p4 = p4
  Engines = {a, b, c}
  Keys = {ka, kb}
  KeyOf <- TwoKeys
  Procs = {p1, p2, p3, p4}
  Sharing = {a, b, c}
  MaxCrashes = 2
  NoProc = NoProc
  NoKey = NoKey
SPECIFICATION Spec
SYMMETRY ProcSymmetry
INVARIANT TypeOK
INVARIANT Ownership
INVARIANT RefcountExactUntilCrash
INVARIANT KilledAfterLastUserUntilCrash
INVARIANT NoOrphan
INVARIANT RefcountBounded
INVARIANT NothingAtRest
