CONSTANTS
  a = a
  b = b
  c = c
  ka = ka
  kb = kb
  p1 = p1
  p2 = p2
  p3 = p3
  p4 = p4
  Engines = {a, b, c}
  Keys = {ka}
  KeyOf <- OneKey
  Procs = {p1, p2, p3}
  Sharing = {a, b}
  MaxCrashes = 0
  NoProc = NoProc
  NoKey = NoKey
SPECIFICATION FairSpec
INVARIANT PrivateIsPrivate
PROPERTY CallsReturn
PROPERTY PoolSpec
