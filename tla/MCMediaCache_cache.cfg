SPECIFICATION Spec
CONSTANTS
  None = None
  m1 = m1
  m2 = m2
  k1 = k1
  c1 = c1
  c2 = c2
  stk = stk
  sti = sti
  Images = {m1, m2}
  Stickers = {k1}
  Sticons = {c1, c2}
  Packs = {stk, sti}
  Moving = {k1, c1}
  Sealed = {m2}
  PackOf <- Shops
  Setups <- Cases
INVARIANTS
  TypeOK
  NamedFilesWhole
  CleanSyncComplete
