SPECIFICATION Spec
CONSTANTS
  Threads = {t1, t2}
  Never = {}
  Methods <- MCMethods
  t1 = t1
  t2 = t2
  o1 = o1
  o2 = o2
  A = A
  B = B
  C = C
  m = m
  Objects = {o1, o2}
  Packs = {A, B, C}
  Holds <- MCHolds
  MidxFiles <- MCMidxFiles
  Covers <- MCCovers
  BySize <- MCBySize
  NoFile = NoFile
  NumSlots = 2
  InitialPacks = {A, C}
  InitialLoose = {o1}
  MaxChanges = 2
INVARIANTS
  SlotsOfIndex
  RightPack
  
  
CHECK_DEADLOCK FALSE
