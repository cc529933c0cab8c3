SPECIFICATION Spec
CONSTANTS
  Threads = {t1, t2}
  Never = {}
  Methods <- LookupMethods
  t1 = t1
  t2 = t2
  o1 = o1
  o2 = o2
  A = A
  B = B
  C = C
  m = m
  Objects = {o1}
  Packs = {A, B, C}
  Holds <- LookupHolds
  MidxFiles <- MCMidxFiles
  Covers <- LookupCovers
  BySize <- MCBySize
  NoFile = NoFile
  NumSlots = 2
  InitialPacks = {A, B}
  InitialLoose = {}
  MaxChanges = 0
CHECK_DEADLOCK FALSE
INVARIANT ObjectsAreFound
