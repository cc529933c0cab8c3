CONSTANTS
    top = top  a = a  b = b  p1 = p1  p2 = p2  s1 = s1
    Procs = {p1, p2}
    Sweepers = {s1}
    Dirs = {top, a, b}
    Top = top
    Parent <- Chain
    Target <- Nested
    Entire = 2
    OnFailure = 3
    OnInterrupt = 3
SPECIFICATION FairSpec
INVARIANTS  GivesUpIfDisturbed NothingLeft
PROPERTY CreationEnds
