--------------------------- MODULE MCDirectories ----------------------------
(* A small instance of Directories for TLC.                                 *)
EXTENDS Directories, TLC

CONSTANTS top, a, b, p1, p2, s1

\* refs/heads as the boundary, refs/heads/a and refs/heads/a/b
Chain == a :> top @@ b :> a

\* The lock file of p2 is in the directory above the one of p1, which is also
\* what the sweeper wants to remove.
Nested == p1 :> b @@ p2 :> a @@ s1 :> a
=============================================================================
