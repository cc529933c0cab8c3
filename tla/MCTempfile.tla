----------------------------- MODULE MCTempfile -----------------------------
(* Small instances of Tempfile for TLC.                                     *)
EXTENDS Tempfile, TLC

CONSTANTS p1, p2, t1, t2, t3

\* Two processes of one thread, and a process of two threads that has a child.
Apart == t1 :> p1 @@ t2 :> p2
Together == t1 :> p1 @@ t2 :> p1 @@ t3 :> p2

\* Every id in a shard of its own, as in a large DashMap, or all ids in one, as in
\* the map with a single lock.
OwnShard == [i \in Ids |-> i]
OneShard == [i \in Ids |-> 0]
=============================================================================
