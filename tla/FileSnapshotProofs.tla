------------------------- MODULE FileSnapshotProofs -------------------------
(* Proof that a shared snapshot is current, for any number of threads and    *)
(* rewrites, if the clock of the filesystem tells all rewrites apart.        *)
EXTENDS FileSnapshot, TLAPS

\* What a thread relies on while it is in a call, if the file was never removed.
CallOK(t) ==
    /\ disk # Absent => floor[t] <= disk
    /\ disk = Absent => floor[t] <= 1
    /\ disk = Absent /\ pc[t] # "idle" => missed[t]
    /\ pc[t] # "clear"
    /\ pc[t] \in {"reload", "reload_mtime"} => cache.value # Absent /\ disk # Absent
    /\ pc[t] \in {"load", "load_mtime"} =>
           disk # Absent /\ (cache.value # Absent => cache.value >= floor[t])
    /\ pc[t] = "open" => disk # Absent /\ mtime[t] <= disk
    /\ pc[t] = "done" => WasOnDisk(t, res[t])

\* A cached snapshot is no older than its modification time says.
CacheOK == cache.value # Absent => cache.modified <= cache.value /\ cache.value <= disk

Order == ~removed => disk = written /\ CacheOK /\ \A t \in Threads : CallOK(t)

IInv == TypeOK /\ Order

\* With a clock that is fine enough, the modification time is the version.
LEMMA FineClock ==
    ASSUME Granularity = 1, NEW v \in Nat
    PROVE  MTime(v) = v
BY DEF MTime

LEMMA TypeStep ==
    ASSUME Granularity = 1, TypeOK, Next
    PROVE  TypeOK'
<1> USE MaxVersionAssumption
<1>0. MTime(disk) = disk
  BY FineClock DEF TypeOK
<1>1. CASE Rewrite
  BY <1>1 DEF Rewrite, TypeOK
<1>2. CASE Remove
  BY <1>2 DEF Remove, TypeOK, Absent
<1>3. ASSUME NEW t \in Threads, GetRef(t) \/ ForceGetMut(t) PROVE TypeOK'
  <2>1. missed' \in [Threads -> BOOLEAN]
    <3>1. missed' = [missed EXCEPT ![t] = disk = Absent]
      BY <1>3 DEF GetRef, ForceGetMut, StartWatching
    <3>2. missed \in [Threads -> BOOLEAN]
      BY DEF TypeOK
    <3>3. (disk = Absent) \in BOOLEAN
      OBVIOUS
    <3> QED
      BY <3>1, <3>2, <3>3, Zenon
  <2>2. floor' \in [Threads -> 0..(MaxVersion + 1)]
    BY <1>3 DEF GetRef, ForceGetMut, StartWatching, TypeOK
  <2>3. /\ readers' \subseteq Threads /\ writer' \subseteq Threads
        /\ pc' \in [Threads -> Returned \cup {"mtime", "clear", "reload", "load",
                      "reload_mtime", "load_mtime", "open", "force_mtime"}]
    BY <1>3 DEF GetRef, ForceGetMut, TypeOK
  <2>4. UNCHANGED <<disk, written, removed, cache, waiting, mtime, res>>
    BY <1>3 DEF GetRef, ForceGetMut
  <2> QED
    BY <2>1, <2>2, <2>3, <2>4 DEF TypeOK
<1>4. ASSUME NEW t \in Threads, Compare(t) PROVE TypeOK'
  BY <1>4 DEF Compare, TypeOK, Absent, Returned
<1>5. ASSUME NEW t \in Threads, Wait(t) \/ Clear(t) \/ GetMut(t) PROVE TypeOK'
  BY <1>5 DEF Wait, Clear, GetMut, TypeOK, Absent, NoSnapshot, Returned
<1>6. ASSUME NEW t \in Threads, Recheck(t) \/ ForceMTime(t) PROVE TypeOK'
  BY <1>0, <1>6 DEF Recheck, ForceMTime, TypeOK, Absent, Returned
<1>7. ASSUME NEW t \in Threads, Open(t) PROVE TypeOK'
  BY <1>7 DEF Open, Loaded, TypeOK, Absent, NoSnapshot, Returned
<1> QED
  BY <1>1, <1>2, <1>3, <1>4, <1>5, <1>6, <1>7 DEF Next

LEMMA OrderStep ==
    ASSUME Granularity = 1, IInv, Next, ~removed'
    PROVE  disk' = written' /\ CacheOK' /\ \A t \in Threads : CallOK(t)'
<1>0. /\ TypeOK /\ ~removed /\ disk = written /\ CacheOK /\ \A t \in Threads : CallOK(t)
      /\ MTime(disk) = disk /\ MaxVersion \in Nat
  <2>1. TypeOK /\ MaxVersion \in Nat /\ disk \in Nat
    BY MaxVersionAssumption DEF IInv, TypeOK
  <2>2. removed => removed'
    BY DEF Next, Rewrite, Remove, GetRef, Compare, Wait, Clear, GetMut, Recheck, Open, ForceGetMut,
           ForceMTime
  <2> QED
    BY <2>1, <2>2, FineClock DEF IInv, Order
<1> DEFINE Goal == disk' = written' /\ CacheOK' /\ \A t \in Threads : CallOK(t)'
<1>1. CASE Rewrite
  BY <1>0, <1>1 DEF Rewrite, CacheOK, CallOK, WasOnDisk, TypeOK, Absent
<1>2. CASE Remove
  BY <1>2 DEF Remove
<1>3. ASSUME NEW t \in Threads, GetRef(t) \/ ForceGetMut(t) PROVE Goal
  <2>1. /\ UNCHANGED <<disk, written, cache, mtime, res>>
        /\ floor' = [floor EXCEPT ![t] = IF disk = Absent THEN written + 1 ELSE disk]
        /\ missed' = [missed EXCEPT ![t] = disk = Absent]
        /\ \/ pc' = [pc EXCEPT ![t] = "mtime"]
           \/ pc' = [pc EXCEPT ![t] = "force_mtime"]
    BY <1>3 DEF GetRef, ForceGetMut, StartWatching
  <2>2. CallOK(t)'
    <3>1. disk = Absent => missed'[t]
      BY <1>0, <2>1, Zenon DEF TypeOK
    <3>2. floor'[t] = (IF disk = Absent THEN written + 1 ELSE disk) /\ pc'[t] \in {"mtime", "force_mtime"}
      BY <1>0, <2>1 DEF TypeOK
    <3> QED
      BY <1>0, <2>1, <3>1, <3>2 DEF CallOK, TypeOK, Absent
  <2>3. ASSUME NEW u \in Threads, u # t PROVE CallOK(u)'
    <3>1. floor'[u] = floor[u] /\ missed'[u] = missed[u] /\ pc'[u] = pc[u]
      BY <1>0, <2>1, <2>3, Zenon DEF TypeOK
    <3> QED
      BY <1>0, <2>1, <3>1 DEF CallOK, WasOnDisk
  <2> QED
    BY <1>0, <2>1, <2>2, <2>3 DEF CacheOK
<1>4. ASSUME NEW t \in Threads, Compare(t) PROVE Goal
  BY <1>0, <1>4 DEF Compare, IsStale, CacheOK, CallOK, WasOnDisk, TypeOK, Absent, Returned
<1>5. ASSUME NEW t \in Threads, Wait(t) \/ Clear(t) \/ GetMut(t) PROVE Goal
  BY <1>0, <1>5 DEF Wait, Clear, GetMut, CacheOK, CallOK, WasOnDisk, TypeOK, Absent, Returned
<1>6. ASSUME NEW t \in Threads, Recheck(t) \/ ForceMTime(t) PROVE Goal
  BY <1>0, <1>6 DEF Recheck, ForceMTime, CacheOK, CallOK, WasOnDisk, TypeOK, Absent, Returned
<1>7. ASSUME NEW t \in Threads, Open(t) PROVE Goal
  BY <1>0, <1>7 DEF Open, Loaded, CacheOK, CallOK, WasOnDisk, TypeOK, Absent, Returned
<1> QED
  BY <1>1, <1>2, <1>3, <1>4, <1>5, <1>6, <1>7 DEF Next

\* recent_snapshot() returns what was on disk during the call, for any number of
\* threads and rewrites of a file that is not removed, if no two rewrites have the
\* same modification time.
THEOREM SnapshotIsCurrent ==
    ASSUME Granularity = 1
    PROVE  Spec => []Current
<1>1. Init => IInv
  <2> SUFFICES ASSUME Init PROVE IInv
    OBVIOUS
  <2>1. removed \in BOOLEAN /\ missed \in [Threads -> BOOLEAN]
    BY Zenon DEF Init
  <2>2. TypeOK
    BY <2>1, MaxVersionAssumption DEF Init, TypeOK, Absent, NoSnapshot, Returned
  <2>3. Order
    BY <2>2 DEF Init, TypeOK, Order, CacheOK, CallOK, Absent, NoSnapshot
  <2> QED
    BY <2>2, <2>3 DEF IInv
<1>2. IInv /\ [Next]_vars => IInv'
  <2> SUFFICES ASSUME IInv, [Next]_vars PROVE IInv'
    OBVIOUS
  <2>1. CASE Next
    BY <2>1, TypeStep, OrderStep DEF IInv, Order
  <2>2. CASE UNCHANGED vars
    BY <2>2 DEF vars, IInv, TypeOK, Order, CacheOK, CallOK, WasOnDisk
  <2> QED
    BY <2>1, <2>2
<1>3. IInv => Current
  BY DEF IInv, Order, CallOK, Current
<1> QED
  BY <1>1, <1>2, <1>3, PTL DEF Spec

-----------------------------------------------------------------------------
(* Snapshots advance, whatever the clock and also if the file is removed.   *)

\* Nobody has got anything more recent than the latest rewrite, and that is what
\* is on disk if there is a file.
Latest ==
    /\ disk \in Nat /\ written \in Nat /\ cache.value \in Nat /\ res \in [Threads -> Nat]
    /\ disk = Absent \/ disk = written
    /\ cache.value <= written
    /\ \A t \in Threads : res[t] <= written

LEMMA LatestStep ==
    ASSUME Latest, SnapshotsAdvance, Next
    PROVE  Latest' /\ SnapshotsAdvance'
<1>1. CASE Rewrite
  BY <1>1 DEF Rewrite, Latest, SnapshotsAdvance, Absent
<1>2. CASE Remove
  BY <1>2 DEF Remove, Latest, SnapshotsAdvance, Absent
<1>3. ASSUME NEW t \in Threads, GetRef(t) \/ ForceGetMut(t) \/ Wait(t) \/ GetMut(t) \/ ForceMTime(t)
      PROVE  Latest' /\ SnapshotsAdvance'
  BY <1>3 DEF GetRef, ForceGetMut, Wait, GetMut, ForceMTime, Latest, SnapshotsAdvance
<1>4. ASSUME NEW t \in Threads, Compare(t) \/ Recheck(t) PROVE Latest' /\ SnapshotsAdvance'
  BY <1>4 DEF Compare, Recheck, Latest, SnapshotsAdvance, Absent
<1>5. ASSUME NEW t \in Threads, Clear(t) PROVE Latest' /\ SnapshotsAdvance'
  BY <1>5 DEF Clear, Latest, SnapshotsAdvance, Absent, NoSnapshot
<1>6. ASSUME NEW t \in Threads, Open(t) PROVE Latest' /\ SnapshotsAdvance'
  BY <1>6 DEF Open, Loaded, Latest, SnapshotsAdvance, Absent, NoSnapshot
<1> QED
  BY <1>1, <1>2, <1>3, <1>4, <1>5, <1>6 DEF Next

\* The snapshot that recent_snapshot() and force_refresh() share between threads is
\* never replaced by an older one than some thread has got, for any number of
\* threads, with any clock, and also if the file is removed in between.
THEOREM SnapshotsNeverGoBack == Spec => []SnapshotsAdvance
<1>1. Init => Latest /\ SnapshotsAdvance
  BY MaxVersionAssumption DEF Init, Latest, SnapshotsAdvance, Absent, NoSnapshot
<1>2. Latest /\ SnapshotsAdvance /\ [Next]_vars => (Latest /\ SnapshotsAdvance)'
  <2>1. CASE Next
    BY <2>1, LatestStep
  <2>2. CASE UNCHANGED vars
    BY <2>2 DEF vars, Latest, SnapshotsAdvance
  <2> QED
    BY <2>1, <2>2
<1> QED
  BY <1>1, <1>2, PTL DEF Spec
=============================================================================
