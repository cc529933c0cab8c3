---------------------------- MODULE FileSnapshot ----------------------------
(***************************************************************************)
(* The shared, reloadable snapshot of a file that gix-fs keeps for the     *)
(* packed-refs buffer and for the shallow file (gix-fs/src/snapshot.rs).   *)
(* Threads of one process share `cache` behind a reader-writer lock; other *)
(* processes rewrite or remove the file on disk at any time.               *)
(*                                                                         *)
(* The contents of the file are abstracted to a version number: every      *)
(* rewrite gives the file the next version, so versions order the contents *)
(* in time.  The modification time of a version is its number divided by   *)
(* Granularity, the number of rewrites the filesystem's clock cannot tell  *)
(* apart.                                                                  *)
(***************************************************************************)
EXTENDS Integers

CONSTANTS Threads,      \* threads sharing one gix_ref::file::Store
          MaxVersion,   \* bound: rewrites of the file
          Granularity   \* rewrites that share a modification time

ASSUME GranularityAssumption == Granularity \in Nat \ {0}
ASSUME MaxVersionAssumption == MaxVersion \in Nat

Absent == 0             \* the file does not exist, or no snapshot is cached

VARIABLES disk,         \* version of the file on disk, or Absent
          written,      \* version of the latest rewrite
          removed,      \* ghost: the file was removed at some point
          cache,        \* the SharedFileSnapshotMut: value and modified
          readers,      \* threads holding the read guard
          writer,       \* {t} while t holds the write guard
          waiting,      \* threads queued for the write guard
          pc,           \* where a thread is in recent_snapshot/force_refresh
          mtime,        \* modified_time local of a thread
          res,          \* what a call returned last
          floor,        \* ghost: oldest version current since the call began
          missed        \* ghost: the file was absent at some point since then

vars == <<disk, written, removed, cache, readers, writer, waiting, pc, mtime, res, floor, missed>>

MTime(v) == v \div Granularity

NoSnapshot == [value |-> Absent, modified |-> 0]

Returned == {"idle", "done", "failed"}

\* The type of the state.
TypeOK ==
    /\ disk \in 0..MaxVersion
    /\ written \in 0..MaxVersion
    /\ removed \in BOOLEAN
    /\ cache \in [value : 0..MaxVersion, modified : 0..MaxVersion]
    /\ readers \subseteq Threads
    /\ writer \subseteq Threads
    /\ waiting \subseteq Threads
    /\ pc \in [Threads -> Returned \cup {"mtime", "clear", "reload", "load",
                "reload_mtime", "load_mtime", "open", "force_mtime"}]
    /\ mtime \in [Threads -> 0..MaxVersion]
    /\ res \in [Threads -> 0..MaxVersion]
    /\ floor \in [Threads -> 0..(MaxVersion + 1)]
    /\ missed \in [Threads -> BOOLEAN]

Init ==
    /\ disk \in {Absent, 1} \cap (0..MaxVersion)
    /\ written = disk
    /\ removed = FALSE
    /\ cache = NoSnapshot
    /\ readers = {}
    /\ writer = {}
    /\ waiting = {}
    /\ pc = [t \in Threads |-> "idle"]
    /\ mtime = [t \in Threads |-> 0]
    /\ res = [t \in Threads |-> Absent]
    /\ floor = [t \in Threads |-> 0]
    /\ missed = [t \in Threads |-> FALSE]

\* Another process renames a new file into place.
Rewrite ==
    /\ written < MaxVersion
    /\ written' = written + 1
    /\ disk' = written + 1
    /\ UNCHANGED <<removed, cache, readers, writer, waiting, pc, mtime, res, floor, missed>>

\* Another process removes the file (a packed-refs commit left no reference).
Remove ==
    /\ disk # Absent
    /\ disk' = Absent
    /\ removed' = TRUE
    /\ missed' = [t \in Threads |-> TRUE]
    /\ UNCHANGED <<written, cache, readers, writer, waiting, pc, mtime, res, floor>>

-----------------------------------------------------------------------------
(* recent_snapshot                                                          *)

\* The ghosts note what was on disk when the call began.
StartWatching(t) ==
    /\ floor' = [floor EXCEPT ![t] = IF disk = Absent THEN written + 1 ELSE disk]
    /\ missed' = [missed EXCEPT ![t] = disk = Absent]

\* `let state = get_ref(self)`: the read guard, for which a thread queues up
\* behind those waiting for the write guard.
GetRef(t) ==
    /\ pc[t] \in Returned
    /\ writer = {} /\ waiting = {}
    /\ readers' = readers \cup {t}
    /\ pc' = [pc EXCEPT ![t] = "mtime"]
    /\ StartWatching(t)
    /\ UNCHANGED <<disk, written, removed, cache, writer, waiting, mtime, res>>

\* Mutant: a reload only when the file is more than one tick newer.
IsStaleOffByOne(m) == cache.modified + 1 < m

\* Does the cached snapshot need a reload for modification time m?
IsStale(m) == cache.modified < m

\* The file's modification time is read and matched against the cached state,
\* all under the read guard, which every branch gives up.
Compare(t) ==
    /\ pc[t] = "mtime"
    /\ readers' = readers \ {t}
    /\ \/ /\ cache.value = Absent /\ disk = Absent
          /\ pc' = [pc EXCEPT ![t] = "done"]
          /\ res' = [res EXCEPT ![t] = Absent]
       \/ /\ cache.value # Absent /\ disk = Absent
          /\ pc' = [pc EXCEPT ![t] = "clear"]
          /\ UNCHANGED res
       \/ /\ cache.value # Absent /\ disk # Absent
          /\ IF IsStale(MTime(disk))
             THEN /\ pc' = [pc EXCEPT ![t] = "reload"]
                  /\ UNCHANGED res
             ELSE /\ pc' = [pc EXCEPT ![t] = "done"]
                  /\ res' = [res EXCEPT ![t] = cache.value]
       \/ /\ cache.value = Absent /\ disk # Absent
          /\ pc' = [pc EXCEPT ![t] = "load"]
          /\ UNCHANGED res
    /\ UNCHANGED <<disk, written, removed, cache, writer, waiting, mtime, floor, missed>>

\* A thread that finds the lock taken queues for the write guard.
Wait(t) ==
    /\ pc[t] \in {"clear", "reload", "load"}
    /\ readers \cup writer # {}
    /\ t \notin waiting
    /\ waiting' = waiting \cup {t}
    /\ UNCHANGED <<disk, written, removed, cache, readers, writer, pc, mtime, res, floor, missed>>

\* The file is gone: drop the cached snapshot under the write guard.
Clear(t) ==
    /\ pc[t] = "clear"
    /\ readers = {} /\ writer = {}
    /\ cache' = NoSnapshot
    /\ res' = [res EXCEPT ![t] = Absent]
    /\ pc' = [pc EXCEPT ![t] = "done"]
    /\ waiting' = waiting \ {t}
    /\ UNCHANGED <<disk, written, removed, readers, writer, mtime, floor, missed>>

\* `let mut state = get_mut(self)` in both reloading branches.
GetMut(t) ==
    /\ pc[t] \in {"reload", "load"}
    /\ readers = {} /\ writer = {}
    /\ writer' = {t}
    /\ waiting' = waiting \ {t}
    /\ pc' = [pc EXCEPT ![t] = IF pc[t] = "reload" THEN "reload_mtime" ELSE "load_mtime"]
    /\ UNCHANGED <<disk, written, removed, cache, readers, mtime, res, floor, missed>>

\* Mutant: start over until the situation is the same.
RecheckUntilSame(t) ==
    /\ pc[t] \in {"reload_mtime", "load_mtime"}
    /\ IF ((cache.value # Absent) <=> (pc[t] = "reload_mtime")) /\ disk # Absent
       THEN /\ mtime' = [mtime EXCEPT ![t] = MTime(disk)]
            /\ pc' = [pc EXCEPT ![t] = "open"]
            /\ UNCHANGED writer
       ELSE /\ pc' = [pc EXCEPT ![t] = IF pc[t] = "reload_mtime" THEN "reload" ELSE "load"]
            /\ writer' = {}
            /\ UNCHANGED mtime
    /\ UNCHANGED <<disk, written, removed, cache, readers, waiting, res, floor, missed>>

\* With the write guard held the situation is checked again: is there still a
\* snapshot to replace (or still none), and is the file still there?  If not,
\* whatever is cached now is returned.
Recheck(t) ==
    /\ pc[t] \in {"reload_mtime", "load_mtime"}
    /\ IF ((cache.value # Absent) <=> (pc[t] = "reload_mtime")) /\ disk # Absent
       THEN /\ mtime' = [mtime EXCEPT ![t] = MTime(disk)]
            /\ pc' = [pc EXCEPT ![t] = "open"]
            /\ UNCHANGED <<writer, res>>
       ELSE /\ res' = [res EXCEPT ![t] = cache.value]
            /\ pc' = [pc EXCEPT ![t] = "done"]
            /\ writer' = {}
            /\ UNCHANGED mtime
    /\ UNCHANGED <<disk, written, removed, cache, readers, waiting, floor, missed>>

\* Mutant: the file is opened before the write guard is there.
LoadedEarly(t) ==
    IF disk = Absent THEN NoSnapshot ELSE [value |-> floor[t], modified |-> mtime[t]]

\* The snapshot read from disk is stored with the time obtained before opening.
Loaded(t) == IF disk = Absent THEN NoSnapshot ELSE [value |-> disk, modified |-> mtime[t]]

Open(t) ==
    /\ pc[t] = "open"
    /\ cache' = Loaded(t)
    /\ res' = [res EXCEPT ![t] = Loaded(t).value]
    /\ pc' = [pc EXCEPT ![t] = "done"]
    /\ writer' = {}
    /\ UNCHANGED <<disk, written, removed, readers, waiting, mtime, floor, missed>>

-----------------------------------------------------------------------------
(* force_refresh, as Store::force_refresh_packed_buffer calls it            *)

ForceGetMut(t) ==
    /\ pc[t] \in Returned
    /\ readers = {} /\ writer = {}
    /\ writer' = {t}
    /\ pc' = [pc EXCEPT ![t] = "force_mtime"]
    /\ StartWatching(t)
    /\ UNCHANGED <<disk, written, removed, cache, readers, waiting, mtime, res>>

\* Without a file there is no modification time: the call fails and leaves the
\* cached snapshot as it is.
ForceMTime(t) ==
    /\ pc[t] = "force_mtime"
    /\ IF disk = Absent
       THEN /\ pc' = [pc EXCEPT ![t] = "failed"]
            /\ writer' = {}
            /\ UNCHANGED mtime
       ELSE /\ mtime' = [mtime EXCEPT ![t] = MTime(disk)]
            /\ pc' = [pc EXCEPT ![t] = "open"]
            /\ UNCHANGED writer
    /\ UNCHANGED <<disk, written, removed, cache, readers, waiting, res, floor, missed>>

Next ==
    \/ Rewrite
    \/ Remove
    \/ \E t \in Threads : \/ GetRef(t) \/ Compare(t) \/ Wait(t) \/ Clear(t) \/ GetMut(t)
                          \/ Recheck(t) \/ Open(t) \/ ForceGetMut(t) \/ ForceMTime(t)

Fairness == \A t \in Threads :
    /\ WF_vars(Compare(t)) /\ WF_vars(Wait(t)) /\ SF_vars(Clear(t)) /\ SF_vars(GetMut(t))
    /\ WF_vars(Recheck(t)) /\ WF_vars(Open(t)) /\ WF_vars(ForceMTime(t))

Spec == Init /\ [][Next]_vars

FairSpec == Spec /\ Fairness

-----------------------------------------------------------------------------
(* Properties                                                               *)

\* Was version v (or no file at all) on disk at some point since t's call began?
WasOnDisk(t, v) == IF v = Absent THEN missed[t] ELSE v >= floor[t]

\* recent_snapshot returns "a snapshot that is up-to-date in that very moment,
\* or None if the underlying file doesn't exist": what a call returns was on
\* disk at some point during the call, however the threads sharing the cache
\* and the processes replacing the file interleave.  Once the file was removed
\* that is no longer so: a thread that has seen it missing may clear the cache
\* late, when another one is about to reload it.
Current == ~removed => \A t \in Threads : pc[t] = "done" => WasOnDisk(t, res[t])

\* Also when the file comes and goes, the shared snapshot is never replaced by
\* an older one: what is cached is at least as recent as what any thread got.
SnapshotsAdvance == \A t \in Threads : cache.value # Absent => cache.value >= res[t]

\* Every call returns: no branch of recent_snapshot or force_refresh keeps a
\* guard that it or another thread then waits for.
CallsReturn == \A t \in Threads : pc[t] \notin Returned ~> pc[t] \in Returned

=============================================================================
