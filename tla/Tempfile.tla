------------------------------ MODULE Tempfile ------------------------------
(***************************************************************************)
(* Registered tempfiles (gix-tempfile) in their use as lock files          *)
(* (gix-lock).  The registry of a process maps the id of a handle to its   *)
(* tempfile.  Every operation on a handle takes the tempfile out of the    *)
(* registry, works on it, and puts it back or not; a signal handler can    *)
(* interrupt a thread between any two of these steps and removes the       *)
(* tempfiles it finds.  Processes compete for the lock files, and a forked *)
(* child has a copy of its parent's registry until it runs a program.      *)
(***************************************************************************)
EXTENDS Integers, FiniteSets

CONSTANTS
    Procs, Threads, ProcOf,     \* ProcOf[t] is the process of thread t
    Children,                   \* processes that fork() makes, of one thread each
    Paths,                      \* resources; each has one lock path
    Shards, ShardOf,            \* ShardOf[id] is the part of the registry id is in
    Kinds,                      \* the locks in use: File is "file", Marker is "marker"
    Restores,                   \* handler::Mode: does a signal end the process?
    NoThread, NoFile,
    MaxFiles, MaxSignals, MaxWaits      \* bounds

Ids == 0..MaxFiles - 1
Files == 1..MaxFiles            \* files at lock paths, in the order of their creation

ASSUME ProcessAssumption == ProcOf \in [Threads -> Procs] /\ Children \subseteq Procs
ASSUME KindAssumption == Kinds \subseteq {"file", "marker"}
ASSUME ShardAssumption == ShardOf \in [Ids -> Shards]

\* ForksafeTempfile; `open` tells a Tempfile from a Temppath.
Tempfiles == [path : Paths, file : Files, open : BOOLEAN, pid : Procs]
Absent == [entry |-> "absent"]  \* the registry has no such key
Taken == [entry |-> "taken"]    \* the signal handler has left None
Nothing == [entry |-> "nothing"]

\* gix_lock::File, gix_lock::Marker, and the Marker that was a File ("closed"),
\* with the file that the handle was made for.
Handles == [kind : {"file", "marker", "closed"}, path : Paths, id : Ids \cup {-1},
            file : Files \cup {NoFile}]

VARIABLES
    disk,       \* path -> the file at its lock path
    resource,   \* path -> the file that was last renamed to it
    creator,    \* the process that has created each file, in order
    registry,   \* process -> id -> entry of REGISTRY
    next,       \* process -> NEXT_MAP_INDEX
    shard,      \* process -> shard -> the thread that has locked it
    state,      \* process -> "unborn", "running", "terminated", "replaced"
    pc, op,     \* thread -> the step it is at, and of which operation
    on,         \* thread -> the handle it operates on
    hand,       \* thread -> the tempfile it has taken out of the registry
    handles,    \* thread -> the handles it owns
    waits,      \* thread -> how often it will still wait for a lock
    handler,    \* thread -> the id its signal handler is at, and one past the last
    signals     \* number of signals so far

disks == <<disk, resource, creator>>
shared == <<registry, next, shard>>
locals == <<op, on, hand, handles, waits>>
vars == <<disks, shared, state, pc, locals, handler, signals>>

NoHandler == [at |-> 0, end |-> -1]
P(t) == ProcOf[t]
InHandler(t) == handler[t] # NoHandler

\* Code of a thread runs unless a signal handler has interrupted it.
Runs(t) == state[P(t)] = "running" /\ ~InHandler(t)

At(t, step) == Runs(t) /\ pc[t] = step /\ UNCHANGED <<state, handler, signals>>
Goto(t, step) == pc' = [pc EXCEPT ![t] = step]

Init ==
    /\ disk = [x \in Paths |-> NoFile] /\ resource = [x \in Paths |-> NoFile]
    /\ creator = << >>
    /\ registry = [p \in Procs |-> [i \in Ids |-> Absent]]
    /\ next = [p \in Procs |-> 0]
    /\ shard = [p \in Procs |-> [s \in Shards |-> NoThread]]
    /\ state = [p \in Procs |-> IF p \in Children THEN "unborn" ELSE "running"]
    /\ pc = [t \in Threads |-> "run"] /\ op = [t \in Threads |-> "none"]
    /\ on = [t \in Threads |-> Nothing] /\ hand = [t \in Threads |-> Nothing]
    /\ handles = [t \in Threads |-> {}]
    /\ waits = [t \in Threads |-> 0]
    /\ handler = [t \in Threads |-> NoHandler] /\ signals = 0

\* The operation is over; the thread owns `kept` besides its other handles.
Done(t, kept) ==
    /\ Goto(t, "run") /\ op' = [op EXCEPT ![t] = "none"]
    /\ on' = [on EXCEPT ![t] = Nothing] /\ hand' = [hand EXCEPT ![t] = Nothing]
    /\ handles' = [handles EXCEPT ![t] = @ \cup kept]
    /\ waits' = [waits EXCEPT ![t] = 0]

-----------------------------------------------------------------------------
(* Obtaining a lock                                                         *)

\* File::acquire() and Marker::acquire_to_hold_resource().  w is how often
\* lock_with_mode() waits: never with Fail::Immediately.
Acquire(t, x, kind, w) ==
    /\ At(t, "run") /\ P(t) \notin Children
    /\ Cardinality(DOMAIN creator) + Cardinality({u \in Threads : pc[u] = "create"}) < MaxFiles
    /\ Goto(t, "create") /\ op' = [op EXCEPT ![t] = "acquire"]
    /\ on' = [on EXCEPT ![t] = [kind |-> kind, path |-> x, id |-> -1, file |-> NoFile]]
    /\ waits' = [waits EXCEPT ![t] = w]
    /\ UNCHANGED <<disks, shared, hand, handles>>

\* Mutant: an existing file is opened.
MayCreateAnyway(x) == TRUE

\* The file is created with O_EXCL.
MayCreate(x) == disk[x] = NoFile

\* Handle::at_path() makes a file that must not exist yet ...
CreateFile(t) ==
    /\ At(t, "create")
    /\ MayCreate(on[t].path)
    /\ LET f == Cardinality(DOMAIN creator) + 1 IN
         /\ creator' = [g \in 1..f |-> IF g = f THEN P(t) ELSE creator[g]]
         /\ disk' = [disk EXCEPT ![on[t].path] = f]
         /\ hand' = [hand EXCEPT ![t] = [path |-> on[t].path, file |-> f, pid |-> P(t),
                                         open |-> on[t].kind = "file"]]
         /\ on' = [on EXCEPT ![t].file = f]
    /\ Goto(t, "index")
    /\ UNCHANGED <<resource, shared, op, handles, waits>>

\* Mutant: the back-off never runs out.
CreateBusyForever(t) ==
    /\ At(t, "create")
    /\ disk[on[t].path] # NoFile
    /\ IF waits[t] = 0 THEN Done(t, {}) ELSE UNCHANGED <<pc, locals>>
    /\ UNCHANGED <<disks, shared>>

\* ... or lock_with_mode() waits for the file to go away, or gives up ...
CreateBusy(t) ==
    /\ At(t, "create")
    /\ ~MayCreate(on[t].path)
    /\ \/ /\ waits[t] > 0
          /\ waits' = [waits EXCEPT ![t] = @ - 1]
          /\ UNCHANGED <<pc, op, on, hand, handles>>
       \/ waits[t] = 0 /\ Done(t, {})
    /\ UNCHANGED <<disks, shared>>

\* ... at once if there is another error.
CreateFails(t) ==
    /\ At(t, "create")
    /\ Done(t, {})
    /\ UNCHANGED <<disks, shared>>

\* The new file gets an id of its own before it is registered.
Index(t) ==
    /\ At(t, "index")
    /\ on' = [on EXCEPT ![t].id = next[P(t)]]
    /\ next' = [next EXCEPT ![P(t)] = @ + 1]
    /\ Goto(t, "insert")
    /\ UNCHANGED <<disks, registry, shard, op, hand, handles, waits>>

\* set_shared_repository_permissions() on the lock file: the handle is dropped
\* if it fails.
Permit(t) ==
    /\ At(t, "permit")
    /\ \/ Done(t, {on[t]})
       \/ /\ Goto(t, "remove") /\ op' = [op EXCEPT ![t] = "drop"]
          /\ UNCHANGED <<on, hand, handles, waits>>
    /\ UNCHANGED <<disks, shared>>

-----------------------------------------------------------------------------
(* Operations on a handle                                                   *)

\* Which handles an operation takes: File::with_mut() and File::close() a
\* File, commit() a File or a Marker made from one, drop() any.
Takes(o, h) ==
    CASE o \in {"with_mut", "close"} -> h.kind = "file"
      [] o = "commit" -> h.kind \in {"file", "closed"}
      [] OTHER -> TRUE

Begin(t, o, h) ==
    /\ At(t, "run")
    /\ h \in handles[t] /\ Takes(o, h)
    /\ Goto(t, "remove") /\ op' = [op EXCEPT ![t] = o]
    /\ on' = [on EXCEPT ![t] = h]
    /\ handles' = [handles EXCEPT ![t] = @ \ {h}]
    /\ UNCHANGED <<disks, shared, hand, waits>>

\* REGISTRY.remove() and REGISTRY.insert() lock the shard of the id ...
LockShard(t) ==
    /\ At(t, pc[t]) /\ pc[t] \in {"remove", "insert"}
    /\ shard[P(t)][ShardOf[on[t].id]] = NoThread
    /\ shard' = [shard EXCEPT ![P(t)][ShardOf[on[t].id]] = t]
    /\ Goto(t, IF pc[t] = "remove" THEN "removing" ELSE "inserting")
    /\ UNCHANGED <<disks, registry, next, locals>>

\* ... and unlock it having changed the entry.
SetEntry(t, entry) ==
    /\ registry' = [registry EXCEPT ![P(t)][on[t].id] = entry]
    /\ shard' = [shard EXCEPT ![P(t)][ShardOf[on[t].id]] = NoThread]

\* The tempfile in an entry, if it has one.
Found(entry) == IF entry \in {Absent, Taken} THEN Nothing ELSE entry

Remove(t) ==
    /\ At(t, "removing")
    /\ SetEntry(t, Absent)
    /\ hand' = [hand EXCEPT ![t] = Found(registry[P(t)][on[t].id])]
    /\ Goto(t, "work")
    /\ UNCHANGED <<disks, next, op, on, handles, waits>>

Insert(t) ==
    /\ At(t, "inserting")
    /\ SetEntry(t, hand[t])
    /\ IF op[t] = "acquire"
       THEN /\ Goto(t, "permit") /\ hand' = [hand EXCEPT ![t] = Nothing]
            /\ UNCHANGED <<op, on, handles, waits>>
       ELSE Done(t, {on[t]})
    /\ UNCHANGED <<disks, next>>

\* The tempfile wasn't there: with_mut() fails, close() fails and drops the
\* handle, the persist() of a commit and drop() are done.
WorkGone(t) ==
    /\ At(t, "work") /\ hand[t] = Nothing
    /\ CASE op[t] = "with_mut" -> Done(t, {on[t]})
         [] op[t] = "close" -> /\ Goto(t, "remove") /\ op' = [op EXCEPT ![t] = "drop"]
                               /\ UNCHANGED <<on, hand, handles, waits>>
         [] OTHER -> Done(t, {})
    /\ UNCHANGED <<disks, shared>>

\* Mutant: the file stays open.
ClosedNot(tempfile) == tempfile

\* ForksafeTempfile::close()
Closed(tempfile) == [tempfile EXCEPT !.open = FALSE]

\* with_mut() leaves the tempfile as it is, close() makes it a path.
WorkBack(t) ==
    /\ At(t, "work") /\ hand[t] # Nothing /\ op[t] \in {"with_mut", "close"}
    /\ \/ op[t] = "with_mut" /\ UNCHANGED <<hand, on>>
       \/ /\ op[t] = "close"
          /\ hand' = [hand EXCEPT ![t] = Closed(@)]
          /\ on' = [on EXCEPT ![t].kind = "closed"]
    /\ Goto(t, "insert")
    /\ UNCHANGED <<disks, shared, op, handles, waits>>

\* persist() renames the lock file to the resource ...
WorkPersist(t) ==
    /\ At(t, "work") /\ hand[t] # Nothing /\ op[t] = "commit"
    /\ resource' = [resource EXCEPT ![hand[t].path] = disk[hand[t].path]]
    /\ disk' = [disk EXCEPT ![hand[t].path] = NoFile]
    /\ Done(t, {})
    /\ UNCHANGED <<creator, shared>>

\* Mutant: the handle is returned, the tempfile is not registered again.
WorkPersistForgets(t) ==
    /\ At(t, "work") /\ hand[t] # Nothing /\ op[t] = "commit"
    /\ Done(t, {on[t]})
    /\ UNCHANGED <<disks, shared>>

\* ... or fails, and the handle remains usable.
WorkPersistFails(t) ==
    /\ At(t, "work") /\ hand[t] # Nothing /\ op[t] = "commit"
    /\ Goto(t, "insert")
    /\ UNCHANGED <<disks, shared, locals>>

\* drop_impl() deletes the lock file.
WorkDrop(t) ==
    /\ At(t, "work") /\ hand[t] # Nothing /\ op[t] = "drop"
    /\ disk' = [disk EXCEPT ![hand[t].path] = NoFile]
    /\ Done(t, {})
    /\ UNCHANGED <<resource, creator, shared>>

-----------------------------------------------------------------------------
(* Signals and processes                                                    *)

\* Mutant: the last id is left out.
OnePastLastShort(p) == IF next[p] = 0 THEN 0 ELSE next[p] - 1

OnePastLast(p) == next[p]

\* cleanup_tempfiles_nix() starts on some thread of the process: it looks at the
\* ids that there are at this moment.
Signal(t) ==
    /\ Runs(t) /\ signals < MaxSignals
    /\ signals' = signals + 1
    /\ handler' = [handler EXCEPT ![t] = [at |-> 0, end |-> OnePastLast(P(t))]]
    /\ UNCHANGED <<disks, shared, state, pc, locals>>

\* Mutant: the process id isn't looked at.
CleansAll(p, entry) == entry \notin {Absent, Taken}

\* A handler deletes only what its own process has created.
Cleans(p, entry) == entry \notin {Absent, Taken} /\ entry.pid = p

\* Mutant: the handler waits for the lock of the shard.
VisitWaits(t) ==
    LET p == P(t)
        i == handler[t].at
        entry == registry[p][i]
    IN
    /\ InHandler(t) /\ state[p] = "running" /\ i < handler[t].end
    /\ shard[p][ShardOf[i]] = NoThread
    /\ IF Cleans(p, entry)
       THEN /\ registry' = [registry EXCEPT ![p][i] = Taken]
            /\ disk' = [disk EXCEPT ![entry.path] = NoFile]
       ELSE UNCHANGED <<registry, disk>>
    /\ handler' = [handler EXCEPT ![t].at = @ + 1]
    /\ UNCHANGED <<resource, creator, next, shard, state, pc, locals, signals>>

\* cleanup_tempfiles_signal_safe(), one id: an entry in a locked shard is passed
\* over, by try_entry() or try_lock().
Visit(t) ==
    LET p == P(t)
        i == handler[t].at
        entry == registry[p][i]
    IN
    /\ InHandler(t) /\ state[p] = "running" /\ i < handler[t].end
    /\ \/ /\ shard[p][ShardOf[i]] = NoThread /\ Cleans(p, entry)
          /\ registry' = [registry EXCEPT ![p][i] = Taken]
          /\ disk' = [disk EXCEPT ![entry.path] = NoFile]
       \/ /\ shard[p][ShardOf[i]] # NoThread \/ ~Cleans(p, entry)
          /\ UNCHANGED <<registry, disk>>
    /\ handler' = [handler EXCEPT ![t].at = @ + 1]
    /\ UNCHANGED <<resource, creator, next, shard, state, pc, locals, signals>>

\* Mutant: the default action is not emulated.
TerminatesNever == FALSE

\* Is the mode DeleteTempfilesOnTerminationAndRestoreDefaultBehaviour?
Terminates == Restores

\* The default action is emulated and ends the process, or the thread goes on.
HandlerEnds(t) ==
    /\ InHandler(t) /\ state[P(t)] = "running" /\ handler[t].at = handler[t].end
    /\ IF Terminates
       THEN state' = [state EXCEPT ![P(t)] = "terminated"] /\ UNCHANGED handler
       ELSE handler' = [handler EXCEPT ![t] = NoHandler] /\ UNCHANGED state
    /\ UNCHANGED <<disks, shared, pc, locals, signals>>

\* The thread c of a child process comes into being with a copy of the memory,
\* locks held by threads that it has not got included.
Fork(t, c) ==
    /\ Runs(t) /\ pc[t] = "run" /\ P(t) \notin Children
    /\ P(c) \in Children /\ state[P(c)] = "unborn"
    /\ state' = [state EXCEPT ![P(c)] = "running"]
    /\ registry' = [registry EXCEPT ![P(c)] = registry[P(t)]]
    /\ next' = [next EXCEPT ![P(c)] = next[P(t)]]
    /\ shard' = [shard EXCEPT ![P(c)] = shard[P(t)]]
    /\ UNCHANGED <<disks, pc, locals, handler, signals>>

\* It does nothing but to run another program.
Exec(c) ==
    /\ Runs(c) /\ P(c) \in Children
    /\ state' = [state EXCEPT ![P(c)] = "replaced"]
    /\ UNCHANGED <<disks, shared, pc, locals, handler, signals>>

\* SIGKILL, or a crash.
Kill(p) ==
    /\ state[p] = "running" /\ signals < MaxSignals
    /\ state' = [state EXCEPT ![p] = "terminated"]
    /\ signals' = signals + 1
    /\ UNCHANGED <<disks, shared, pc, locals, handler>>

-----------------------------------------------------------------------------

\* What a thread does on its way through an operation.
Step(t) ==
    \/ CreateFile(t) \/ CreateBusy(t) \/ Index(t) \/ Permit(t)
    \/ Remove(t) \/ Insert(t) \/ WorkGone(t) \/ WorkBack(t)
    \/ WorkPersist(t) \/ WorkPersistFails(t) \/ WorkDrop(t)

Next ==
    \/ \E t \in Threads :
         \/ \E x \in Paths, kind \in Kinds, w \in 0..MaxWaits : Acquire(t, x, kind, w)
         \/ \E o \in {"with_mut", "close", "commit", "drop"}, h \in handles[t] : Begin(t, o, h)
         \/ CreateFails(t) \/ LockShard(t)
         \/ Step(t)
         \/ Signal(t) \/ Visit(t) \/ HandlerEnds(t)
         \/ Exec(t)
         \/ \E c \in Threads : Fork(t, c)
    \/ \E p \in Procs : Kill(p)

Spec == Init /\ [][Next]_vars

\* Threads are scheduled, no error has to happen, and the locks of the registry are eventually fair.
Fairness == \A t \in Threads :
    WF_vars(Step(t) \/ Visit(t) \/ HandlerEnds(t)) /\ SF_vars(LockShard(t))

FairSpec == Spec /\ Fairness

-----------------------------------------------------------------------------
(* Properties                                                               *)

\* Type correctness.
TypeOK ==
    /\ disk \in [Paths -> Files \cup {NoFile}]
    /\ resource \in [Paths -> Files \cup {NoFile}]
    /\ DOMAIN creator \in {1..n : n \in 0..MaxFiles}
    /\ \A f \in DOMAIN creator : creator[f] \in Procs
    /\ registry \in [Procs -> [Ids -> Tempfiles \cup {Absent, Taken}]]
    /\ next \in [Procs -> 0..MaxFiles]
    /\ shard \in [Procs -> [Shards -> Threads \cup {NoThread}]]
    /\ state \in [Procs -> {"unborn", "running", "terminated", "replaced"}]
    /\ pc \in [Threads -> {"run", "create", "index", "insert", "inserting", "permit", "remove",
                           "removing", "work"}]
    /\ op \in [Threads -> {"none", "acquire", "with_mut", "close", "commit", "drop"}]
    /\ on \in [Threads -> Handles \cup {Nothing}]
    /\ hand \in [Threads -> Tempfiles \cup {Nothing}]
    /\ handles \in [Threads -> SUBSET Handles]
    /\ waits \in [Threads -> 0..MaxWaits]
    /\ handler \in [Threads -> [at : 0..MaxFiles, end : -1..MaxFiles]]
    /\ signals \in 0..MaxSignals

Registered(p) == {i \in Ids : registry[p][i] \notin {Absent, Taken} /\ registry[p][i].pid = p}

\* The tempfile of every registry entry, and every tempfile a thread has taken
\* out of it, is the file at its path: what drop, commit and the signal handler
\* delete or rename by path is never the lock file of somebody else who has
\* obtained the lock since.
TempfilesOnDisk ==
    \A p \in Procs : state[p] = "running" =>
        /\ \A i \in Registered(p) : disk[registry[p][i].path] = registry[p][i].file
        /\ \A t \in Threads : P(t) = p /\ hand[t] # Nothing => disk[hand[t].path] = hand[t].file

\* No path through an operation, errors included, forgets a lock file: one that
\* is on disk while its process runs is in the registry under the id of a handle
\* that a thread owns, or in the hands of the thread.
NoOrphans ==
    \A x \in Paths : disk[x] # NoFile /\ state[creator[disk[x]]] = "running" =>
        \E t \in Threads :
            /\ P(t) = creator[disk[x]]
            /\ \/ hand[t] # Nothing /\ hand[t].file = disk[x]
               \/ \E h \in handles[t] \cup ({on[t]} \ {Nothing}) :
                    /\ h.file = disk[x]
                    /\ h.id \in Registered(P(t)) /\ registry[P(t)][h.id].file = disk[x]

\* The expectations in the code: an id has no entry when one is inserted ("ids
\* are never reused"), and the tempfile of a File is open and that of a Marker is
\* not ("correct runtime typing", "no open files in a closed handle").
NeverPanics ==
    \A t \in Threads :
        /\ pc[t] \in {"insert", "inserting"} => registry[P(t)][on[t].id] = Absent
        /\ pc[t] = "work" /\ hand[t] # Nothing => (hand[t].open <=> on[t].kind = "file")

\* A lock file leaves its path only through the process that has created it: a
\* thread that has the tempfile in its hands, or the handler that finds it in
\* its registry.  A forked child, whose registry has it as well, never does.
KeptByOthers ==
    [][\A x \in Paths : disk[x] # NoFile /\ disk'[x] # disk[x] =>
          LET p == creator[disk[x]] IN
          /\ state[p] = "running"
          /\ \/ \E t \in Threads : P(t) = p /\ hand[t] # Nothing /\ hand[t].file = disk[x]
                                   /\ hand'[t] = Nothing
             \/ \E i \in Registered(p) : registry[p][i].file = disk[x]
                                         /\ registry'[p][i] = Taken]_vars

\* A signal handler in a process of one thread leaves no lock file of it, except
\* the one that was being operated on ("preventing this tempfile to be removed,
\* but not others"), and those in a part of the registry that was locked for it:
\* without the hp-hashmap feature that is all of the registry.
SignalLeavesInFlight ==
    \A t \in Threads :
        InHandler(t) /\ handler[t].at = handler[t].end /\ (\A u \in Threads : P(u) = P(t) => u = t) =>
            \A x \in Paths : disk[x] # NoFile /\ creator[disk[x]] = P(t) =>
                \/ on[t] # Nothing /\ on[t].file = disk[x]
                \/ \E i \in Registered(P(t)) : registry[P(t)][i].file = disk[x]
                                               /\ shard[P(t)][ShardOf[i]] = t

Commits(t) == pc[t] = "work" /\ op[t] = "commit" /\ pc'[t] = "run"

\* A commit() that returns Ok has renamed the lock file to its resource, unless
\* the process is about to end by a signal.  This needs the mode in which a signal
\* ends the process: in the other one, persist() answers Ok for a tempfile that a
\* handler has deleted.
CommitTakesEffect ==
    [][\A t \in Threads : Commits(t) =>
          \/ resource'[on[t].path] = on[t].file
          \/ \E u \in Threads : P(u) = P(t) /\ InHandler(u)]_vars

\* A signal handler never waits for a lock that the interrupted thread, another
\* one, or one that fork() has left behind holds: it comes to its end.
HandlerReturns ==
    \A t \in Threads : InHandler(t) ~> (~InHandler(t) \/ state[P(t)] # "running")

\* An attempt to obtain a lock ends, whoever holds it and even if they are gone.
AcquireReturns ==
    \A t \in Threads : op[t] = "acquire" ~> (pc[t] = "run" \/ state[P(t)] # "running")
=============================================================================
