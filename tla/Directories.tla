---------------------------- MODULE Directories -----------------------------
(***************************************************************************)
(* Directories that come and go with lock files (gix-fs, gix-tempfile).    *)
(* A process creates the directories that lead to its lock file, retrying  *)
(* if one is missing; it removes its lock file and then every directory    *)
(* that is empty, upwards to a boundary.  Sweepers remove trees of empty   *)
(* directories to make room for a file.  They all run at the same time.    *)
(***************************************************************************)
EXTENDS Naturals, Sequences, FiniteSets

CONSTANTS
    Procs, Sweepers,
    Dirs, Top, Parent,      \* Parent[d] of every directory below the boundary Top
    Target,                 \* where a process has its lock file, or what a sweeper removes
    Entire,                 \* Retries::to_create_entire_directory
    OnFailure,              \* Retries::on_create_directory_failure
    OnInterrupt             \* Retries::on_interrupt

Below == Dirs \ {Top}

ASSUME TreeAssumption ==
    Top \in Dirs /\ Parent \in [Below -> Dirs] /\ \A p \in Procs \cup Sweepers : Target[p] \in Below
ASSUME RetriesAssumption == Entire \in Nat \ {0} /\ OnFailure \in Nat \ {0} /\ OnInterrupt \in Nat \ {0}

VARIABLES
    exists,     \* directories on disk
    locks,      \* processes whose lock file is on disk
    pc,         \* process -> step it is at
    cursors,    \* create::Iter: directories to create, the next one last; stack of a sweeper
    searching,  \* create::Iter: State::SearchingUpwardsForExistingDirectory
    retries,    \* create::Iter: what is left of the retries
    cursor,     \* remove::Iter: directory to remove
    error,      \* process -> how its last attempt ended
    disturbed,  \* process -> removals of directories it needs, during the attempt
    failures    \* has any attempt to create, or any sweep, failed so far?

vars == <<exists, locks, pc, cursors, searching, retries, cursor, error, disturbed, failures>>

Actors == Procs \cup Sweepers
Retries == [entire |-> Entire, failure |-> OnFailure, interrupt |-> OnInterrupt]

Init ==
    /\ exists = {Top} /\ locks = {}
    /\ pc = [p \in Actors |-> "idle"]
    /\ cursors = [p \in Actors |-> << >>]
    /\ searching = [p \in Procs |-> TRUE]
    /\ retries = [p \in Procs |-> Retries]
    /\ cursor = [p \in Procs |-> Top]
    /\ error = [p \in Procs |-> "none"]
    /\ disturbed = [p \in Procs |-> 0] /\ failures = FALSE

IsEmpty(d) == (\A e \in Below : Parent[e] = d => e \notin exists) /\ (\A p \in locks : Target[p] # d)

\* d and the directories it is in
Ancestors[d \in Dirs] == IF d = Top THEN {Top} ELSE {d} \cup Ancestors[Parent[d]]

\* std::fs::remove_dir()
RemoveDir(d) ==
    /\ exists' = exists \ {d}
    /\ disturbed' = [p \in Procs |-> IF pc[p] \in {"mkdir", "isdir"} /\ d \in Ancestors[Target[p]]
                                        /\ disturbed[p] < Entire
                                     THEN disturbed[p] + 1 ELSE disturbed[p]]

At(p, step) == pc[p] = step
Goto(p, step) == pc' = [pc EXCEPT ![p] = step]
Dir(p) == cursors[p][Len(cursors[p])]
Rest(p) == SubSeq(cursors[p], 1, Len(cursors[p]) - 1)

-----------------------------------------------------------------------------
(* Creation                                                                 *)

\* Handle::at_path() begins with create::all()
Start(p) ==
    /\ At(p, "idle")
    /\ cursors' = [cursors EXCEPT ![p] = <<Target[p]>>]
    /\ searching' = [searching EXCEPT ![p] = TRUE]
    /\ retries' = [retries EXCEPT ![p] = Retries]
    /\ disturbed' = [disturbed EXCEPT ![p] = 0]
    /\ error' = [error EXCEPT ![p] = "none"]
    /\ Goto(p, "mkdir")
    /\ UNCHANGED <<exists, locks, cursor, failures>>

\* The next directory, or after the last one the lock file.
Created(p) ==
    /\ cursors' = [cursors EXCEPT ![p] = Rest(p)]
    /\ searching' = [searching EXCEPT ![p] = FALSE]
    /\ Goto(p, IF Len(cursors[p]) = 1 THEN "file" ELSE "mkdir")

\* permanent_failure()
Fail(p, kind) ==
    /\ cursors' = [cursors EXCEPT ![p] = << >>]
    /\ error' = [error EXCEPT ![p] = kind]
    /\ failures' = TRUE
    /\ Goto(p, "idle")

Mkdir(p) ==
    /\ At(p, "mkdir") /\ Dir(p) \notin exists /\ Parent[Dir(p)] \in exists
    /\ exists' = exists \cup {Dir(p)}
    /\ \/ Created(p) /\ UNCHANGED <<error, failures>>
       \/ Fail(p, "Permissions") /\ UNCHANGED searching
    /\ UNCHANGED <<locks, retries, cursor, disturbed>>

\* mkdir() says AlreadyExists; only then it is looked at what is there.
MkdirExists(p) ==
    /\ At(p, "mkdir") /\ Dir(p) \in exists
    /\ Goto(p, "isdir")
    /\ UNCHANGED <<exists, locks, cursors, searching, retries, cursor, error, disturbed, failures>>

IsDir(p) ==
    /\ At(p, "isdir")
    /\ \/ Dir(p) \in exists /\ Created(p) /\ UNCHANGED <<error, failures>>
       \/ Dir(p) \notin exists /\ Fail(p, "NotADirectory") /\ UNCHANGED searching
    /\ UNCHANGED <<exists, locks, retries, cursor, disturbed>>

\* Mutant: the attempts to create everything are not counted.
LessEntireNever(r) == [r EXCEPT !.failure = OnFailure]

\* A directory that was there a moment ago is gone: everything anew.
LessEntire(r) == [r EXCEPT !.entire = @ - 1, !.failure = OnFailure]

\* Mutant: all failures count as disturbances.
AfterMissingAlways(p) == LessEntire(retries[p])

AfterMissing(p) ==
    IF searching[p] THEN [retries[p] EXCEPT !.failure = @ - 1] ELSE LessEntire(retries[p])

IsSpent(left) == left.entire < 1 \/ left.failure < 1

\* The parent is missing and has to be created first.
MkdirMissing(p) ==
    /\ At(p, "mkdir") /\ Dir(p) \notin exists /\ Parent[Dir(p)] \notin exists
    /\ searching' = [searching EXCEPT ![p] = TRUE]
    /\ retries' = [retries EXCEPT ![p] = AfterMissing(p)]
    /\ IF IsSpent(AfterMissing(p))
       THEN Fail(p, "NotFound")
       ELSE /\ cursors' = [cursors EXCEPT ![p] = Append(@, Parent[Dir(p)])]
            /\ UNCHANGED <<pc, error, failures>>
    /\ UNCHANGED <<exists, locks, cursor, disturbed>>

MkdirInterrupted(p) ==
    /\ At(p, "mkdir")
    /\ retries' = [retries EXCEPT ![p].interrupt = @ - 1]
    /\ IF retries[p].interrupt - 1 <= 1 THEN Fail(p, "Interrupted")
       ELSE UNCHANGED <<pc, cursors, error, failures>>
    /\ UNCHANGED <<exists, locks, searching, cursor, disturbed>>

\* The lock file is created in the directory, which may be gone again.
MakeFile(p) ==
    /\ At(p, "file")
    /\ \/ /\ Target[p] \in exists
          /\ locks' = locks \cup {p} /\ Goto(p, "locked")
          /\ UNCHANGED <<cursors, error, failures>>
       \/ Target[p] \notin exists /\ Fail(p, "NoDirectory") /\ UNCHANGED locks
    /\ UNCHANGED <<exists, searching, retries, cursor, disturbed>>

-----------------------------------------------------------------------------
(* Removal                                                                  *)

\* drop_impl() deletes the lock file and goes on with its directories.
Drop(p) ==
    /\ At(p, "locked")
    /\ locks' = locks \ {p}
    /\ Goto(p, "look")
    /\ UNCHANGED <<exists, cursors, searching, retries, cursor, error, disturbed, failures>>

\* remove::Iter::new(): nothing to do if the directory is gone.
Look(p) ==
    /\ At(p, "look")
    /\ \/ /\ Target[p] \in exists
          /\ cursor' = [cursor EXCEPT ![p] = Target[p]] /\ Goto(p, "rmdir")
       \/ Target[p] \notin exists /\ Goto(p, "idle") /\ UNCHANGED cursor
    /\ UNCHANGED <<exists, locks, cursors, searching, retries, error, disturbed, failures>>

\* Mutant: the boundary is the last directory to be removed.
EndsAfter(d) == d = Top

\* Mutant: only the directory of the lock file is removed.
EndsAtOnce(d) == TRUE

EndsAt(d) == Parent[d] = Top

\* remove::Iter::next(): a directory that is not empty is the end of it, one that
\* is gone is not.
Rmdir(p) ==
    LET d == cursor[p] IN
    /\ At(p, "rmdir")
    /\ \/ d \in exists /\ ~IsEmpty(d) /\ Goto(p, "idle") /\ UNCHANGED <<exists, cursor, disturbed>>
       \/ /\ \/ d \in exists /\ IsEmpty(d) /\ RemoveDir(d)
             \/ d \notin exists /\ UNCHANGED <<exists, disturbed>>
          /\ IF EndsAt(d) THEN Goto(p, "idle") /\ UNCHANGED cursor
             ELSE cursor' = [cursor EXCEPT ![p] = Parent[d]] /\ UNCHANGED pc
    /\ UNCHANGED <<locks, cursors, searching, retries, error, failures>>

\* empty_depth_first(): perhaps it is empty already ...
Sweep(s) ==
    /\ At(s, "idle")
    /\ \/ /\ Target[s] \in exists /\ IsEmpty(Target[s])
          /\ RemoveDir(Target[s])
          /\ UNCHANGED <<pc, cursors>>
       \/ /\ Target[s] \notin exists \/ ~IsEmpty(Target[s])
          /\ cursors' = [cursors EXCEPT ![s] = <<Target[s]>>]
          /\ Goto(s, "read") /\ UNCHANGED <<exists, disturbed>>
    /\ UNCHANGED <<locks, searching, retries, cursor, error, failures>>

Swept(s, stack) ==
    /\ cursors' = [cursors EXCEPT ![s] = stack]
    /\ Goto(s, IF stack = << >> THEN "idle" ELSE "read")
    /\ UNCHANGED failures

SweepFails(s) ==
    /\ cursors' = [cursors EXCEPT ![s] = << >>]
    /\ failures' = TRUE
    /\ Goto(s, "idle")

\* ... if not, the directories in it come first; a file is the end of it.
SweepRead(s) ==
    LET d == Dir(s)
        subdirs == {e \in Below : Parent[e] = d /\ e \in exists}
    IN
    /\ At(s, "read")
    /\ \/ /\ d \notin exists \/ \E p \in locks : Target[p] = d
          /\ SweepFails(s)
       \/ /\ d \in exists /\ IsEmpty(d)
          /\ Goto(s, "sweep") /\ UNCHANGED <<cursors, failures>>
       \/ /\ d \in exists /\ subdirs # {} /\ \A p \in locks : Target[p] # d
          /\ \E order \in [1..Cardinality(subdirs) -> subdirs] :
               /\ \A e \in subdirs : \E i \in DOMAIN order : order[i] = e
               /\ Swept(s, cursors[s] \o order)
    /\ UNCHANGED <<exists, locks, searching, retries, cursor, error, disturbed>>

SweepRemove(s) ==
    LET d == Dir(s) IN
    /\ At(s, "sweep")
    /\ \/ d \in exists /\ IsEmpty(d) /\ RemoveDir(d) /\ Swept(s, Rest(s))
       \/ (d \notin exists \/ ~IsEmpty(d)) /\ SweepFails(s) /\ UNCHANGED <<exists, disturbed>>
    /\ UNCHANGED <<locks, searching, retries, cursor, error>>

-----------------------------------------------------------------------------

Create(p) ==
    Mkdir(p) \/ MkdirExists(p) \/ IsDir(p) \/ MkdirMissing(p) \/ MakeFile(p)

Remove(p) == Look(p) \/ Rmdir(p)

Next ==
    \/ \E p \in Procs : Start(p) \/ Create(p) \/ MkdirInterrupted(p) \/ Drop(p) \/ Remove(p)
    \/ \E s \in Sweepers : Sweep(s) \/ SweepRead(s) \/ SweepRemove(s)

Spec == Init /\ [][Next]_vars

\* Every process goes on with what it has begun.
FairSpec ==
    /\ Spec
    /\ \A p \in Procs : WF_vars(Create(p)) /\ WF_vars(Remove(p))
    /\ \A s \in Sweepers : WF_vars(SweepRead(s) \/ SweepRemove(s))

-----------------------------------------------------------------------------
(* Properties                                                               *)

\* Type correctness.
TypeOK ==
    /\ exists \subseteq Dirs /\ locks \subseteq Procs
    /\ pc \in [Actors -> {"idle", "mkdir", "isdir", "file", "locked", "look", "rmdir", "read", "sweep"}]
    /\ \A p \in Actors : cursors[p] \in Seq(Below)
    /\ searching \in [Procs -> BOOLEAN]
    /\ retries \in [Procs -> [entire : 0..Entire, failure : 0..OnFailure, interrupt : 0..OnInterrupt]]
    /\ cursor \in [Procs -> Dirs]
    /\ error \in [Procs -> {"none", "Permissions", "NotADirectory", "NotFound", "Interrupted", "NoDirectory"}]
    /\ disturbed \in [Procs -> 0..Entire] /\ failures \in BOOLEAN

\* The boundary, which nobody created for a lock file, is never removed, even if
\* it is empty.
BoundaryStays == Top \in exists

\* Creation does not give up for a missing directory before others have removed
\* directories it needs, once for each of its attempts, given that the number of
\* retries allows for the depth of the tree, and does not take a directory for a
\* file unless one was removed meanwhile.
GivesUpIfDisturbed ==
    \A p \in Procs :
        /\ Entire - retries[p].entire <= disturbed[p]
        /\ error[p] = "NotFound" => disturbed[p] >= Entire
        /\ error[p] = "NotADirectory" => disturbed[p] >= 1

\* When all is over and nothing has failed, all directories that were created
\* are removed again, although removers stop at directories that others use and
\* find directories gone.  A sweep that stops half-way counts as a failure: it may
\* have removed the directory that a remover was about to start from.
NothingLeft ==
    (\A p \in Actors : pc[p] = "idle") /\ ~failures => exists = {Top}

\* "A component exists but is not a directory": there are only directories here.
NotADirectoryIsTrue == \A p \in Procs : error[p] # "NotADirectory"

\* Whatever the others do, an attempt to create directories comes to an end.
CreationEnds == \A p \in Procs : pc[p] = "mkdir" ~> pc[p] # "mkdir" /\ pc[p] # "isdir"
=============================================================================
