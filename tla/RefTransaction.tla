--------------------------- MODULE RefTransaction ---------------------------
(***************************************************************************)
(* Transactions on gix-ref's file store: several processes edit references *)
(* that live in loose files and in the one packed-refs file, protected by  *)
(* `.lock` files only.  A step of this module is one access to the shared  *)
(* filesystem (or a run of purely local code), in the order of             *)
(*   gix-ref/src/store/file/transaction/prepare.rs and commit.rs,          *)
(*   gix-ref/src/store/packed/transaction.rs, gix-ref/src/transaction/ext. *)
(*                                                                         *)
(* A reference holds an object id or, if symbolic, the name of another     *)
(* reference.  packed-refs is a function from names to object ids; the     *)
(* file exists exactly when some name is in it, as the code never leaves   *)
(* an empty one behind.  A process reads packed-refs as it is on disk:     *)
(* how its cached snapshot is kept fresh is module FileSnapshot's subject. *)
(***************************************************************************)
EXTENDS Integers, Sequences, FiniteSets

CONSTANTS Procs,       \* processes, each with its own file::Store
          Packable,    \* names that may be in packed-refs (refs/heads/a, ...)
          Private,     \* names that may not (HEAD, refs/bisect/x, ...)
          Oids,        \* object ids
          NoRef,       \* no such reference, or the new value of a deletion
          NoProc,      \* nobody: the lock file does not exist
          PackedRefs,  \* the packed-refs file, as a name for its lock
          AutoLog,     \* names whose reflog is created on demand
          Requests,    \* the transactions a process may ask for
          InitLoose, InitPacked,   \* the stores to start from
          MaxTransactions,         \* bound: transactions begun
          MaxCrashes               \* bound: processes that are killed

Names == Packable \cup Private
Targets == Oids \cup Names
Values == Targets \cup {NoRef}
Locks == Names \cup {PackedRefs}

\* How a transaction treats packed-refs (enum PackedRefs).
Modes == {"DeletionsOnly", "DeletionsAndUpdates", "RemoveLooseSource"}

Expectations ==
    [is : {"Any", "MustExist", "MustNotExist", "MustExistAndMatch", "ExistingMustMatch"},
     target : Values]

\* A RefEdit; a deletion is an edit whose new value is NoRef (and whose
\* expectation is never MustNotExist: that is a bug of the caller, and panics).
\* `only` stands for RefLog::Only; `ancestors` are the indices of the edits it
\* was split off (Edit::parent_index, followed to the root); Edit::lock is set
\* when lock[name] is the process.
Edits == [name : Names, new : Values, expected : Expectations, deref : BOOLEAN,
          only : BOOLEAN, ancestors : SUBSET Nat]

AnyValue == [is |-> "Any", target |-> NoRef]
MustExistAndMatch(t) == [is |-> "MustExistAndMatch", target |-> t]

ASSUME NamesAssumption ==
    /\ Packable \cap Private = {}
    /\ Oids \cap Names = {}
    /\ NoRef \notin Targets
    /\ PackedRefs \notin Names
    /\ NoProc \notin Procs
    /\ AutoLog \subseteq Names
ASSUME StoresAssumption ==
    /\ InitLoose \subseteq [Names -> Values]
    /\ InitPacked \subseteq [Packable -> Oids \cup {NoRef}]
ASSUME RequestsAssumption == Requests \subseteq [mode : Modes, edits : Seq(Edits) \ {<< >>}]
ASSUME BoundsAssumption == MaxTransactions \in Nat /\ MaxCrashes \in Nat

VARIABLES loose,      \* the loose reference files
          packed,     \* the packed-refs file
          lock,       \* the .lock files, and who created them
          reflog,     \* new-values recorded in the reflog files
          pc,         \* where a process is in its transaction
          mode,       \* Transaction::packed_refs
          edits,      \* Transaction::updates, as split so far
          index,      \* loop variable over the edits
          buffer,     \* packed::Transaction::buffer
          existing,   \* what read_existing_ref returned for each edit
          runs,       \* transactions begun so far
          crashes     \* processes killed so far

vars == <<loose, packed, lock, reflog, pc, mode, edits, index, buffer, existing, runs,
          crashes>>

Stages == {"idle", "split", "involved", "path", "packed_lock", "buffer", "snapshot",
           "buffer_lock", "refs", "prepared", "reflog", "update", "delete_reflog",
           "packed_commit", "delete_ref", "end", "crashed"}

Preparing == {"split", "involved", "path", "packed_lock", "buffer", "snapshot",
              "buffer_lock", "refs", "prepared"}
Committing == {"reflog", "update", "delete_reflog", "packed_commit", "delete_ref", "end"}

NoPacked == [n \in Packable |-> NoRef]

HasFile(file) == \E n \in Packable : file[n] # NoRef

\* What a reader of the store finds: the loose file shadows the packed entry.
Visible(n) == IF loose[n] # NoRef THEN loose[n]
              ELSE IF n \in Packable THEN packed[n] ELSE NoRef

Init ==
    /\ loose \in InitLoose
    /\ packed \in InitPacked
    /\ lock = [n \in Locks |-> NoProc]
    /\ reflog = [n \in Names |-> IF n \in AutoLog THEN {Visible(n)} \cap Oids ELSE {}]
    /\ pc = [p \in Procs |-> "idle"]
    /\ mode = [p \in Procs |-> "DeletionsOnly"]
    /\ edits = [p \in Procs |-> << >>]
    /\ index = [p \in Procs |-> 1]
    /\ buffer = [p \in Procs |-> NoPacked]
    /\ existing = [p \in Procs |-> << >>]
    /\ runs = 0
    /\ crashes = 0

-----------------------------------------------------------------------------
(* Edits                                                                    *)

IsUpdate(e) == e.new # NoRef
IsObjectUpdate(e) == e.new \in Oids
Direct(p) == mode[p] = "RemoveLooseSource"

\* Edits that packed::Transaction::prepare is given: deletions, and updates to
\* object ids in the modes that propagate them.
Propagated(p, e) ==
    /\ ~e.only
    /\ e.name \in Packable
    /\ \/ ~IsUpdate(e)
       \/ mode[p] # "DeletionsOnly" /\ IsObjectUpdate(e)

\* Edits whose current value has to be looked up in packed-refs.
NeedsLookup(p, e) == ~e.only /\ e.name \in Packable /\ ~Propagated(p, e)

EditsOf(p) == {edits[p][i] : i \in DOMAIN edits[p]}

\* packed::Transaction::prepare drops deletions of what the buffer lacks, but
\* only if there is a buffer.
PackedEdits(p) ==
    {e \in EditsOf(p) : Propagated(p, e) /\
        ~(~IsUpdate(e) /\ HasFile(buffer[p]) /\ buffer[p][e.name] = NoRef)}

\* packed::Transaction::commit: the sorted merge of buffer and edits.
Merged(p) ==
    [n \in Packable |->
        IF \E e \in PackedEdits(p) : e.name = n
        THEN (CHOOSE e \in PackedEdits(p) : e.name = n).new
        ELSE buffer[p][n]]

\* The PreviousValue constraint of an edit, given what was found.
Satisfied(e, found) ==
    CASE e.expected.is = "Any" -> TRUE
      [] e.expected.is = "MustExist" -> found # NoRef
      [] e.expected.is = "MustNotExist" -> found \in {NoRef, e.new}
      [] e.expected.is = "MustExistAndMatch" -> found # NoRef /\ found = e.expected.target
      [] e.expected.is = "ExistingMustMatch" -> found \in {NoRef, e.expected.target}

\* Mutant: a deletion needs no lock once it has been checked.
KeepsLockOfUpdates(p, e, found) == IsUpdate(e) /\ (Direct(p) \/ e.new # found \/ e.new \in Names)

\* Is Edit::lock set once the change is applied?  A deletion keeps its marker,
\* an update its file if there is something to write or a loose file to remove.
KeepsLock(p, e, found) ==
    \/ ~IsUpdate(e)
    \/ Direct(p)
    \/ e.new # found
    \/ e.new \in Names

\* Change::previous_value(), once the edit has been checked.
Previous(e, found) ==
    IF found # NoRef THEN found
    ELSE IF e.expected.is = "ExistingMustMatch" THEN e.expected.target ELSE NoRef

\* Edit::leaf_referent_previous_oid: the last edit split off edit i, directly or
\* not, that had an object id before.
LeafPrevious(p, i) ==
    LET leaves == {j \in DOMAIN edits[p] :
                     /\ i \in edits[p][j].ancestors
                     /\ Previous(edits[p][j], existing[p][j]) \in Oids}
        last == CHOOSE j \in leaves : \A k \in leaves : k <= j
    IN  IF leaves = {} THEN NoRef ELSE Previous(edits[p][last], existing[p][last])

\* Mutant: the log entry gets its two ids the wrong way around.
LogEntriesSwapped(p, i) == {existing[p][i]} \cap Oids

\* The ids that commit adds to the reflog of edit i: its new id if that differs
\* from the previous one; for a symbolic reference that did not exist, the id
\* the caller expects its referent to have.
LogEntries(p, i) ==
    LET e == edits[p][i]
        found == existing[p][i]
        previous == IF found \in Oids THEN found ELSE LeafPrevious(p, i)
    IN  IF e.new \in Oids THEN {e.new} \ {previous}
        ELSE IF found = NoRef /\ e.expected.is = "ExistingMustMatch"
             THEN {e.expected.target} \cap Oids ELSE {}

-----------------------------------------------------------------------------
(* Leaving a transaction                                                    *)

\* Mutant: only the locks in the edits are dropped.
ReleasedOfEdits(p) == [n \in Locks |-> IF n \in Names /\ lock[n] = p THEN NoProc ELSE lock[n]]

\* Dropping the Transaction removes the lock files it still holds.
Released(p) == [n \in Locks |-> IF lock[n] = p THEN NoProc ELSE lock[n]]

\* Back to the caller, with nothing changed but the locks.
Leave(p) ==
    /\ lock' = Released(p)
    /\ pc' = [pc EXCEPT ![p] = "idle"]
    /\ mode' = [mode EXCEPT ![p] = "DeletionsOnly"]
    /\ edits' = [edits EXCEPT ![p] = << >>]
    /\ index' = [index EXCEPT ![p] = 1]
    /\ buffer' = [buffer EXCEPT ![p] = NoPacked]
    /\ existing' = [existing EXCEPT ![p] = << >>]
    /\ UNCHANGED <<loose, packed, reflog, runs, crashes>>

\* Go from one stage to another, leaving the loop variable at its start.
Goto(p, stage) ==
    /\ pc' = [pc EXCEPT ![p] = stage]
    /\ index' = [index EXCEPT ![p] = 1]

\* The end of a loop body: the next edit in the same loop, or the next stage.
NextEdit(p, loop, after) ==
    IF index[p] < Len(edits[p])
    THEN pc' = [pc EXCEPT ![p] = loop] /\ index' = [index EXCEPT ![p] = @ + 1]
    ELSE Goto(p, after)

Current(p) == edits[p][index[p]]

-----------------------------------------------------------------------------
(* prepare(): splitting edits of symbolic references                        *)

Begin(p, request) ==
    /\ pc[p] = "idle"
    /\ runs < MaxTransactions
    /\ runs' = runs + 1
    /\ mode' = [mode EXCEPT ![p] = request.mode]
    /\ edits' = [edits EXCEPT ![p] = request.edits]
    /\ Goto(p, "split")
    /\ UNCHANGED <<loose, packed, lock, reflog, buffer, existing, crashes>>

\* find() follows the name without a lock, in loose files only.
Splits(e) == e.deref /\ loose[e.name] \in Names

\* Mutant: a deletion does not look again at where its name points to.
ParentUnchecked(e) == [e EXCEPT !.deref = FALSE, !.only = TRUE, !.expected = AnyValue]

\* What is left of an edit whose name is symbolic, and the edit of its referent.
Parent(e) ==
    [e EXCEPT !.deref = FALSE, !.only = TRUE,
              !.expected = IF IsUpdate(e) THEN AnyValue ELSE MustExistAndMatch(loose[e.name])]
Child(e, i) == [e EXCEPT !.name = loose[e.name], !.ancestors = @ \cup {i}]

UniqueNames(es) == \A i, j \in DOMAIN es : es[i].name = es[j].name => i = j

MaxRounds == 5

\* extend_with_splits_of_symbolic_refs() takes an edit at a time.  New edits go
\* to the end, and the round they are looked at in is one more than the number
\* of edits they were split off.
SplitSymbolic(p) ==
    /\ pc[p] = "split"
    /\ LET e == Current(p)
           i == index[p]
       IN  /\ Splits(e)
           /\ Cardinality(e.ancestors) + 1 < MaxRounds
           /\ edits' = [edits EXCEPT ![p] = Append([@ EXCEPT ![i] = Parent(e)], Child(e, i))]
    /\ index' = [index EXCEPT ![p] = @ + 1]
    /\ UNCHANGED <<loose, packed, lock, reflog, pc, mode, buffer, existing, runs, crashes>>

\* After the last edit, assure_one_name_has_one_edit().
SplitNot(p) ==
    /\ pc[p] = "split"
    /\ ~Splits(Current(p))
    /\ index[p] = Len(edits[p]) => UniqueNames(edits[p])
    /\ edits' = [edits EXCEPT ![p][index[p]].deref = FALSE]
    /\ NextEdit(p, "split", "involved")
    /\ UNCHANGED <<loose, packed, lock, reflog, mode, buffer, existing, runs, crashes>>

SplitFails(p) ==
    /\ pc[p] = "split"
    /\ IF Splits(Current(p)) THEN Cardinality(Current(p).ancestors) + 1 = MaxRounds
       ELSE index[p] = Len(edits[p]) /\ ~UniqueNames(edits[p])
    /\ Leave(p)

-----------------------------------------------------------------------------
(* prepare(): the packed transaction                                        *)

\* Is packed-refs of concern at all?  Looked up once, without a lock.
Involved(p) ==
    /\ pc[p] = "involved"
    /\ Goto(p, IF mode[p] # "DeletionsOnly" \/ HasFile(packed) \/ lock[PackedRefs] # NoProc
               THEN "path" ELSE "refs")
    /\ UNCHANGED <<loose, packed, lock, reflog, mode, edits, buffer, existing, runs, crashes>>

\* Lock packed-refs before reading it if there are updates for it or somebody
\* else is writing it; otherwise read first, and lock only if there was a file.
LocksFirst(p) ==
    \/ \E e \in EditsOf(p) : Propagated(p, e) /\ IsUpdate(e)
    \/ lock[PackedRefs] # NoProc

Path(p) ==
    /\ pc[p] = "path"
    /\ LET needed == \E e \in EditsOf(p) : Propagated(p, e) \/ NeedsLookup(p, e)
       IN  Goto(p, IF ~needed THEN "refs"
                   ELSE IF LocksFirst(p) THEN "packed_lock" ELSE "snapshot")
    /\ UNCHANGED <<loose, packed, lock, reflog, mode, edits, buffer, existing, runs, crashes>>

\* Create packed-refs.lock, then go on.
TakePackedLock(p, from, to) ==
    /\ pc[p] = from
    /\ lock[PackedRefs] = NoProc
    /\ lock' = [lock EXCEPT ![PackedRefs] = p]
    /\ Goto(p, to)
    /\ UNCHANGED <<loose, packed, reflog, mode, edits, buffer, existing, runs, crashes>>

ReadPacked(p, from, to) ==
    /\ pc[p] = from
    /\ buffer' = [buffer EXCEPT ![p] = packed]
    /\ Goto(p, to)
    /\ UNCHANGED <<loose, packed, lock, reflog, mode, edits, existing, runs, crashes>>

\* Mutant: no need to read packed-refs when it is going to be rewritten.
LockPackedOnly(p) == TakePackedLock(p, "packed_lock", "refs")

\* packed_transaction(): lock, then read.
LockPacked(p) == TakePackedLock(p, "packed_lock", "buffer")
BufferPacked(p) == ReadPacked(p, "buffer", "refs")

\* assure_packed_refs_uptodate(), then buffer_into_transaction(): read, then lock.
Snapshot(p) == ReadPacked(p, "snapshot", IF HasFile(packed) THEN "buffer_lock" ELSE "refs")
LockBuffer(p) == TakePackedLock(p, "buffer_lock", "refs")

-----------------------------------------------------------------------------
(* prepare(): locking and checking each reference                           *)

\* Mutant: only loose references are looked at.
BufferedNever(p, n) == NoRef

\* read_existing_ref(): loose, else what the packed transaction has buffered.
Buffered(p, n) ==
    IF lock[PackedRefs] = p /\ n \in Packable THEN buffer[p][n] ELSE NoRef
ReadExisting(p, n) == IF loose[n] # NoRef THEN loose[n] ELSE Buffered(p, n)

\* lock_ref_and_apply_change() when the constraint holds.
LockRef(p) ==
    /\ pc[p] = "refs"
    /\ lock[Current(p).name] = NoProc
    /\ LET e == Current(p)
           found == ReadExisting(p, e.name)
       IN  /\ Satisfied(e, found)
           /\ existing' = [existing EXCEPT ![p] = Append(@, found)]
           /\ lock' = IF KeepsLock(p, e, found) THEN [lock EXCEPT ![e.name] = p] ELSE lock
    /\ NextEdit(p, "refs", "prepared")
    /\ UNCHANGED <<loose, packed, reflog, mode, edits, buffer, runs, crashes>>

\* ... and when it does not: the new lock goes with all the others.
OutOfDate(p) ==
    /\ pc[p] = "refs"
    /\ lock[Current(p).name] = NoProc
    /\ ~Satisfied(Current(p), ReadExisting(p, Current(p).name))
    /\ Leave(p)

\* Mutant: wait for a reference as long as it takes.
BusyPackedRefs(p) ==
    /\ pc[p] \in {"packed_lock", "buffer_lock"} /\ lock[PackedRefs] # NoProc
    /\ Leave(p)

\* A lock is held by somebody else until gix_lock gives up on it.
Busy(p) ==
    /\ \/ pc[p] \in {"packed_lock", "buffer_lock"} /\ lock[PackedRefs] # NoProc
       \/ pc[p] = "refs" /\ lock[Current(p).name] # NoProc
    /\ Leave(p)

Rollback(p) == pc[p] = "prepared" /\ Leave(p)

-----------------------------------------------------------------------------
(* commit()                                                                 *)

Commit(p) ==
    /\ pc[p] = "prepared"
    /\ Goto(p, "reflog")
    /\ UNCHANGED <<loose, packed, lock, reflog, mode, edits, buffer, existing, runs, crashes>>

\* Is there a log to append to, or one to create?
IsLogged(n) == n \in AutoLog \/ reflog[n] # {}

\* First loop, first half: an update appends to the log; deletions are passed over.
AppendReflog(p) ==
    /\ pc[p] = "reflog"
    /\ LET n == Current(p).name
       IN  \/ /\ IsUpdate(Current(p))
              /\ reflog' = IF IsLogged(n)
                           THEN [reflog EXCEPT ![n] = @ \cup LogEntries(p, index[p])]
                           ELSE reflog
              /\ pc' = [pc EXCEPT ![p] = "update"]
              /\ UNCHANGED index
           \/ /\ ~IsUpdate(Current(p))
              /\ NextEdit(p, "reflog", "delete_reflog")
              /\ UNCHANGED reflog
    /\ UNCHANGED <<loose, packed, lock, mode, edits, buffer, existing, runs, crashes>>

\* First loop, second half: rename the lock file over the reference, or drop
\* it; updates that only go to packed-refs keep theirs.
UpdateRef(p) ==
    /\ pc[p] = "update"
    /\ LET e == Current(p)
       IN  IF Direct(p) /\ IsObjectUpdate(e)
           THEN UNCHANGED <<loose, lock>>
           ELSE /\ loose' = IF ~e.only /\ lock[e.name] = p
                            THEN [loose EXCEPT ![e.name] = e.new] ELSE loose
                /\ lock' = IF lock[e.name] = p
                           THEN [lock EXCEPT ![e.name] = NoProc] ELSE lock
    /\ NextEdit(p, "reflog", "delete_reflog")
    /\ UNCHANGED <<packed, reflog, mode, edits, buffer, existing, runs, crashes>>

\* Second loop: the reflog of a deleted reference goes first.
DeleteReflog(p) ==
    /\ pc[p] = "delete_reflog"
    /\ reflog' = IF IsUpdate(Current(p)) THEN reflog
                 ELSE [reflog EXCEPT ![Current(p).name] = {}]
    /\ NextEdit(p, "delete_reflog", "packed_commit")
    /\ UNCHANGED <<loose, packed, lock, mode, edits, buffer, existing, runs, crashes>>

\* packed::Transaction::commit(), if there is a packed transaction: write what
\* is merged and rename it into place, or remove the file if nothing is left.
CommitPacked(p) ==
    /\ pc[p] = "packed_commit"
    /\ lock[PackedRefs] = p /\ PackedEdits(p) # {} => HasFile(Merged(p)) \/ HasFile(packed)
    /\ packed' = IF lock[PackedRefs] = p /\ PackedEdits(p) # {} THEN Merged(p) ELSE packed
    /\ lock' = IF lock[PackedRefs] = p THEN [lock EXCEPT ![PackedRefs] = NoProc] ELSE lock
    /\ Goto(p, "delete_ref")
    /\ UNCHANGED <<loose, reflog, mode, edits, buffer, existing, runs, crashes>>

\* ... and the file to be removed is not there: an error.
NothingToRemove(p) ==
    /\ pc[p] = "packed_commit"
    /\ lock[PackedRefs] = p /\ PackedEdits(p) # {}
    /\ ~HasFile(Merged(p)) /\ ~HasFile(packed)
    /\ Leave(p)

\* Mutant: the loose file of a reference that is packed now stays.
RemovesDeleted(p, e) == ~e.only /\ ~IsUpdate(e)

\* Does commit() remove the loose file of this edit (take_lock_and_delete)?
RemovesLoose(p, e) == ~e.only /\ (~IsUpdate(e) \/ (Direct(p) /\ IsObjectUpdate(e)))

\* Third loop: remove the loose files of deleted references, and of updated
\* ones that are now in packed-refs; each lock is dropped after its file is gone.
DeleteRef(p) ==
    /\ pc[p] = "delete_ref"
    /\ LET e == Current(p)
       IN  IF RemovesLoose(p, e)
           THEN /\ loose' = [loose EXCEPT ![e.name] = NoRef]
                /\ lock' = IF lock[e.name] = p
                           THEN [lock EXCEPT ![e.name] = NoProc] ELSE lock
           ELSE UNCHANGED <<loose, lock>>
    /\ NextEdit(p, "delete_ref", "end")
    /\ UNCHANGED <<packed, reflog, mode, edits, buffer, existing, runs, crashes>>

Finish(p) == pc[p] = "end" /\ Leave(p)

-----------------------------------------------------------------------------
(* Failures                                                                 *)

\* Any file operation may fail; the error is returned and the rest is dropped.
IoError(p) ==
    /\ pc[p] \in {"packed_lock", "buffer", "snapshot", "buffer_lock", "refs", "reflog",
                  "update", "delete_reflog", "packed_commit", "delete_ref"}
    /\ Leave(p)

\* The process is killed, and leaves its lock files behind.
Crash(p) ==
    /\ pc[p] \in Preparing \cup Committing
    /\ crashes < MaxCrashes
    /\ crashes' = crashes + 1
    /\ pc' = [pc EXCEPT ![p] = "crashed"]
    /\ UNCHANGED <<loose, packed, lock, reflog, mode, edits, index, buffer, existing, runs>>

-----------------------------------------------------------------------------

Prepare(p) ==
    \/ SplitSymbolic(p) \/ SplitNot(p) \/ SplitFails(p) \/ Involved(p) \/ Path(p)
    \/ LockPacked(p) \/ BufferPacked(p) \/ Snapshot(p) \/ LockBuffer(p)
    \/ LockRef(p) \/ OutOfDate(p) \/ Busy(p)

CommitSteps(p) ==
    \/ AppendReflog(p) \/ UpdateRef(p) \/ DeleteReflog(p) \/ CommitPacked(p)
    \/ NothingToRemove(p) \/ DeleteRef(p) \/ Finish(p)

Step(p) == Prepare(p) \/ Commit(p) \/ Rollback(p) \/ CommitSteps(p)

Next == \E p \in Procs :
    \/ \E r \in Requests : Begin(p, r)
    \/ Step(p) \/ IoError(p) \/ Crash(p)

Spec == Init /\ [][Next]_vars

\* A process that is in a transaction keeps running: no step of it waits for
\* another process, as gix_lock gives up on a lock that stays taken, and a
\* prepared transaction is committed or dropped by its owner.
FairSpec == Spec /\ \A p \in Procs : WF_vars(Step(p))

-----------------------------------------------------------------------------
(* Properties                                                               *)

Active == Preparing \cup Committing

\* The type of the state.
TypeOK ==
    /\ loose \in [Names -> Values]
    /\ packed \in [Packable -> Oids \cup {NoRef}]
    /\ lock \in [Locks -> Procs \cup {NoProc}]
    /\ reflog \in [Names -> SUBSET Oids]
    /\ pc \in [Procs -> Stages]
    /\ mode \in [Procs -> Modes]
    /\ edits \in [Procs -> Seq(Edits)]
    /\ index \in [Procs -> Nat \ {0}]
    /\ buffer \in [Procs -> [Packable -> Oids \cup {NoRef}]]
    /\ existing \in [Procs -> Seq(Values)]
    /\ runs \in 0..MaxTransactions
    /\ crashes \in 0..MaxCrashes

\* Has p checked an edit of n?
Checked(p, n) ==
    \E i \in DOMAIN existing[p] : i <= Len(edits[p]) /\ edits[p][i].name = n

\* No lock file outlives its transaction, whichever way that ends short of the
\* process being killed: one that exists belongs to a process that has checked
\* the reference under it (prepare.rs, commit.rs: locks are dropped with their
\* Edit, with the packed transaction, or by being renamed).
LocksAccounted ==
    \A n \in Locks : lock[n] # NoProc =>
        /\ pc[lock[n]] \in Stages \ {"idle", "split", "involved", "path", "packed_lock",
                                     "snapshot", "buffer_lock"}
        /\ n \in Names => Checked(lock[n], n)

\* What p read under a lock that it still holds is still there; where there was
\* no loose file, the value came from the packed transaction's buffer.
FrozenOf(p) ==
    \A i \in DOMAIN existing[p] :
        LET n == edits[p][i].name IN
        lock[n] = p =>
            /\ loose[n] # NoRef => existing[p][i] = loose[n]
            /\ loose[n] = NoRef /\ pc[p] \notin {"delete_ref", "end", "crashed"} =>
                   existing[p][i] = Buffered(p, n)

\* A loose file changes only through the process that locked its reference
\* (lock_ref_and_apply_change() to commit()), so that what read_existing_ref()
\* returned stays true as long as the lock is held.
LooseFrozen == \A p \in Procs : FrozenOf(p)

\* read_existing_ref(): what an edit was checked against "cannot be changed
\* concurrently" while its lock is held.  Until the transaction commits the
\* reference still has that value, afterwards that one or the new one, and it
\* stays so if the process is killed.
CasStable ==
    \A p \in Procs : \A i \in DOMAIN existing[p] :
        LET e == edits[p][i] IN
        lock[e.name] = p =>
            \/ Visible(e.name) = existing[p][i]
            \/ pc[p] \in Committing \cup {"crashed"} /\ ~e.only /\ Visible(e.name) = e.new

\* "symbolic references identified by `name` will be dereferenced to have the
\* change applied to their target" (RefEdit::deref): when the symbolic reference
\* of a deletion is finally locked and read, it still points to the reference
\* that the edit was split into, or the transaction ends.  For an update nobody
\* looks again, and a commit may go to the branch HEAD pointed to before.
DeletionsFollow ==
    \A p \in Procs : \A j \in DOMAIN edits[p] :
        LET from == edits[p][j].ancestors IN
        \A i \in from \cap DOMAIN existing[p] :
            (\A k \in from : k <= i) /\ ~IsUpdate(edits[p][j]) => existing[p][i] = edits[p][j].name

\* Edits of one commit() appear no later than its locks are given up: when a
\* reference is unlocked without an error, readers see the edit's new value.
AppliedWhenReleased ==
    [][\A p \in Procs : \A i \in DOMAIN edits[p] : \A n \in Names, v \in Values :
          (/\ edits[p][i].name = n /\ edits[p][i].new = v /\ ~edits[p][i].only
           /\ pc[p] \in Committing
           /\ lock[n] = p /\ lock'[n] # p
           /\ pc'[p] # "idle" \/ pc[p] = "end")
          => Visible(n)' = v]_vars

\* "reflog first, then reference": a reference that is logged never shows an id
\* that is not in its log at that moment, whoever else runs and whatever fails.
ValuesAreLogged ==
    [][\A n \in AutoLog :
          Visible(n)' # Visible(n) /\ Visible(n)' \in Oids => Visible(n)' \in reflog'[n]]_vars

\* Only what the committing transaction edits changes in packed-refs; what other
\* processes put there stays.
PackedAsEdited ==
    [][\A n \in Packable : packed'[n] # packed[n] =>
          \E p \in Procs : /\ lock[PackedRefs] = p
                           /\ \E e \in EditsOf(p) : e.name = n /\ e.new = packed'[n]]_vars

\* Every transaction ends, also if two of them want each other's locks, or the
\* one that holds a lock was killed.
TransactionsEnd ==
    \A p \in Procs : pc[p] \in Active ~> pc[p] \in {"idle", "crashed"}

-----------------------------------------------------------------------------
(* The promise: module RefStore                                             *)

\* Edits that are locked and checked, and not yet to be seen by readers.
Claimed == UNION {
    {[proc |-> p, name |-> edits[p][i].name, was |-> existing[p][i], new |-> edits[p][i].new] :
        i \in {j \in DOMAIN existing[p] :
                  LET e == edits[p][j] IN
                  lock[e.name] = p /\ ~e.only /\ Visible(e.name) # e.new}} : p \in Procs}

Store == INSTANCE RefStore WITH value <- [n \in Names |-> Visible(n)], claims <- Claimed

\* Loose files, packed-refs and their locks implement compare-and-swap on each
\* reference: every change a reader can see is an edit that was checked against
\* the value it replaces, and nobody else got in between.
ImplementsStore == Store!Spec
=============================================================================
