------------------------ MODULE RefTransactionProofs ------------------------
(***************************************************************************)
(* Proofs about RefTransaction, for any number of processes, references and*)
(* object ids, any lists of edits, and any bounds on transactions and      *)
(* crashes: it is well typed, a step of a process leaves the transactions  *)
(* of the others alone, how far a transaction has come says which locks it *)
(* holds, what was read under a lock stays true, and what follows.         *)
(***************************************************************************)
EXTENDS RefTransaction, TLAPS

-----------------------------------------------------------------------------
(* Types and loop variables                                                 *)

Loops == {"split", "refs", "reflog", "update", "delete_reflog", "delete_ref"}

\* A loop variable points to an edit, and there is always one.
IndexOK ==
    \A p \in Procs :
        /\ pc[p] # "idle" => Len(edits[p]) > 0
        /\ pc[p] \in Loops => index[p] <= Len(edits[p])

Typed == TypeOK /\ IndexOK

\* What appending to a sequence does.
LEMMA Appended ==
    ASSUME NEW s \in Seq(Values), NEW x \in Values, NEW t, t = Append(s, x),
           NEW k, k = Len(s) + 1
    PROVE  /\ t \in Seq(Values) /\ Len(t) = k
           /\ DOMAIN t = DOMAIN s \cup {k} /\ k \notin DOMAIN s
           /\ t[k] = x
           /\ \A i \in DOMAIN s : t[i] = s[i]
  OBVIOUS

\* An element of a sequence of edits.
LEMMA CurrentIsEdit ==
    ASSUME Typed, NEW p \in Procs, pc[p] \in Loops
    PROVE  Current(p) \in Edits /\ index[p] \in DOMAIN edits[p]
  BY DEF Typed, TypeOK, IndexOK, Current

\* What is found for an edit.
LEMMA ReadExistingTyped ==
    ASSUME Typed, NEW p \in Procs, pc[p] = "refs"
    PROVE  ReadExisting(p, Current(p).name) \in Values
  <1>1. Current(p).name \in Names
    BY CurrentIsEdit DEF Loops, Edits
  <1> QED BY <1>1 DEF ReadExisting, Buffered, Typed, TypeOK, Values, Targets

\* Dropping a transaction.
LEMMA LeaveTyped ==
    ASSUME Typed, NEW p \in Procs, Leave(p)
    PROVE  Typed'
  <1>1. TypeOK'
    BY DEF Typed, TypeOK, Leave, Released, Stages, Modes, NoPacked, Locks
  <1>2. IndexOK'
    BY DEF Typed, TypeOK, IndexOK, Leave, Loops
  <1> QED BY <1>1, <1>2 DEF Typed

\* Going to the next stage.
LEMMA GotoTyped ==
    ASSUME Typed, NEW p \in Procs, pc[p] # "idle", NEW stage \in Stages, Goto(p, stage),
           UNCHANGED edits
    PROVE  /\ pc' \in [Procs -> Stages]
           /\ index' \in [Procs -> Nat \ {0}]
           /\ IndexOK'
  <1>1. pc \in [Procs -> Stages] /\ index \in [Procs -> Nat \ {0}] /\ Len(edits[p]) \in Nat
    BY DEF Typed, TypeOK
  <1> QED BY <1>1 DEF Typed, IndexOK, Goto

\* Going to the next edit, or to the next stage.
LEMMA NextEditTyped ==
    ASSUME Typed, NEW p \in Procs, pc[p] \in Loops,
           NEW loop \in Stages, NEW after \in Stages,
           NextEdit(p, loop, after),
           \A q \in Procs : Len(edits'[q]) = Len(edits[q])
    PROVE  /\ pc' \in [Procs -> Stages]
           /\ index' \in [Procs -> Nat \ {0}]
           /\ IndexOK'
  <1>1. /\ pc \in [Procs -> Stages] /\ index \in [Procs -> Nat \ {0}]
        /\ Len(edits[p]) \in Nat /\ index[p] <= Len(edits[p]) /\ index[p] \in Nat \ {0}
    BY DEF Typed, TypeOK, IndexOK
  <1>2. CASE index[p] < Len(edits[p])
    BY <1>1, <1>2 DEF NextEdit, Typed, IndexOK
  <1>3. CASE ~(index[p] < Len(edits[p]))
    BY SMTT(60), <1>1, <1>3 DEF NextEdit, Goto, Typed, IndexOK
  <1> QED BY <1>2, <1>3

LEMMA LoopStages == Loops \cup {"involved", "prepared", "packed_commit", "end"} \subseteq Stages
  BY DEF Loops, Stages

LEMMA NextEditGoes ==
    ASSUME Typed, NEW p \in Procs, NEW loop, NEW after, NextEdit(p, loop, after)
    PROVE  pc'[p] \in {loop, after}
  BY DEF Typed, TypeOK, NextEdit, Goto

LEMMA InitTyped == Init => Typed
  <1> SUFFICES ASSUME Init PROVE Typed
    OBVIOUS
  <1>1. TypeOK
    BY NamesAssumption, StoresAssumption, BoundsAssumption
    DEF Init, TypeOK, Stages, Modes, NoPacked, Visible, Locks
  <1>2. IndexOK
    BY DEF Init, IndexOK, Loops
  <1> QED BY <1>1, <1>2 DEF Typed

LEMMA NextTyped == Typed /\ [Next]_vars => Typed'
  <1> SUFFICES ASSUME Typed, [Next]_vars PROVE Typed'
    OBVIOUS
  <1> USE DEF Typed
  <1>1. CASE UNCHANGED vars
    BY <1>1 DEF vars, TypeOK, IndexOK
  <1>2. ASSUME NEW p \in Procs, NEW r \in Requests, Begin(p, r) PROVE Typed'
    <2>1. r.mode \in Modes /\ r.edits \in Seq(Edits) /\ r.edits # << >>
      BY RequestsAssumption
    <2>2. TypeOK'
      BY <1>2, <2>1, BoundsAssumption DEF Begin, Goto, TypeOK, Stages
    <2>3. Len(r.edits) > 0
      BY <2>1
    <2>4. IndexOK'
      BY <1>2, <2>1, <2>3 DEF Begin, Goto, TypeOK, IndexOK, Loops
    <2> QED BY <2>2, <2>4
  <1>3. ASSUME NEW p \in Procs, SplitSymbolic(p) PROVE Typed'
    <2>1. pc[p] \in Loops
      BY <1>3 DEF SplitSymbolic, Loops
    <2> DEFINE e == Current(p)
    <2> DEFINE i == index[p]
    <2>2. e \in Edits /\ i \in DOMAIN edits[p]
      BY <2>1, CurrentIsEdit
    <2>3. loose[e.name] \in Names
      BY <1>3 DEF SplitSymbolic, Splits
    <2>4. Parent(e) \in Edits
      BY Zenon, <2>2, <2>3 DEF Parent, Edits, Expectations, AnyValue, MustExistAndMatch, Values, Targets
    <2>5. Child(e, i) \in Edits
      <3>1. i \in Nat
        BY <2>2 DEF TypeOK
      <3>2. \A A \in SUBSET Nat : A \cup {i} \in SUBSET Nat
        BY Zenon, <3>1
      <3> QED BY Zenon, <2>2, <2>3, <3>2 DEF Child, Edits
    <2>6. [edits[p] EXCEPT ![i] = Parent(e)] \in Seq(Edits)
      BY <2>2, <2>4 DEF TypeOK
    <2>7. /\ Append([edits[p] EXCEPT ![i] = Parent(e)], Child(e, i)) \in Seq(Edits)
          /\ Len(Append([edits[p] EXCEPT ![i] = Parent(e)], Child(e, i))) = Len(edits[p]) + 1
      BY <2>2, <2>5, <2>6 DEF TypeOK
    <2>8. /\ edits' = [edits EXCEPT ![p] = Append([edits[p] EXCEPT ![i] = Parent(e)], Child(e, i))]
          /\ index' = [index EXCEPT ![p] = @ + 1]
          /\ UNCHANGED <<loose, packed, lock, reflog, pc, mode, buffer, existing, runs, crashes>>
      BY <1>3 DEF SplitSymbolic
    <2> HIDE DEF e, i
    <2>9. TypeOK'
      BY <2>7, <2>8 DEF TypeOK
    <2>10. IndexOK'
      BY <2>1, <2>7, <2>8 DEF TypeOK, IndexOK, Loops
    <2> QED BY <2>9, <2>10
  <1>4. ASSUME NEW p \in Procs, SplitNot(p) PROVE Typed'
    <2>1. pc[p] \in Loops
      BY <1>4 DEF SplitNot, Loops
    <2>2. edits[p][index[p]] \in Edits /\ index[p] \in DOMAIN edits[p]
      BY <2>1, CurrentIsEdit DEF Current
    <2>3. [edits[p][index[p]] EXCEPT !.deref = FALSE] \in Edits
      BY Zenon, <2>2 DEF Edits
    <2>4. edits' = [edits EXCEPT ![p] =
                      [edits[p] EXCEPT ![index[p]] = [edits[p][index[p]] EXCEPT !.deref = FALSE]]]
      BY <1>4 DEF SplitNot
    <2>5. /\ edits' \in [Procs -> Seq(Edits)]
          /\ \A q \in Procs : Len(edits'[q]) = Len(edits[q])
      BY <2>2, <2>3, <2>4 DEF TypeOK
    <2>6. NextEdit(p, "split", "involved")
      BY <1>4 DEF SplitNot
    <2>7. /\ pc' \in [Procs -> Stages]
          /\ index' \in [Procs -> Nat \ {0}]
          /\ IndexOK'
      <3>1. "split" \in Stages /\ "involved" \in Stages
        BY LoopStages DEF Loops
      <3> QED BY <2>1, <2>5, <2>6, <3>1, NextEditTyped
    <2> QED BY <1>4, <2>5, <2>7 DEF SplitNot, TypeOK
  <1>5. ASSUME NEW p \in Procs, SplitFails(p) \/ OutOfDate(p) \/ Busy(p) \/ Rollback(p)
                                \/ NothingToRemove(p) \/ Finish(p) \/ IoError(p)
        PROVE Typed'
    BY <1>5, LeaveTyped
    DEF SplitFails, OutOfDate, Busy, Rollback, NothingToRemove, Finish, IoError
  <1>6. ASSUME NEW p \in Procs, Involved(p) \/ Path(p) \/ Commit(p) PROVE Typed'
    <2>1. /\ pc[p] # "idle"
          /\ \E stage \in Stages : Goto(p, stage)
          /\ UNCHANGED <<loose, packed, lock, reflog, mode, edits, buffer, existing, runs, crashes>>
      BY <1>6 DEF Involved, Path, Commit, Stages
    <2> QED BY <2>1, GotoTyped DEF TypeOK
  <1>7. ASSUME NEW p \in Procs, LockPacked(p) \/ LockBuffer(p) PROVE Typed'
    <2>1. /\ pc[p] # "idle"
          /\ \E stage \in Stages : Goto(p, stage)
          /\ lock' = [lock EXCEPT ![PackedRefs] = p]
          /\ UNCHANGED <<loose, packed, reflog, mode, edits, buffer, existing, runs, crashes>>
      BY <1>7 DEF LockPacked, LockBuffer, TakePackedLock, Stages
    <2>2. pc' \in [Procs -> Stages] /\ index' \in [Procs -> Nat \ {0}] /\ IndexOK'
      BY <2>1, GotoTyped
    <2>3. lock' \in [Locks -> Procs \cup {NoProc}]
      BY Zenon, <2>1 DEF TypeOK
    <2> QED BY <2>1, <2>2, <2>3 DEF TypeOK
  <1>8. ASSUME NEW p \in Procs, BufferPacked(p) \/ Snapshot(p) PROVE Typed'
    <2>1. /\ pc[p] # "idle"
          /\ \E stage \in Stages : Goto(p, stage)
          /\ buffer' = [buffer EXCEPT ![p] = packed]
          /\ UNCHANGED <<loose, packed, lock, reflog, mode, edits, existing, runs, crashes>>
      BY <1>8 DEF BufferPacked, Snapshot, ReadPacked, Stages
    <2>2. pc' \in [Procs -> Stages] /\ index' \in [Procs -> Nat \ {0}] /\ IndexOK'
      BY <2>1, GotoTyped
    <2>3. buffer' \in [Procs -> [Packable -> Oids \cup {NoRef}]]
      BY <2>1 DEF TypeOK
    <2> QED BY <2>1, <2>2, <2>3 DEF TypeOK
  <1>9. ASSUME NEW p \in Procs, LockRef(p) PROVE Typed'
    <2>1. pc[p] \in Loops
      BY <1>9 DEF LockRef, Loops
    <2>3. Current(p).name \in Names
      BY <2>1, CurrentIsEdit DEF Edits
    <2>4. ReadExisting(p, Current(p).name) \in Values
      BY <1>9, ReadExistingTyped DEF LockRef
    <2>5. /\ existing' = [existing EXCEPT ![p] = Append(@, ReadExisting(p, Current(p).name))]
          /\ lock' = [lock EXCEPT ![Current(p).name] = p] \/ lock' = lock
          /\ NextEdit(p, "refs", "prepared")
          /\ UNCHANGED <<loose, packed, reflog, mode, edits, buffer, runs, crashes>>
      BY <1>9 DEF LockRef
    <2>6. /\ pc' \in [Procs -> Stages]
          /\ index' \in [Procs -> Nat \ {0}]
          /\ IndexOK'
      <3>1. "refs" \in Stages /\ "prepared" \in Stages
        BY LoopStages DEF Loops
      <3> QED BY <2>1, <2>5, <3>1, NextEditTyped
    <2>7. existing' \in [Procs -> Seq(Values)]
      BY <2>4, <2>5 DEF TypeOK
    <2>8. lock' \in [Locks -> Procs \cup {NoProc}]
      BY Zenon, <2>3, <2>5 DEF TypeOK, Locks
    <2> QED BY <2>5, <2>6, <2>7, <2>8 DEF TypeOK
  <1>10. ASSUME NEW p \in Procs, AppendReflog(p) PROVE Typed'
    <2>1. pc[p] \in Loops
      BY <1>10 DEF AppendReflog, Loops
    <2> DEFINE n == Current(p).name
    <2>2. n \in Names
      BY <2>1, CurrentIsEdit DEF Edits
    <2>3. LogEntries(p, index[p]) \in SUBSET Oids
      BY DEF LogEntries
    <2>4. UNCHANGED <<loose, packed, lock, mode, edits, buffer, existing, runs, crashes>>
      BY <1>10 DEF AppendReflog
    <2>5. CASE /\ reflog' = reflog \/ reflog' = [reflog EXCEPT ![n] = @ \cup LogEntries(p, index[p])]
               /\ pc' = [pc EXCEPT ![p] = "update"]
               /\ UNCHANGED index
      <3>0. reflog \in [Names -> SUBSET Oids]
        BY DEF TypeOK
      <3>1. reflog' \in [Names -> SUBSET Oids]
        BY Zenon, <2>2, <2>3, <2>5, <3>0
      <3> QED BY <2>1, <2>4, <2>5, <3>1 DEF TypeOK, IndexOK, Loops, Stages
    <2>6. CASE NextEdit(p, "reflog", "delete_reflog") /\ UNCHANGED reflog
      <3>1. /\ pc' \in [Procs -> Stages]
            /\ index' \in [Procs -> Nat \ {0}]
            /\ IndexOK'
        <4>1. "reflog" \in Stages /\ "delete_reflog" \in Stages
          BY LoopStages DEF Loops
        <4> QED BY <2>1, <2>4, <2>6, <4>1, NextEditTyped
      <3> QED BY <2>4, <2>6, <3>1 DEF TypeOK
    <2> QED BY <1>10, <2>5, <2>6 DEF AppendReflog
  <1>11. ASSUME NEW p \in Procs, UpdateRef(p) \/ DeleteRef(p) PROVE Typed'
    <2>1. pc[p] \in Loops
      BY <1>11 DEF UpdateRef, DeleteRef, Loops
    <2>2. Current(p).name \in Names /\ Current(p).new \in Values
      BY <2>1, CurrentIsEdit DEF Edits
    <2>3. /\ \/ loose' = loose
             \/ loose' = [loose EXCEPT ![Current(p).name] = Current(p).new]
             \/ loose' = [loose EXCEPT ![Current(p).name] = NoRef]
          /\ lock' = lock \/ lock' = [lock EXCEPT ![Current(p).name] = NoProc]
          /\ UNCHANGED <<packed, reflog, mode, edits, buffer, existing, runs, crashes>>
      BY <1>11 DEF UpdateRef, DeleteRef
    <2>4. \E loop, after \in Stages : NextEdit(p, loop, after)
      BY <1>11 DEF UpdateRef, DeleteRef, Stages
    <2>5. /\ pc' \in [Procs -> Stages]
          /\ index' \in [Procs -> Nat \ {0}]
          /\ IndexOK'
      BY <2>1, <2>3, <2>4, NextEditTyped
    <2>6. loose' \in [Names -> Values] /\ lock' \in [Locks -> Procs \cup {NoProc}]
      BY Zenon, <2>2, <2>3 DEF TypeOK, Values
    <2> QED BY <2>3, <2>5, <2>6 DEF TypeOK
  <1>12. ASSUME NEW p \in Procs, DeleteReflog(p) PROVE Typed'
    <2>1. pc[p] \in Loops
      BY <1>12 DEF DeleteReflog, Loops
    <2>2. /\ reflog' = reflog \/ reflog' = [reflog EXCEPT ![Current(p).name] = {}]
          /\ NextEdit(p, "delete_reflog", "packed_commit")
          /\ UNCHANGED <<loose, packed, lock, mode, edits, buffer, existing, runs, crashes>>
      BY <1>12 DEF DeleteReflog
    <2>3. /\ pc' \in [Procs -> Stages]
          /\ index' \in [Procs -> Nat \ {0}]
          /\ IndexOK'
      <3>1. "delete_reflog" \in Stages /\ "packed_commit" \in Stages
        BY LoopStages DEF Loops
      <3> QED BY <2>1, <2>2, <3>1, NextEditTyped
    <2>4. reflog' \in [Names -> SUBSET Oids]
      BY Zenon, <2>2 DEF TypeOK
    <2> QED BY <2>2, <2>3, <2>4 DEF TypeOK
  <1>13. ASSUME NEW p \in Procs, CommitPacked(p) PROVE Typed'
    <2>1. /\ pc[p] # "idle"
          /\ Goto(p, "delete_ref")
          /\ packed' = packed \/ packed' = Merged(p)
          /\ lock' = lock \/ lock' = [lock EXCEPT ![PackedRefs] = NoProc]
          /\ UNCHANGED <<loose, reflog, mode, edits, buffer, existing, runs, crashes>>
      BY <1>13 DEF CommitPacked
    <2>2. Merged(p) \in [Packable -> Oids \cup {NoRef}]
      BY DEF TypeOK, Merged, PackedEdits, Propagated, IsUpdate, IsObjectUpdate
    <2>3. /\ pc' \in [Procs -> Stages]
          /\ index' \in [Procs -> Nat \ {0}]
          /\ IndexOK'
      BY <2>1, GotoTyped DEF Stages
    <2>4. packed' \in [Packable -> Oids \cup {NoRef}] /\ lock' \in [Locks -> Procs \cup {NoProc}]
      BY <2>1, <2>2 DEF TypeOK
    <2> QED BY <2>1, <2>3, <2>4 DEF TypeOK
  <1>14. ASSUME NEW p \in Procs, Crash(p) PROVE Typed'
    BY <1>14, BoundsAssumption DEF Crash, TypeOK, IndexOK, Stages, Preparing, Committing, Loops
  <1> QED
    BY <1>1, <1>2, <1>3, <1>4, <1>5, <1>6, <1>7, <1>8, <1>9, <1>10, <1>11, <1>12, <1>13, <1>14
    DEF Next, Step, Prepare, CommitSteps

\* The state always has its type, whatever the processes do and however they fail.
THEOREM TypeCorrect == Spec => []TypeOK
  <1>1. Init => Typed
    BY InitTyped
  <1>2. Typed /\ [Next]_vars => Typed'
    BY NextTyped
  <1>3. Typed => TypeOK
    BY DEF Typed
  <1> QED BY <1>1, <1>2, <1>3, PTL DEF Spec

-----------------------------------------------------------------------------
(* A process works on its own transaction only                              *)

ProcStep(p) == (\E r \in Requests : Begin(p, r)) \/ Step(p) \/ IoError(p) \/ Crash(p)

\* Everything that ends a transaction early, or at its end, drops it.
LEMMA Leaves ==
    ASSUME NEW p \in Procs
    PROVE  SplitFails(p) \/ OutOfDate(p) \/ Busy(p) \/ Rollback(p) \/ NothingToRemove(p)
           \/ Finish(p) \/ IoError(p) => Leave(p)
  <1>1. SplitFails(p) => Leave(p)
    BY DEF SplitFails
  <1>2. OutOfDate(p) => Leave(p)
    BY DEF OutOfDate
  <1>3. Busy(p) => Leave(p)
    BY DEF Busy
  <1>4. Rollback(p) \/ NothingToRemove(p) \/ Finish(p) \/ IoError(p) => Leave(p)
    BY DEF Rollback, NothingToRemove, Finish, IoError
  <1> QED BY <1>1, <1>2, <1>3, <1>4

LEMMA Kinds ==
    ASSUME NEW p \in Procs, ProcStep(p)
    PROVE  \/ \E r \in Requests : Begin(p, r)
           \/ Leave(p)
           \/ SplitSymbolic(p) \/ SplitNot(p) \/ Involved(p) \/ Path(p)
           \/ LockPacked(p) \/ LockBuffer(p) \/ BufferPacked(p) \/ Snapshot(p)
           \/ LockRef(p) \/ Commit(p)
           \/ AppendReflog(p) \/ UpdateRef(p) \/ DeleteReflog(p) \/ DeleteRef(p)
           \/ CommitPacked(p) \/ Crash(p)
  BY Leaves DEF ProcStep, Step, Prepare, CommitSteps

Untouched(q) ==
    /\ pc'[q] = pc[q] /\ mode'[q] = mode[q] /\ edits'[q] = edits[q]
    /\ index'[q] = index[q] /\ buffer'[q] = buffer[q] /\ existing'[q] = existing[q]

LEMMA Locality ==
    ASSUME Typed, NEW p \in Procs, ProcStep(p), NEW q \in Procs, q # p
    PROVE  Untouched(q)
  <1> USE DEF Untouched
  <1>0. /\ pc \in [Procs -> Stages] /\ mode \in [Procs -> Modes]
        /\ edits \in [Procs -> Seq(Edits)] /\ index \in [Procs -> Nat \ {0}]
        /\ buffer \in [Procs -> [Packable -> Oids \cup {NoRef}]]
        /\ existing \in [Procs -> Seq(Values)]
    BY DEF Typed, TypeOK
  <1>1. CASE \E r \in Requests : Begin(p, r)
    BY <1>0, <1>1 DEF Begin, Goto
  <1>2. CASE Leave(p)
    BY <1>0, <1>2 DEF Leave
  <1>3. CASE SplitSymbolic(p) \/ SplitNot(p)
    BY <1>0, <1>3 DEF SplitSymbolic, SplitNot, NextEdit, Goto
  <1>4. CASE Involved(p) \/ Path(p) \/ Commit(p)
    BY <1>0, <1>4 DEF Involved, Path, Commit, Goto
  <1>5. CASE LockPacked(p) \/ LockBuffer(p) \/ BufferPacked(p) \/ Snapshot(p)
    BY <1>0, <1>5
    DEF LockPacked, LockBuffer, BufferPacked, Snapshot, TakePackedLock, ReadPacked, Goto
  <1>6. CASE LockRef(p)
    BY ZenonT(60), <1>0, <1>6 DEF LockRef, NextEdit, Goto
  <1>7. CASE AppendReflog(p) \/ UpdateRef(p) \/ DeleteReflog(p) \/ DeleteRef(p)
    BY <1>0, <1>7 DEF AppendReflog, UpdateRef, DeleteReflog, DeleteRef, NextEdit, Goto
  <1>8. CASE CommitPacked(p)
    BY <1>0, <1>8 DEF CommitPacked, Goto
  <1>9. CASE Crash(p)
    BY <1>0, <1>9 DEF Crash
  <1> HIDE DEF Untouched
  <1> QED
    BY <1>1, <1>2, <1>3, <1>4, <1>5, <1>6, <1>7, <1>8, <1>9, Kinds

-----------------------------------------------------------------------------
(* How far a transaction has come                                           *)

BeforeRefs == {"idle", "split", "involved", "path", "packed_lock", "buffer", "snapshot",
               "buffer_lock"}
AfterRefs == {"prepared"} \cup Committing

\* Edits are checked in order, and have different names once they are.
ProgressOf(p) ==
    /\ Len(existing[p]) <= Len(edits[p])
    /\ pc[p] \in BeforeRefs => existing[p] = << >>
    /\ pc[p] = "refs" => Len(existing[p]) = index[p] - 1
    /\ pc[p] \in AfterRefs => Len(existing[p]) = Len(edits[p])
    /\ pc[p] = "update" => IsUpdate(edits[p][index[p]])
    /\ \/ pc[p] \in {"idle", "split"}
       \/ pc[p] = "crashed" /\ existing[p] = << >>
       \/ UniqueNames(edits[p])

Progress == \A p \in Procs : ProgressOf(p)

LEMMA InitProgress == Init => Progress
  BY DEF Init, Progress, ProgressOf, AfterRefs, Committing

\* The stages of commit() keep what prepare() has checked.
LEMMA LateProgress ==
    ASSUME NEW p \in Procs, ProgressOf(p), UNCHANGED <<edits, existing>>,
           pc[p] \in AfterRefs,
           \/ pc'[p] \in {"reflog", "delete_reflog", "packed_commit", "delete_ref", "end"}
           \/ pc'[p] = "update" /\ index' = index /\ IsUpdate(edits[p][index[p]])
    PROVE  ProgressOf(p)'
  <1>1. /\ Len(existing[p]) <= Len(edits[p]) /\ Len(existing[p]) = Len(edits[p])
        /\ UniqueNames(edits[p])
    BY DEF ProgressOf, AfterRefs, Committing
  <1> QED BY <1>1 DEF ProgressOf, BeforeRefs, IsUpdate

LEMMA NextProgress ==
    ASSUME Typed, Progress, NEW p \in Procs, ProcStep(p)
    PROVE  Progress'
  <1>0. ASSUME NEW q \in Procs, q # p PROVE ProgressOf(q)'
    <2>1. Untouched(q)
      BY <1>0, Locality
    <2>2. ProgressOf(q)
      BY DEF Progress
    <2> QED BY <2>1, <2>2 DEF ProgressOf, Untouched, UniqueNames, IsUpdate
  <1> SUFFICES ProgressOf(p)'
    BY <1>0 DEF Progress
  <1>A. /\ pc \in [Procs -> Stages] /\ edits \in [Procs -> Seq(Edits)]
        /\ index \in [Procs -> Nat \ {0}] /\ existing \in [Procs -> Seq(Values)]
        /\ Len(edits[p]) \in Nat /\ Len(existing[p]) \in Nat /\ index[p] \in Nat \ {0}
        /\ ProgressOf(p)
    BY DEF Typed, TypeOK, Progress
  <1>T. pc \in [Procs -> Stages]
    BY DEF Typed, TypeOK
  <1>C. ProgressOf(p)
    BY DEF Progress
  <1>B. pc[p] \in Loops => index[p] <= Len(edits[p])
    BY DEF Typed, IndexOK
  <1>1. CASE \E r \in Requests : Begin(p, r)
    <2>1. PICK r \in Requests : Begin(p, r)
      BY <1>1
    <2>2. r.edits \in Seq(Edits)
      BY RequestsAssumption
    <2> QED BY <1>A, <2>1, <2>2 DEF Begin, Goto, ProgressOf, BeforeRefs, AfterRefs, Committing
  <1>2. CASE Leave(p)
    BY <1>A, <1>2 DEF Leave, ProgressOf, BeforeRefs, AfterRefs, Committing
  <1>3. CASE SplitSymbolic(p)
    <2>1. existing[p] = << >> /\ pc'[p] = "split" /\ existing'[p] = << >>
      BY <1>A, <1>3 DEF SplitSymbolic, ProgressOf, BeforeRefs
    <2>2. edits' \in [Procs -> Seq(Edits)]
      BY <1>3, NextTyped DEF Typed, TypeOK, Next, Step, Prepare
    <2> QED BY <2>1, <2>2 DEF ProgressOf, BeforeRefs, AfterRefs, Committing
  <1>4. CASE SplitNot(p)
    <2>1. existing[p] = << >> /\ pc'[p] \in {"split", "involved"} /\ existing'[p] = << >>
      BY <1>A, <1>4 DEF SplitNot, NextEdit, Goto, ProgressOf, BeforeRefs
    <2>2. edits' \in [Procs -> Seq(Edits)]
      BY <1>4, NextTyped DEF Typed, TypeOK, Next, Step, Prepare
    <2>3. \A i \in DOMAIN edits[p] : edits'[p][i].name = edits[p][i].name
      <3>1. index[p] \in DOMAIN edits[p] /\ edits[p][index[p]] \in Edits
        BY <1>4, CurrentIsEdit DEF SplitNot, Loops, Current
      <3> QED BY <1>A, <1>4, <3>1 DEF SplitNot, Edits
    <2>4. DOMAIN edits'[p] = DOMAIN edits[p]
      BY <1>A, <1>4 DEF SplitNot
    <2>5. pc'[p] = "involved" => UniqueNames(edits[p])
      BY <1>A, <1>B, <1>4 DEF SplitNot, NextEdit, Goto, Loops
    <2>6. pc'[p] = "involved" => UniqueNames(edits'[p])
      BY <2>3, <2>4, <2>5 DEF UniqueNames
    <2> QED BY <2>1, <2>2, <2>6 DEF ProgressOf, BeforeRefs, AfterRefs, Committing
  <1>5. CASE Involved(p) \/ Path(p) \/ Commit(p)
    BY <1>A, <1>5 DEF Involved, Path, Commit, Goto, ProgressOf, BeforeRefs, AfterRefs, Committing
  <1>6. CASE LockPacked(p) \/ LockBuffer(p) \/ BufferPacked(p) \/ Snapshot(p)
    BY <1>A, <1>6
    DEF LockPacked, LockBuffer, BufferPacked, Snapshot, TakePackedLock, ReadPacked, Goto,
        ProgressOf, BeforeRefs, AfterRefs, Committing
  <1>7. CASE LockRef(p)
    <2>1. existing'[p] = Append(existing[p], ReadExisting(p, Current(p).name))
      BY <1>A, <1>7 DEF LockRef
    <2>2. Len(existing'[p]) = Len(existing[p]) + 1
      <3>1. ReadExisting(p, Current(p).name) \in Values
        BY <1>7, ReadExistingTyped DEF LockRef
      <3> QED BY <1>A, <2>1, <3>1
    <2>3. pc[p] = "refs" /\ NextEdit(p, "refs", "prepared") /\ edits' = edits
      BY <1>7 DEF LockRef
    <2>4. index[p] <= Len(edits[p])
      BY <1>B, <2>3 DEF Loops
    <2>5. \/ index[p] < Len(edits[p]) /\ pc'[p] = "refs" /\ index'[p] = index[p] + 1
          \/ index[p] = Len(edits[p]) /\ pc'[p] = "prepared"
      BY <1>A, <2>3, <2>4 DEF NextEdit, Goto
    <2> QED BY <1>A, <2>2, <2>3, <2>4, <2>5 DEF ProgressOf, BeforeRefs, AfterRefs, Committing
  <1>8. CASE AppendReflog(p) \/ UpdateRef(p) \/ DeleteReflog(p) \/ DeleteRef(p)
    <2>1. /\ edits' = edits /\ existing' = existing
          /\ pc[p] \in {"reflog", "update", "delete_reflog", "delete_ref"}
      BY <1>8 DEF AppendReflog, UpdateRef, DeleteReflog, DeleteRef
    <2>2. \/ pc'[p] \in {"reflog", "delete_reflog", "packed_commit", "delete_ref", "end"}
          \/ pc'[p] = "update" /\ index' = index /\ IsUpdate(edits[p][index[p]])
      <3>1. CASE AppendReflog(p)
        <4>1. CASE IsUpdate(Current(p))
          BY <1>T, <3>1, <4>1 DEF AppendReflog, Current
        <4>2. CASE ~IsUpdate(Current(p))
          BY <3>1, <4>2, NextEditGoes DEF AppendReflog
        <4> QED BY <4>1, <4>2
      <3>2. CASE UpdateRef(p)
        BY <3>2, NextEditGoes DEF UpdateRef
      <3>3. CASE DeleteReflog(p)
        BY <3>3, NextEditGoes DEF DeleteReflog
      <3>4. CASE DeleteRef(p)
        BY <3>4, NextEditGoes DEF DeleteRef
      <3> QED BY <1>8, <3>1, <3>2, <3>3, <3>4
    <2> QED BY <1>C, <2>1, <2>2, LateProgress DEF AfterRefs, Committing
  <1>9. CASE CommitPacked(p)
    <2>1. /\ edits' = edits /\ existing' = existing
          /\ pc[p] = "packed_commit" /\ pc'[p] = "delete_ref"
      BY <1>T, <1>9 DEF CommitPacked, Goto
    <2> QED BY <1>C, <2>1, LateProgress DEF AfterRefs, Committing
  <1>10. CASE Crash(p)
    <2>1. edits' = edits /\ existing' = existing /\ pc'[p] = "crashed" /\ pc[p] \in Preparing \cup Committing
      BY <1>T, <1>10 DEF Crash
    <2> QED BY <1>C, <2>1 DEF Preparing, ProgressOf, BeforeRefs, AfterRefs, Committing
  <1> QED
    BY <1>1, <1>2, <1>3, <1>4, <1>5, <1>6, <1>7, <1>8, <1>9, <1>10, Kinds

-----------------------------------------------------------------------------
(* Who holds which lock                                                     *)

\* LockRef checks the next edit.
LEMMA LockRefChecks ==
    ASSUME Typed, Progress, NEW p \in Procs, LockRef(p)
    PROVE  LET found == ReadExisting(p, Current(p).name) IN
           /\ pc[p] = "refs" /\ found \in Values /\ Current(p).name \in Names
           /\ index[p] \in DOMAIN edits[p]
           /\ existing'[p] \in Seq(Values) /\ Len(existing'[p]) = index[p]
           /\ DOMAIN existing'[p] = DOMAIN existing[p] \cup {index[p]}
           /\ index[p] \notin DOMAIN existing[p]
           /\ existing'[p][index[p]] = found
           /\ \A i \in DOMAIN existing[p] : existing'[p][i] = existing[p][i]
  <1>1. pc[p] = "refs"
    BY DEF LockRef
  <1>2. ReadExisting(p, Current(p).name) \in Values
    BY <1>1, ReadExistingTyped
  <1>3. Current(p).name \in Names /\ index[p] \in DOMAIN edits[p]
    BY <1>1, CurrentIsEdit DEF Loops, Edits
  <1>4. Len(existing[p]) = index[p] - 1
    BY <1>1 DEF Progress, ProgressOf
  <1>5. existing[p] \in Seq(Values) /\ index[p] \in Nat \ {0}
    BY DEF Typed, TypeOK
  <1>6. index[p] = Len(existing[p]) + 1
    BY <1>4, <1>5
  <1>7. existing'[p] = Append(existing[p], ReadExisting(p, Current(p).name))
    BY DEF LockRef, Typed, TypeOK
  <1> QED BY <1>1, <1>2, <1>3, <1>5, <1>6, <1>7, Appended

\* A process takes locks that are free, and gives up locks of its own.
LEMMA LocksOwned ==
    ASSUME Typed, NEW p \in Procs, ProcStep(p), NEW n \in Locks
    PROVE  \/ lock'[n] = lock[n]
           \/ lock[n] = NoProc /\ lock'[n] = p
           \/ lock[n] = p /\ lock'[n] = NoProc
  <1>0. lock \in [Locks -> Procs \cup {NoProc}]
    BY DEF Typed, TypeOK
  <1>1. CASE UNCHANGED lock
    BY <1>1
  <1>2. CASE Leave(p)
    BY <1>0, <1>2 DEF Leave, Released
  <1>3. CASE LockPacked(p) \/ LockBuffer(p)
    BY <1>0, <1>3 DEF LockPacked, LockBuffer, TakePackedLock
  <1>4. CASE LockRef(p)
    BY <1>0, <1>4 DEF LockRef
  <1>5. CASE UpdateRef(p) \/ DeleteRef(p)
    BY <1>0, <1>5 DEF UpdateRef, DeleteRef
  <1>6. CASE CommitPacked(p)
    BY <1>0, <1>6 DEF CommitPacked
  <1>7. /\ (\E r \in Requests : Begin(p, r)) => UNCHANGED lock
        /\ SplitSymbolic(p) \/ SplitNot(p) \/ Involved(p) \/ Path(p) => UNCHANGED lock
        /\ BufferPacked(p) \/ Snapshot(p) \/ Commit(p) => UNCHANGED lock
        /\ AppendReflog(p) \/ DeleteReflog(p) \/ Crash(p) => UNCHANGED lock
    BY DEF Begin, SplitSymbolic, SplitNot, Involved, Path, BufferPacked, Snapshot, ReadPacked,
           Commit, AppendReflog, DeleteReflog, Crash
  <1> QED
    BY <1>1, <1>2, <1>3, <1>4, <1>5, <1>6, <1>7, Kinds

LEMMA OthersLocks ==
    ASSUME Typed, NEW p \in Procs, ProcStep(p), NEW q \in Procs, q # p, NEW n \in Locks
    PROVE  lock'[n] = q <=> lock[n] = q
  BY LocksOwned, NamesAssumption

AccountedOf(p) ==
    \A n \in Locks : lock[n] = p =>
        /\ pc[p] \notin {"idle", "split", "involved", "path", "packed_lock", "snapshot",
                         "buffer_lock"}
        /\ n \in Names => Checked(p, n)

LEMMA Accounted ==
    ASSUME Typed
    PROVE  LocksAccounted <=> \A p \in Procs : AccountedOf(p)
  <1>1. lock \in [Locks -> Procs \cup {NoProc}] /\ pc \in [Procs -> Stages]
    BY DEF Typed, TypeOK
  <1>2. ASSUME LocksAccounted, NEW p \in Procs PROVE AccountedOf(p)
    BY <1>2, NamesAssumption DEF LocksAccounted, AccountedOf
  <1>3. ASSUME \A p \in Procs : AccountedOf(p), NEW n \in Locks, lock[n] # NoProc
        PROVE  /\ pc[lock[n]] \in Stages \ {"idle", "split", "involved", "path", "packed_lock",
                                             "snapshot", "buffer_lock"}
               /\ n \in Names => Checked(lock[n], n)
    <2>1. PICK p \in Procs : lock[n] = p
      BY <1>1, <1>3
    <2>2. AccountedOf(p)
      BY <1>3
    <2> QED BY <1>1, <2>1, <2>2 DEF AccountedOf
  <1> QED BY <1>2, <1>3 DEF LocksAccounted

\* The loops of commit() leave the lists alone, and give up locks.
LEMMA GivesUp ==
    ASSUME NEW p \in Procs, AppendReflog(p) \/ UpdateRef(p) \/ DeleteReflog(p) \/ DeleteRef(p)
    PROVE  /\ lock' = lock \/ lock' = [lock EXCEPT ![Current(p).name] = NoProc]
           /\ edits' = edits /\ existing' = existing
  <1>1. CASE AppendReflog(p) \/ DeleteReflog(p)
    BY <1>1 DEF AppendReflog, DeleteReflog
  <1>2. CASE UpdateRef(p)
    BY <1>2 DEF UpdateRef
  <1>3. CASE DeleteRef(p)
    BY <1>3 DEF DeleteRef
  <1> QED BY ZenonT(60), <1>1, <1>2, <1>3

LEMMA NextAccounted ==
    ASSUME Typed, Typed', Progress, \A q \in Procs : AccountedOf(q), NEW p \in Procs, ProcStep(p)
    PROVE  \A q \in Procs : AccountedOf(q)'
  <1>0. ASSUME NEW q \in Procs, q # p PROVE AccountedOf(q)'
    <2>1. Untouched(q) /\ AccountedOf(q)
      BY <1>0, Locality
    <2>2. \A n \in Locks : lock'[n] = q <=> lock[n] = q
      BY <1>0, OthersLocks
    <2>3. pc'[q] = pc[q] /\ \A n : Checked(q, n)' <=> Checked(q, n)
      BY <2>1 DEF Checked, Untouched
    <2> QED BY <2>1, <2>2, <2>3 DEF AccountedOf
  <1> SUFFICES AccountedOf(p)'
    BY <1>0
  <1> USE DEF AccountedOf
  <1>A. /\ pc \in [Procs -> Stages] /\ edits \in [Procs -> Seq(Edits)]
        /\ index \in [Procs -> Nat \ {0}] /\ existing \in [Procs -> Seq(Values)]
        /\ lock \in [Locks -> Procs \cup {NoProc}]
        /\ Len(edits[p]) \in Nat /\ Len(existing[p]) \in Nat /\ index[p] \in Nat \ {0}
        /\ AccountedOf(p) /\ ProgressOf(p)
    BY DEF Typed, TypeOK, Progress
  <1>1. CASE \E r \in Requests : Begin(p, r)
    BY <1>A, <1>1 DEF Begin, Goto
  <1>2. CASE Leave(p)
    BY <1>A, <1>2, NamesAssumption DEF Leave, Released
  <1>3. CASE SplitSymbolic(p) \/ SplitNot(p) \/ Involved(p) \/ Path(p) \/ Snapshot(p)
    <2>1. pc[p] \in {"split", "involved", "path", "snapshot"} /\ lock' = lock
      BY <1>3 DEF SplitSymbolic, SplitNot, Involved, Path, Snapshot, ReadPacked
    <2> QED BY <1>A, <2>1
  <1>4. CASE LockPacked(p) \/ LockBuffer(p)
    <2>1. /\ \A n \in Names : lock[n] # p
          /\ lock' = [lock EXCEPT ![PackedRefs] = p]
          /\ pc'[p] \in {"buffer", "refs"}
      BY <1>A, <1>4 DEF LockPacked, LockBuffer, TakePackedLock, Goto, Locks
    <2>2. \A n \in Names : lock'[n] # p
      BY <1>A, <2>1, NamesAssumption DEF Locks
    <2> QED BY <2>1, <2>2
  <1>5. CASE BufferPacked(p) \/ Commit(p)
    <2>1. /\ lock' = lock /\ edits' = edits /\ existing' = existing
          /\ pc'[p] \in {"refs", "reflog"}
      BY ZenonT(60), <1>A, <1>5 DEF BufferPacked, ReadPacked, Commit, Goto
    <2> QED BY <1>A, <2>1 DEF Checked
  <1>6. CASE LockRef(p)
    <2>0. PICK n \in Names : n = Current(p).name
      BY ZenonT(60), <1>6, LockRefChecks
    <2>1. /\ lock' = lock \/ lock' = [lock EXCEPT ![n] = p]
          /\ edits' = edits
          /\ pc[p] = "refs"
          /\ NextEdit(p, "refs", "prepared")
      BY <1>6, <2>0 DEF LockRef
    <2>2. pc'[p] \in {"refs", "prepared"}
      BY ZenonT(60), <1>A, <2>1 DEF NextEdit, Goto
    <2>3. /\ index[p] \in DOMAIN edits[p] /\ index[p] \in DOMAIN existing'[p]
          /\ DOMAIN existing[p] \subseteq DOMAIN existing'[p]
      BY <1>6, LockRefChecks
    <2>4. index[p] <= Len(edits[p]) /\ edits'[p][index[p]].name = n
      BY <1>A, <2>0, <2>1, <2>3 DEF Current
    <2>5. \A m \in Names : lock'[m] = p => m = n \/ lock[m] = p
      BY <1>A, <2>1 DEF Locks
    <2>6. Checked(p, n)'
      BY <2>1, <2>3, <2>4 DEF Checked
    <2>7. ASSUME NEW m \in Names, lock[m] = p PROVE Checked(p, m)'
      <3>1. Checked(p, m)
        BY <1>A, <2>7 DEF Locks
      <3> QED BY <2>1, <2>3, <3>1 DEF Checked
    <2>8. \A m \in Names : lock'[m] = p => Checked(p, m)'
      BY ZenonT(60), <2>5, <2>6, <2>7
    <2> QED BY <2>2, <2>8
  <1>7. CASE AppendReflog(p) \/ UpdateRef(p) \/ DeleteReflog(p) \/ DeleteRef(p)
    <2>1. /\ \A n \in Locks : lock'[n] = p => lock[n] = p
          /\ pc'[p] \in {"reflog", "update", "delete_reflog", "packed_commit", "delete_ref", "end"}
          /\ edits' = edits /\ existing' = existing
      <3>1. lock' = lock \/ lock' = [lock EXCEPT ![Current(p).name] = NoProc]
        BY <1>7, GivesUp
      <3>2. \A n \in Locks : lock'[n] = p => lock[n] = p
        BY <1>A, <3>1, NamesAssumption
      <3>3. edits' = edits /\ existing' = existing
        BY ZenonT(60), <1>7, GivesUp
      <3>4. \E stage \in {"reflog", "update", "delete_reflog", "packed_commit", "delete_ref", "end"} :
               pc' = [pc EXCEPT ![p] = stage]
        BY <1>7 DEF AppendReflog, UpdateRef, DeleteReflog, DeleteRef, NextEdit, Goto
      <3>5. pc'[p] \in {"reflog", "update", "delete_reflog", "packed_commit", "delete_ref", "end"}
        BY ZenonT(60), <1>A, <3>4
      <3> QED BY <3>2, <3>3, <3>5
    <2> QED BY ZenonT(60), <1>A, <2>1 DEF Checked
  <1>8. CASE CommitPacked(p)
    <2>1. \A n \in Locks : lock'[n] = p => lock[n] = p
      BY <1>A, <1>8, NamesAssumption DEF CommitPacked
    <2>2. edits' = edits /\ existing' = existing /\ pc'[p] \in {"delete_ref", "end"}
      BY <1>A, <1>8 DEF CommitPacked, Goto
    <2> QED BY <1>A, <2>1, <2>2 DEF Checked
  <1>9. CASE Crash(p)
    BY <1>A, <1>9 DEF Crash, Checked
  <1> HIDE DEF AccountedOf
  <1> QED
    BY ZenonT(60), <1>1, <1>2, <1>3, <1>4, <1>5, <1>6, <1>7, <1>8, <1>9, Kinds

\* Edits of one transaction that are checked have different names.
LEMMA DifferentNames ==
    ASSUME Typed, Progress, NEW p \in Procs, NEW i \in DOMAIN existing[p], NEW j \in DOMAIN edits[p],
           edits[p][i].name = edits[p][j].name
    PROVE  i = j
  <1>1. existing[p] # << >> /\ i \in DOMAIN edits[p]
    BY DEF Typed, TypeOK, Progress, ProgressOf
  <1>2. UniqueNames(edits[p])
    BY <1>1 DEF Progress, ProgressOf, BeforeRefs
  <1> QED BY <1>1, <1>2 DEF UniqueNames

LEMMA CheckedIsEdit ==
    ASSUME Typed, Progress, NEW p \in Procs, NEW i \in DOMAIN existing[p]
    PROVE  i \in DOMAIN edits[p] /\ edits[p][i] \in Edits /\ edits[p][i].name \in Names
  <1>1. i \in DOMAIN edits[p]
    BY DEF Typed, TypeOK, Progress, ProgressOf
  <1>2. edits[p][i] \in Edits
    BY <1>1 DEF Typed, TypeOK
  <1> QED BY <1>1, <1>2 DEF Edits

\* Before the references are looked at, and after a transaction, nothing is checked.
EarlyStep(p) ==
    \/ \E r \in Requests : Begin(p, r)
    \/ Leave(p) \/ SplitSymbolic(p) \/ SplitNot(p) \/ Involved(p) \/ Path(p)
    \/ LockPacked(p) \/ LockBuffer(p) \/ BufferPacked(p) \/ Snapshot(p)

LEMMA EarlySteps ==
    ASSUME Typed, Progress, NEW p \in Procs, EarlyStep(p)
    PROVE  existing'[p] = << >>
  <1>1. existing \in [Procs -> Seq(Values)] /\ ProgressOf(p)
    BY DEF Typed, TypeOK, Progress
  <1>2. CASE Leave(p)
    BY ZenonT(60), <1>1, <1>2 DEF Leave
  <1>3. CASE ~Leave(p)
    <2>1. pc[p] \in BeforeRefs /\ UNCHANGED existing
      BY <1>3
      DEF EarlyStep, Begin, SplitSymbolic, SplitNot, Involved, Path, LockPacked, LockBuffer,
          BufferPacked, Snapshot, TakePackedLock, ReadPacked, BeforeRefs
    <2> QED BY <1>1, <2>1 DEF ProgressOf
  <1> QED BY <1>2, <1>3

\* The steps of a process, by what they do to the edits that were checked.
LEMMA StepKinds ==
    ASSUME NEW p \in Procs, ProcStep(p)
    PROVE  \/ EarlyStep(p) \/ LockRef(p) \/ Commit(p) \/ AppendReflog(p) \/ DeleteReflog(p)
           \/ CommitPacked(p) \/ UpdateRef(p) \/ DeleteRef(p) \/ Crash(p)
  BY Kinds DEF EarlyStep

\* A reference whose loose file is going to be removed stays locked until then.
HeldOf(p) ==
    pc[p] \in {"refs"} \cup (AfterRefs \ {"end"}) =>
        \A i \in DOMAIN existing[p] :
            RemovesLoose(p, edits[p][i]) /\ (pc[p] = "delete_ref" => i >= index[p]) =>
                lock[edits[p][i].name] = p

Held == \A p \in Procs : HeldOf(p)

LEMMA NextHeld ==
    ASSUME Typed, Progress, Held, NEW p \in Procs, ProcStep(p)
    PROVE  Held'
  <1>0. ASSUME NEW q \in Procs, q # p PROVE HeldOf(q)'
    <2>1. Untouched(q)
      BY <1>0, Locality
    <2>2. HeldOf(q)
      BY DEF Held
    <2>3. \A i \in DOMAIN existing[q] : lock[edits[q][i].name] = q => lock'[edits[q][i].name] = q
      BY <1>0, CheckedIsEdit, OthersLocks DEF Locks
    <2>4. /\ pc'[q] = pc[q] /\ index'[q] = index[q] /\ edits'[q] = edits[q]
          /\ existing'[q] = existing[q] /\ mode'[q] = mode[q]
      BY <2>1 DEF Untouched
    <2> QED BY <2>2, <2>3, <2>4 DEF HeldOf, RemovesLoose, Direct, IsUpdate, IsObjectUpdate
  <1> SUFFICES HeldOf(p)'
    BY <1>0 DEF Held
  <1>A. /\ pc \in [Procs -> Stages] /\ edits \in [Procs -> Seq(Edits)]
        /\ index \in [Procs -> Nat \ {0}] /\ existing \in [Procs -> Seq(Values)]
        /\ lock \in [Locks -> Procs \cup {NoProc}]
        /\ Len(edits[p]) \in Nat /\ Len(existing[p]) \in Nat /\ index[p] \in Nat \ {0}
    BY DEF Typed, TypeOK
  <1>B. pc[p] \in {"refs"} \cup (AfterRefs \ {"end"}) =>
           \A i \in DOMAIN existing[p] :
               RemovesLoose(p, edits[p][i]) /\ (pc[p] = "delete_ref" => i >= index[p]) =>
                   lock[edits[p][i].name] = p
    BY DEF Held, HeldOf
  <1>C. ProgressOf(p)
    BY DEF Progress
  <1>1. CASE pc'[p] \notin {"refs"} \cup (AfterRefs \ {"end"})
    BY <1>1 DEF HeldOf
  <1>2. CASE existing'[p] = << >>
    BY <1>2 DEF HeldOf
  <1>3. CASE LockRef(p)
    <2> DEFINE n == Current(p).name
    <2>1. /\ lock' = IF KeepsLock(p, Current(p), ReadExisting(p, n))
                     THEN [lock EXCEPT ![n] = p] ELSE lock
          /\ existing' = [existing EXCEPT ![p] = Append(@, ReadExisting(p, n))]
          /\ edits' = edits /\ mode' = mode
          /\ pc[p] = "refs"
          /\ NextEdit(p, "refs", "prepared")
      BY <1>3 DEF LockRef
    <2>2. pc'[p] \in {"refs", "prepared"}
      BY ZenonT(60), <2>1, NextEditGoes
    <2>4. DOMAIN existing'[p] = DOMAIN existing[p] \cup {index[p]}
      BY <1>3, LockRefChecks
    <2>5. RemovesLoose(p, Current(p)) => lock'[n] = p
      <3>1. RemovesLoose(p, Current(p)) => KeepsLock(p, Current(p), ReadExisting(p, n))
        BY DEF RemovesLoose, KeepsLock
      <3>2. n \in Names
        BY <2>1, CurrentIsEdit DEF Loops, Edits
      <3> QED BY <1>A, <2>1, <3>1, <3>2 DEF Locks
    <2>6. \A m \in Names : lock[m] = p => lock'[m] = p
      BY <1>A, <2>1 DEF Locks
    <2>7. \A i \in DOMAIN existing[p] :
             RemovesLoose(p, edits[p][i]) => lock'[edits[p][i].name] = p
      <3>1. ASSUME NEW i \in DOMAIN existing[p], RemovesLoose(p, edits[p][i])
            PROVE  lock[edits[p][i].name] = p /\ edits[p][i].name \in Names
        BY ZenonT(60), <1>B, <2>1, <3>1, CheckedIsEdit
      <3> QED BY ZenonT(60), <2>6, <3>1
    <2>8. \A i \in DOMAIN existing'[p] :
             RemovesLoose(p, edits[p][i]) => lock'[edits[p][i].name] = p
      BY <2>4, <2>5, <2>7 DEF Current
    <2> QED BY Zenon, <2>1, <2>2, <2>8 DEF HeldOf, RemovesLoose, Direct, IsUpdate, IsObjectUpdate
  <1>4. CASE Commit(p) \/ AppendReflog(p) \/ DeleteReflog(p)
    <2>1. /\ lock' = lock /\ existing' = existing /\ edits' = edits /\ mode' = mode
          /\ pc[p] \in {"prepared", "reflog", "delete_reflog"}
      BY ZenonT(60), <1>4 DEF Commit, AppendReflog, DeleteReflog
    <2>2. \A i \in DOMAIN existing[p] : RemovesLoose(p, edits[p][i]) => lock[edits[p][i].name] = p
      BY <1>B, <2>1 DEF AfterRefs, Committing
    <2> QED BY Zenon, <2>1, <2>2 DEF HeldOf, RemovesLoose, Direct, IsUpdate, IsObjectUpdate
  <1>5. CASE CommitPacked(p)
    <2>1. /\ \A n \in Names : lock'[n] = lock[n]
          /\ existing' = existing /\ edits' = edits /\ mode' = mode
          /\ pc[p] = "packed_commit"
      BY ZenonT(60), <1>A, <1>5, NamesAssumption DEF CommitPacked, Locks
    <2>2. \A i \in DOMAIN existing[p] : lock'[edits[p][i].name] = lock[edits[p][i].name]
      BY <2>1, CheckedIsEdit
    <2>3. \A i \in DOMAIN existing[p] :
             RemovesLoose(p, edits[p][i]) => lock'[edits[p][i].name] = p
      <3>1. \A i \in DOMAIN existing[p] : RemovesLoose(p, edits[p][i]) => lock[edits[p][i].name] = p
        BY <1>B, <2>1 DEF AfterRefs, Committing
      <3> QED BY ZenonT(60), <2>2, <3>1
    <2> QED BY Zenon, <2>1, <2>3 DEF HeldOf, RemovesLoose, Direct, IsUpdate, IsObjectUpdate
  <1>6. CASE UpdateRef(p) \/ DeleteRef(p)
    <2>1. /\ pc[p] \in {"update", "delete_ref"}
          /\ existing' = existing /\ edits' = edits /\ mode' = mode
          /\ \A n \in Locks : n # Current(p).name => lock'[n] = lock[n]
      BY <1>A, <1>6 DEF UpdateRef, DeleteRef
    <2>2. index[p] \in DOMAIN edits[p]
      BY <2>1, CurrentIsEdit DEF Loops
    <2>3. \A i \in DOMAIN existing[p] : i # index[p] =>
             lock'[edits[p][i].name] = lock[edits[p][i].name]
      BY <2>1, <2>2, DifferentNames, CheckedIsEdit DEF Current, Locks
    <2>4. CASE UpdateRef(p)
      <3>0. pc[p] = "update"
        BY <2>4 DEF UpdateRef
      <3>1. IsUpdate(Current(p)) /\ pc[p] = "update"
        BY <1>C, <3>0 DEF ProgressOf, Current
      <3>2. RemovesLoose(p, Current(p)) => lock' = lock
        BY <2>4, <3>1 DEF UpdateRef, RemovesLoose
      <3>3. \A i \in DOMAIN existing[p] :
               RemovesLoose(p, edits[p][i]) => lock'[edits[p][i].name] = p
        <4>1. \A i \in DOMAIN existing[p] : RemovesLoose(p, edits[p][i]) => lock[edits[p][i].name] = p
          BY <1>B, <3>1 DEF AfterRefs, Committing
        <4> QED BY ZenonT(60), <2>3, <3>2, <4>1 DEF Current
      <3> QED BY Zenon, <2>1, <3>3 DEF HeldOf, RemovesLoose, Direct, IsUpdate, IsObjectUpdate
    <2>5. CASE DeleteRef(p)
      <3>1. pc'[p] = "end" \/ (pc'[p] = "delete_ref" /\ index'[p] = index[p] + 1)
        <4>1. NextEdit(p, "delete_ref", "end")
          BY SMTT(60), <2>5 DEF DeleteRef
        <4> QED BY <1>A, <4>1 DEF NextEdit, Goto
      <3>2. \A i \in DOMAIN existing[p] : i >= index[p] + 1 /\ RemovesLoose(p, edits[p][i]) =>
               lock'[edits[p][i].name] = p
        <4>1. pc[p] = "delete_ref"
          BY <2>5 DEF DeleteRef
        <4>2. \A i \in DOMAIN existing[p] : i >= index[p] /\ RemovesLoose(p, edits[p][i]) =>
                 lock[edits[p][i].name] = p
          BY <1>B, <4>1 DEF AfterRefs, Committing
        <4>3. \A i \in DOMAIN existing[p] : i >= index[p] + 1 => i >= index[p] /\ i # index[p]
          BY <1>A
        <4> QED BY <2>3, <4>2, <4>3
      <3>3. pc'[p] = "delete_ref" => \A i \in DOMAIN existing[p] :
               i >= index'[p] /\ RemovesLoose(p, edits[p][i]) => lock'[edits[p][i].name] = p
        BY Zenon, <3>1, <3>2
      <3> QED BY Zenon, <2>1, <3>1, <3>3 DEF HeldOf, RemovesLoose, Direct, IsUpdate, IsObjectUpdate
    <2> QED BY <1>6, <2>4, <2>5
  <1>7. CASE Crash(p)
    <2>1. pc'[p] = "crashed"
      BY <1>A, <1>7 DEF Crash
    <2> QED BY <2>1 DEF HeldOf, AfterRefs, Committing
  <1>8. CASE EarlyStep(p)
    BY <1>2, <1>8, EarlySteps
  <1> QED BY ZenonT(60), <1>3, <1>4, <1>5, <1>6, <1>7, <1>8, StepKinds

-----------------------------------------------------------------------------
(* What was read under a lock                                               *)

\* A loose file changes only by the owner of its lock, who gives it up with that.
LEMMA LooseOwned ==
    ASSUME Typed, Progress, Held, NEW p \in Procs, ProcStep(p), NEW n \in Names,
           loose'[n] # loose[n]
    PROVE  lock[n] = p /\ lock'[n] # p
  <1>0. loose \in [Names -> Values] /\ lock \in [Locks -> Procs \cup {NoProc}] /\ n \in Locks
    BY DEF Typed, TypeOK, Locks
  <1>1. CASE EarlyStep(p)
    BY <1>1
    DEF EarlyStep, Begin, Leave, SplitSymbolic, SplitNot, Involved, Path, LockPacked, LockBuffer,
        BufferPacked, Snapshot, TakePackedLock, ReadPacked
  <1>2. CASE LockRef(p) \/ Commit(p) \/ AppendReflog(p)
    BY <1>2 DEF LockRef, Commit, AppendReflog
  <1>5. CASE DeleteReflog(p) \/ CommitPacked(p) \/ Crash(p)
    BY <1>5 DEF DeleteReflog, CommitPacked, Crash
  <1>3. CASE UpdateRef(p)
    <2>1. /\ loose' = loose \/ loose' = [loose EXCEPT ![Current(p).name] = Current(p).new]
          /\ loose' # loose => lock[Current(p).name] = p
                              /\ lock' = [lock EXCEPT ![Current(p).name] = NoProc]
      BY <1>3 DEF UpdateRef
    <2> QED BY <1>0, <2>1, NamesAssumption
  <1>4. CASE DeleteRef(p)
    <2>1. n = Current(p).name /\ RemovesLoose(p, Current(p)) /\ pc[p] = "delete_ref"
      BY <1>0, <1>4 DEF DeleteRef
    <2>2. index[p] \in DOMAIN existing[p] /\ index[p] >= index[p]
      <3>1. index[p] \in DOMAIN edits[p]
        BY <2>1, CurrentIsEdit DEF Loops
      <3>2. Len(existing[p]) = Len(edits[p])
        BY <2>1 DEF Progress, ProgressOf, AfterRefs, Committing
      <3>3. existing[p] \in Seq(Values) /\ edits[p] \in Seq(Edits)
        BY DEF Typed, TypeOK
      <3> QED BY <3>1, <3>2, <3>3
    <2>3. lock[n] = p
      BY <2>1, <2>2 DEF Held, HeldOf, AfterRefs, Committing, Current
    <2>4. lock' = [lock EXCEPT ![n] = NoProc]
      BY <1>4, <2>1, <2>3 DEF DeleteRef
    <2> QED BY <1>0, <2>3, <2>4, NamesAssumption
  <1> QED BY <1>1, <1>2, <1>3, <1>4, <1>5, StepKinds

\* From the end of prepare() on, the lists stay, locks are only given up, and
\* packed-refs stays locked until it is committed.
LEMMA LateSteps ==
    ASSUME Typed, NEW p \in Procs,
           Commit(p) \/ AppendReflog(p) \/ DeleteReflog(p) \/ CommitPacked(p) \/ UpdateRef(p)
           \/ DeleteRef(p) \/ Crash(p)
    PROVE  /\ UNCHANGED <<edits, existing, buffer>>
           /\ \A m \in Locks : lock'[m] = p => lock[m] = p
           /\ pc'[p] \notin {"delete_ref", "end", "crashed"} =>
                 /\ pc[p] \notin {"delete_ref", "end", "crashed"}
                 /\ lock'[PackedRefs] = lock[PackedRefs]
  <1>1. pc \in [Procs -> Stages] /\ lock \in [Locks -> Procs \cup {NoProc}] /\ PackedRefs \in Locks
    BY DEF Typed, TypeOK, Locks
  <1>2. CASE Commit(p) \/ AppendReflog(p) \/ DeleteReflog(p)
    BY <1>2 DEF Commit, AppendReflog, DeleteReflog
  <1>3. CASE CommitPacked(p)
    BY <1>1, <1>3, NamesAssumption DEF CommitPacked, Goto
  <1>4. CASE UpdateRef(p)
    <2>1. Current(p).name \in Names /\ pc[p] = "update"
      BY <1>4, CurrentIsEdit DEF UpdateRef, Loops, Edits
    <2>2. UNCHANGED <<edits, existing, buffer>>
          /\ (lock' = lock \/ lock' = [lock EXCEPT ![Current(p).name] = NoProc])
      BY <1>4 DEF UpdateRef
    <2> QED BY <1>1, <2>1, <2>2, NamesAssumption
  <1>5. CASE DeleteRef(p)
    <2>1. UNCHANGED <<edits, existing, buffer>>
          /\ (lock' = lock \/ lock' = [lock EXCEPT ![Current(p).name] = NoProc])
      BY <1>5 DEF DeleteRef
    <2>2. pc'[p] \in {"delete_ref", "end"}
      BY <1>1, <1>5 DEF DeleteRef, NextEdit, Goto
    <2> QED BY <1>1, <2>1, <2>2, NamesAssumption
  <1>6. CASE Crash(p)
    BY <1>1, <1>6 DEF Crash
  <1> QED BY <1>2, <1>3, <1>4, <1>5, <1>6

LEMMA NextFrozen ==
    ASSUME Typed, Typed', Progress, Held, LooseFrozen, NEW p \in Procs, ProcStep(p)
    PROVE  LooseFrozen'
  <1>0. ASSUME NEW q \in Procs, q # p PROVE FrozenOf(q)'
    <2>1. Untouched(q)
      BY <1>0, Locality
    <2>2. FrozenOf(q)
      BY DEF LooseFrozen
    <2>3. \A n \in Names : lock'[n] = q => lock[n] = q /\ loose'[n] = loose[n]
      BY <1>0, OthersLocks, LooseOwned DEF Locks
    <2>4. \A n \in Names : Buffered(q, n)' = Buffered(q, n)
      BY <1>0, <2>1, OthersLocks DEF Buffered, Untouched, Locks
    <2>5. \A i \in DOMAIN existing[q] : edits[q][i].name \in Names
      BY CheckedIsEdit
    <2>6. existing'[q] = existing[q] /\ edits'[q] = edits[q] /\ pc'[q] = pc[q]
      BY <2>1 DEF Untouched
    <2>7. ASSUME NEW i \in DOMAIN existing[q], NEW m \in Names, m = edits[q][i].name, lock'[m] = q
          PROVE  /\ loose'[m] # NoRef => existing[q][i] = loose'[m]
                 /\ loose'[m] = NoRef /\ pc[q] \notin {"delete_ref", "end", "crashed"} =>
                       existing[q][i] = Buffered(q, m)
      BY <2>2, <2>3, <2>7 DEF FrozenOf
    <2>8. \A i \in DOMAIN existing'[q] : lock'[edits'[q][i].name] = q =>
              /\ loose'[edits'[q][i].name] # NoRef => existing'[q][i] = loose'[edits'[q][i].name]
              /\ loose'[edits'[q][i].name] = NoRef /\ pc'[q] \notin {"delete_ref", "end", "crashed"} =>
                    existing'[q][i] = Buffered(q, edits[q][i].name)
      BY <2>5, <2>6, <2>7
    <2>9. \A i \in DOMAIN existing'[q] : Buffered(q, edits[q][i].name)' = Buffered(q, edits[q][i].name)
      BY <2>4, <2>5, <2>6
    <2> QED BY SMTT(60), ZenonT(60), <2>6, <2>8, <2>9 DEF FrozenOf
  <1> SUFFICES FrozenOf(p)'
    BY <1>0 DEF LooseFrozen
  <1>A. /\ pc \in [Procs -> Stages] /\ edits \in [Procs -> Seq(Edits)]
        /\ index \in [Procs -> Nat \ {0}] /\ existing \in [Procs -> Seq(Values)]
        /\ lock \in [Locks -> Procs \cup {NoProc}]
        /\ Len(edits[p]) \in Nat /\ Len(existing[p]) \in Nat /\ index[p] \in Nat \ {0}
        /\ ProgressOf(p)
    BY DEF Typed, TypeOK, Progress
  <1>B. FrozenOf(p)
    BY DEF LooseFrozen
  <1>1. CASE EarlyStep(p)
    <2>1. DOMAIN existing'[p] = {}
      BY <1>1, EarlySteps
    <2> QED BY <2>1 DEF FrozenOf
  <1>2. CASE LockRef(p)
    <2>0. pc[p] = "refs"
      BY <1>2 DEF LockRef
    <2>1. PICK n \in Names : n = Current(p).name
      BY <2>0, CurrentIsEdit DEF Loops, Edits
    <2>2. PICK found \in Values : found = ReadExisting(p, n)
      BY <2>0, <2>1, ReadExistingTyped
    <2>3. /\ lock' = lock \/ lock' = [lock EXCEPT ![n] = p]
          /\ existing' = [existing EXCEPT ![p] = Append(@, found)]
          /\ UNCHANGED <<loose, edits, buffer>>
      BY <1>2, <2>1, <2>2 DEF LockRef
    <2>4. Len(existing[p]) = index[p] - 1 /\ index[p] \in DOMAIN edits[p]
      BY <1>A, <2>0, CurrentIsEdit DEF ProgressOf, Loops
    <2>5. /\ DOMAIN existing'[p] = DOMAIN existing[p] \cup {index[p]}
          /\ existing'[p][index[p]] = found
          /\ \A i \in DOMAIN existing[p] : existing'[p][i] = existing[p][i]
      BY <1>2, <2>1, <2>2, LockRefChecks
    <2>6. \A m \in Names : Buffered(p, m)' = Buffered(p, m)
      BY <1>A, <2>1, <2>3, NamesAssumption DEF Buffered, Locks
    <2>7. /\ loose[n] # NoRef => found = loose[n]
          /\ loose[n] = NoRef => found = Buffered(p, n)
      BY <2>2 DEF ReadExisting
    <2>8. \A i \in DOMAIN existing[p] : edits[p][i].name \in Names /\ edits[p][i].name # n
      <3>1. \A i \in DOMAIN existing[p] : edits[p][i].name = n => i = index[p]
        BY <2>1, <2>4, DifferentNames DEF Current
      <3>2. index[p] \notin DOMAIN existing[p]
        BY <1>A, <2>4
      <3> QED BY <3>1, <3>2, CheckedIsEdit
    <2>9. \A m \in Names : m # n /\ lock'[m] = p => lock[m] = p
      BY <1>A, <2>3 DEF Locks
    <2>10. ASSUME NEW i \in DOMAIN existing'[p], NEW m \in Names, m = edits[p][i].name,
                  lock'[m] = p
           PROVE  /\ loose[m] # NoRef => existing'[p][i] = loose[m]
                  /\ loose[m] = NoRef => existing'[p][i] = Buffered(p, m)
      <3>1. CASE i = index[p]
        BY <2>1, <2>5, <2>7, <2>10, <3>1 DEF Current
      <3>2. CASE i \in DOMAIN existing[p]
        <4>1. lock[m] = p
          BY <2>8, <2>9, <2>10, <3>2
        <4>2. existing'[p][i] = existing[p][i]
          BY ZenonT(60), <2>5, <3>2
        <4>3. /\ loose[m] # NoRef => existing[p][i] = loose[m]
              /\ loose[m] = NoRef => existing[p][i] = Buffered(p, m)
          BY <1>B, <2>0, <2>10, <3>2, <4>1 DEF FrozenOf
        <4> QED BY <4>2, <4>3
      <3> QED BY ZenonT(60), <2>5, <3>1, <3>2
    <2>11. \A i \in DOMAIN existing'[p] : edits[p][i].name \in Names
      BY <2>1, <2>5, CheckedIsEdit DEF Current
    <2> QED BY <2>3, <2>6, <2>10, <2>11 DEF FrozenOf
  <1>3. CASE Commit(p) \/ AppendReflog(p) \/ DeleteReflog(p) \/ CommitPacked(p) \/ UpdateRef(p)
             \/ DeleteRef(p) \/ Crash(p)
    <2>1. UNCHANGED <<edits, existing, buffer>>
      BY ZenonT(60), <1>3, LateSteps
    <2>2. \A m \in Names : lock'[m] = p => lock[m] = p /\ loose'[m] = loose[m]
      BY <1>3, LateSteps, LooseOwned DEF Locks
    <2>3. pc'[p] \notin {"delete_ref", "end", "crashed"} =>
             /\ pc[p] \notin {"delete_ref", "end", "crashed"}
             /\ \A m \in Names : Buffered(p, m)' = Buffered(p, m)
      BY <1>3, <2>1, LateSteps DEF Buffered
    <2>4. \A i \in DOMAIN existing[p] : edits[p][i].name \in Names
      BY CheckedIsEdit
    <2>5. ASSUME NEW i \in DOMAIN existing[p], NEW m \in Names, m = edits[p][i].name, lock'[m] = p
          PROVE  /\ loose'[m] # NoRef => existing[p][i] = loose'[m]
                 /\ loose'[m] = NoRef /\ pc'[p] \notin {"delete_ref", "end", "crashed"} =>
                       existing[p][i] = Buffered(p, m)'
      <3>1. lock[m] = p /\ loose'[m] = loose[m]
        BY ZenonT(60), <2>2, <2>5
      <3>2. /\ loose[m] # NoRef => existing[p][i] = loose[m]
            /\ loose[m] = NoRef /\ pc[p] \notin {"delete_ref", "end", "crashed"} =>
                  existing[p][i] = Buffered(p, m)
        BY <1>B, <2>5, <3>1 DEF FrozenOf
      <3> QED BY <2>3, <3>1, <3>2
    <2> QED BY ZenonT(60), <2>1, <2>4, <2>5 DEF FrozenOf
  <1> QED BY <1>1, <1>2, <1>3, StepKinds

-----------------------------------------------------------------------------
(* The invariants                                                           *)

\* Inductive: the index is in range, edits are checked in order and uniquely
\* named, every lock file is accounted for, who will remove a loose file holds
\* its lock, and what was read under a lock is still there.
IInv == Typed /\ Progress /\ (\A p \in Procs : AccountedOf(p)) /\ Held /\ LooseFrozen

LEMMA InitIInv == Init => IInv
  <1> SUFFICES ASSUME Init PROVE IInv
    OBVIOUS
  <1>1. Typed /\ Progress
    BY InitTyped, InitProgress
  <1>2. \A p \in Procs : AccountedOf(p)
    BY NamesAssumption DEF Init, AccountedOf
  <1>3. \A p \in Procs : DOMAIN existing[p] = {}
    BY DEF Init
  <1>4. Held /\ LooseFrozen
    BY <1>3 DEF Held, HeldOf, LooseFrozen, FrozenOf
  <1> QED BY <1>1, <1>2, <1>4 DEF IInv

LEMMA NextIInv == IInv /\ [Next]_vars => IInv'
  <1> SUFFICES ASSUME IInv, [Next]_vars PROVE IInv'
    OBVIOUS
  <1>1. Typed'
    BY NextTyped DEF IInv
  <1>2. CASE UNCHANGED vars
    <2>1. Progress' /\ (\A p \in Procs : AccountedOf(p)')
      BY SMTT(60), <1>2 DEF IInv, vars, Progress, ProgressOf, AccountedOf, IsUpdate, UniqueNames, Checked
    <2>2. Held'
      BY ZenonT(60), <1>2 DEF IInv, vars, Held, HeldOf, RemovesLoose, IsUpdate, IsObjectUpdate, Direct
    <2>3. LooseFrozen'
      BY <1>2 DEF IInv, vars, LooseFrozen, FrozenOf, Buffered
    <2> QED BY ZenonT(60), <1>1, <2>1, <2>2, <2>3 DEF IInv
  <1>3. ASSUME NEW p \in Procs, ProcStep(p) PROVE IInv'
    BY <1>1, <1>3, NextProgress, NextAccounted, NextHeld, NextFrozen DEF IInv
  <1> QED BY <1>2, <1>3 DEF Next, ProcStep

LEMMA Invariant == Spec => []IInv
  BY InitIInv, NextIInv, PTL DEF Spec

\* However a transaction ends short of the process being killed (committed,
\* rolled back, out of date, busy or failing in the middle), no lock file of it
\* stays, and none is held on a reference that was not checked.
THEOREM LocksAreAccounted == Spec => []LocksAccounted
  <1>1. IInv => LocksAccounted
    BY Accounted DEF IInv
  <1> QED BY <1>1, Invariant, PTL

\* What read_existing_ref() found under a lock stays the content of the loose
\* file, or of the packed buffer, for as long as the lock is held.
THEOREM LooseIsFrozen == Spec => []LooseFrozen
  <1>1. IInv => LooseFrozen
    BY DEF IInv
  <1> QED BY <1>1, Invariant, PTL

=============================================================================
