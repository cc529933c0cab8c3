--------------------------- MODULE DeltaTreeBases ---------------------------
(* Proofs about DeltaTree, on top of those about its tasks: its counters    *)
(* (`remaining`, by which workers know that the work is done, and the number*)
(* of objects); that deltas are resolved after their bases; and that all    *)
(* that can be resolved is.                                                 *)
EXTENDS DeltaTreeProofs, FiniteSetTheorems

-----------------------------------------------------------------------------
(* Counters                                                                 *)

Counted == {w \in Workers : Busy(w) \/ pc[w] = "panicked"}

Pushing == {w \in Workers : pc[w] = "push"}

\* `remaining` counts what is queued, what workers are at, and what they are about to
\* push.  A task that panicked is counted for good.
CountInv ==
    /\ IsFiniteSet(pool) /\ IsFiniteSet(inspected)
    /\ remaining = Cardinality(pool) + Cardinality(Counted) + Cardinality(Pushing)
    /\ objects = Cardinality(inspected)

DrainedInv == (\E w \in Workers : pc[w] = "drained") => remaining = 0

\* Nothing is done after the workers were joined.
EndInv ==
    /\ main \notin {"read", "error"} => read = NumObjects
    /\ main \in {"check", "ok"} => \A w \in Workers : pc[w] \in Left
    /\ main = "ok" => objects = NumObjects

LEMMA WorkersFinite == ASSUME NEW S \in SUBSET Workers PROVE IsFiniteSet(S) /\ Cardinality(S) \in Nat
<1>1. ThreadLimit \in Int
  BY ThreadsAssumption
<1>2. IsFiniteSet(Workers)
  BY <1>1, FS_Interval DEF Workers
<1>3. IsFiniteSet(S)
  BY <1>2, FS_Subset
<1> QED
  BY <1>3, FS_CardinalityType

\* The counted workers if one of them changes.
LEMMA CountedMoves ==
    ASSUME TypeInv, NEW w \in Workers, NEW to, pc' = [pc EXCEPT ![w] = to]
    PROVE  /\ Counted' = IF to \in Holding \cup {"panicked"} THEN Counted \cup {w} ELSE Counted \ {w}
           /\ Pushing' = IF to = "push" THEN Pushing \cup {w} ELSE Pushing \ {w}
<1>1. \A v \in Workers : pc'[v] = IF v = w THEN to ELSE pc[v]
  BY DEF TypeInv
<1>2. \A v \in Workers : Busy(v)' <=> pc'[v] \in Holding
  BY DEF Busy
<1>3. \A v \in Workers : Busy(v) <=> pc[v] \in Holding
  BY DEF Busy
<1>4. \A v : v \in Counted' <=> v \in Workers /\ pc'[v] \in Holding \cup {"panicked"}
  BY <1>2 DEF Counted
<1>5. \A v : v \in Counted <=> v \in Workers /\ pc[v] \in Holding \cup {"panicked"}
  BY <1>3 DEF Counted
<1>6. Counted' = IF to \in Holding \cup {"panicked"} THEN Counted \cup {w} ELSE Counted \ {w}
  BY <1>1, <1>4, <1>5
<1>7. Pushing' = IF to = "push" THEN Pushing \cup {w} ELSE Pushing \ {w}
  BY <1>1 DEF Pushing
<1> QED
  BY <1>6, <1>7

LEMMA Cards ==
    ASSUME CountInv
    PROVE  /\ IsFiniteSet(Counted) /\ IsFiniteSet(Pushing)
           /\ Cardinality(pool) \in Nat /\ Cardinality(Counted) \in Nat
           /\ Cardinality(Pushing) \in Nat /\ Cardinality(inspected) \in Nat
           /\ remaining \in Nat
<1>1. Counted \in SUBSET Workers /\ Pushing \in SUBSET Workers
  BY DEF Counted, Pushing
<1>2. /\ IsFiniteSet(Counted) /\ IsFiniteSet(Pushing)
      /\ Cardinality(Counted) \in Nat /\ Cardinality(Pushing) \in Nat
  BY <1>1, WorkersFinite
<1>3. Cardinality(pool) \in Nat /\ Cardinality(inspected) \in Nat
  BY FS_CardinalityType DEF CountInv
<1> QED
  BY <1>2, <1>3 DEF CountInv

\* Nothing is left if `remaining` is 0.
LEMMA NothingLeft ==
    ASSUME CountInv, remaining = 0 PROVE pool = {} /\ Counted = {} /\ Pushing = {}
<1>1. Cardinality(pool) = 0 /\ Cardinality(Counted) = 0 /\ Cardinality(Pushing) = 0
  BY Cards DEF CountInv
<1> QED
  BY <1>1, Cards, FS_EmptySet DEF CountInv

LEMMA MovesCount ==
    ASSUME CountInv, TypeInv, NEW w \in Workers, NEW to, pc' = [pc EXCEPT ![w] = to],
           pc[w] # "push", to # "push",
           pc[w] \in Holding \cup {"panicked"} <=> to \in Holding \cup {"panicked"},
           UNCHANGED <<pool, remaining, inspected, objects>>
    PROVE  CountInv' /\ Counted' = Counted
<1>1. w \in Counted <=> pc[w] \in Holding \cup {"panicked"}
  BY DEF Counted, Busy
<1>2. w \notin Pushing
  BY DEF Pushing
<1>3. Counted' = Counted
  <2>1. CASE w \in Counted
    <3>1. Counted' = Counted \cup {w}
      BY ZenonT(60), <1>1, <2>1, CountedMoves
    <3> QED
      BY <2>1, <3>1
  <2>2. CASE w \notin Counted
    <3>1. Counted' = Counted \ {w}
      BY ZenonT(60), <1>1, <2>2, CountedMoves
    <3> QED
      BY <2>2, <3>1
  <2> QED
    BY <2>1, <2>2
<1>4. Pushing' = Pushing
  <2>1. Pushing' = Pushing \ {w}
    BY ZenonT(60), CountedMoves
  <2> QED
    BY <1>2, <2>1
<1> QED
  BY <1>3, <1>4 DEF CountInv

LEMMA StealCount ==
    ASSUME CountInv, TypeInv, NEW w \in Workers, Steal(w) PROVE CountInv'
<1>1. PICK t \in pool : pool' = pool \ {t}
  BY DEF Steal, Available, Newest, Oldest, Queue
<1>2. /\ pc[w] = "steal" /\ pc' = [pc EXCEPT ![w] = "decode"]
      /\ UNCHANGED <<remaining, inspected, objects>>
  BY DEF Steal, Step, seen
<1>3. "decode" \in Holding /\ "steal" \notin Holding
  BY DEF Holding
<1>4. w \notin Counted /\ w \notin Pushing
  BY <1>2, <1>3 DEF Counted, Pushing, Busy
<1>5. Counted' = Counted \cup {w}
  BY ZenonT(60), <1>2, <1>3, CountedMoves
<1>6. Pushing' = Pushing
  <2>1. Pushing' = Pushing \ {w}
    BY ZenonT(60), <1>2, CountedMoves
  <2> QED
    BY <1>4, <2>1
<1>7. IsFiniteSet(pool') /\ Cardinality(pool') = Cardinality(pool) - 1
  BY <1>1, FS_RemoveElement DEF CountInv
<1>8. Cardinality(Counted') = Cardinality(Counted) + 1
  BY ZenonT(60), <1>4, <1>5, Cards, FS_AddElement
<1> QED
  BY <1>2, <1>6, <1>7, <1>8, Cards DEF CountInv

LEMMA CountChildCount ==
    ASSUME CountInv, TypeInv, NEW w \in Workers, CountChild(w) PROVE CountInv'
<1>1. /\ pc[w] = "children" /\ pc' = [pc EXCEPT ![w] = "push"]
      /\ remaining' = remaining + 1 /\ UNCHANGED <<pool, inspected, objects>>
  BY DEF CountChild, Step, seen
<1>2. "push" \in Holding /\ "children" \in Holding
  BY DEF Holding
<1>3. w \in Counted /\ w \notin Pushing
  BY <1>1, <1>2 DEF Counted, Pushing, Busy
<1>4. Counted' = Counted \cup {w} /\ Pushing' = Pushing \cup {w}
  BY ZenonT(60), <1>1, <1>2, CountedMoves
<1>5. Counted' = Counted
  BY <1>3, <1>4
<1>6. Cardinality(Pushing') = Cardinality(Pushing) + 1
  BY ZenonT(60), <1>3, <1>4, Cards, FS_AddElement
<1> QED
  BY <1>1, <1>5, <1>6, Cards DEF CountInv

LEMMA PushCount ==
    ASSUME CountInv, TypeInv, NEW w \in Workers, PushChild(w) PROVE CountInv'
<1>1. PICK c \in todo[w] :
        pool' = pool \cup {[ticket |-> tickets + 1, item |-> childItems[c], queue |-> w]}
  BY DEF PushChild
<1> DEFINE t == [ticket |-> tickets + 1, item |-> childItems[c], queue |-> w]
<1>2. /\ pc[w] = "push" /\ pc' = [pc EXCEPT ![w] = "children"]
      /\ UNCHANGED <<remaining, inspected, objects>>
  BY DEF PushChild, Step, seen
<1>3. "push" \in Holding /\ "children" \in Holding
  BY DEF Holding
<1>4. w \in Counted /\ w \in Pushing
  BY <1>2, <1>3 DEF Counted, Pushing, Busy
<1>5. Counted' = Counted
  <2>1. Counted' = Counted \cup {w}
    BY ZenonT(60), <1>2, <1>3, CountedMoves
  <2> QED
    BY <1>4, <2>1
<1>6. Pushing' = Pushing \ {w}
  BY ZenonT(60), <1>2, CountedMoves
<1>7. t.ticket = tickets + 1 /\ tickets \in Nat /\ \A u \in pool : u.ticket \in Nat /\ u.ticket <= tickets
  BY DEF TypeInv
<1> HIDE DEF t
<1>8. t \notin pool /\ pool' = pool \cup {t}
  BY <1>1, <1>7 DEF t
<1>9. IsFiniteSet(pool') /\ Cardinality(pool') = Cardinality(pool) + 1
  BY <1>8, FS_AddElement DEF CountInv
<1>10. Cardinality(Pushing') = Cardinality(Pushing) - 1
  BY ZenonT(60), <1>4, <1>6, Cards, FS_RemoveElement
<1> QED
  BY <1>2, <1>5, <1>9, <1>10, Cards DEF CountInv

\* The worker's task is counted until it is subtracted.
LEMMA DoneCount ==
    ASSUME CountInv, TypeInv, NEW w \in Workers, TaskDone(w) \/ UncountFailed(w) PROVE CountInv'
<1>1. /\ pc[w] \in {"children", "failed"}
      /\ remaining' = remaining - 1 /\ UNCHANGED <<pool, inspected, objects>>
      /\ \E to \in {"abort", "raise"} : pc' = [pc EXCEPT ![w] = to]
  BY DEF TaskDone, UncountFailed, Step, seen
<1>2. {"children", "failed"} \subseteq Holding
  BY DEF Holding
<1>3. {"abort", "raise"} \cap Holding = {}
  BY DEF Holding
<1>4. w \in Counted /\ w \notin Pushing
  BY <1>1, <1>2 DEF Counted, Pushing, Busy
<1>5. Counted' = Counted \ {w} /\ Pushing' = Pushing \ {w}
  BY ZenonT(60), <1>1, <1>3, CountedMoves
<1>6. Pushing' = Pushing
  BY <1>4, <1>5
<1>7. Cardinality(Counted') = Cardinality(Counted) - 1
  BY ZenonT(60), <1>4, <1>5, Cards, FS_RemoveElement
<1> QED
  BY <1>1, <1>6, <1>7, Cards DEF CountInv

LEMMA InspectCount ==
    ASSUME CountInv, TypeInv, HoldInv, NEW w \in Workers, Inspect(w) PROVE CountInv'
<1>1. /\ pc[w] = "inspect" /\ pc' = [pc EXCEPT ![w] = "children"]
      /\ inspected' = inspected \cup {task[w]} /\ objects' = objects + 1
      /\ UNCHANGED <<pool, remaining>>
  BY DEF Inspect, Step, shared
<1>2. "inspect" \in Holding /\ "children" \in Holding /\ "inspect" \in Early
  BY DEF Holding, Early, Unseen
<1>3. w \in Counted /\ w \notin Pushing
  BY <1>1, <1>2 DEF Counted, Pushing, Busy
<1>4. Counted' = Counted \cup {w} /\ Pushing' = Pushing \ {w}
  BY ZenonT(60), <1>1, <1>2, CountedMoves
<1>5. Counted' = Counted /\ Pushing' = Pushing
  BY <1>3, <1>4
<1>6. task[w] \notin inspected
  BY <1>1, <1>2 DEF HoldInv
<1>7. IsFiniteSet(inspected') /\ Cardinality(inspected') = Cardinality(inspected) + 1
  BY <1>1, <1>6, FS_AddElement DEF CountInv
<1> QED
  BY <1>1, <1>5, <1>7, Cards DEF CountInv

LEMMA TraverseCount ==
    ASSUME CountInv, TreeInv, TypeInv, Traverse PROVE CountInv'
<1> DEFINE N == Len(rootItems)
           f == [i \in 1..N |-> [ticket |-> i, item |-> rootItems[i], queue |-> Roots]]
<1>1. /\ main = "read" /\ pc' = pc /\ remaining' = N /\ UNCHANGED <<inspected, objects>>
      /\ pool' = {[ticket |-> i, item |-> rootItems[i], queue |-> Roots] : i \in DOMAIN rootItems}
  BY DEF Traverse, seen, workers
<1>2. \A w \in Workers : pc[w] = "unborn"
  BY <1>1 DEF TypeInv
<1>3. "unborn" \notin Holding
  BY DEF Holding
<1>4. Counted' = {} /\ Pushing' = {}
  BY <1>1, <1>2, <1>3 DEF Counted, Pushing, Busy
<1>5. N \in Nat /\ DOMAIN rootItems = 1..N
  BY DEF TreeInv, VectorInv
<1>6. \A i \in 1..N : f[i].ticket = i /\ f[i] \in pool'
  BY <1>1, <1>5
<1>7. \A t \in pool' : \E i \in 1..N : f[i] = t
  BY <1>1, <1>5
<1>8. DOMAIN f = 1..N /\ f = [i \in 1..N |-> f[i]]
  OBVIOUS
<1> HIDE DEF f
<1>9. f \in [1..N -> pool']
  BY <1>6, <1>8
<1>10. \A i, j \in 1..N : f[i] = f[j] => i = j
  BY <1>6
<1>11. f \in Injection(1..N, pool')
  BY <1>8, <1>9, <1>10 DEF Injection, IsInjective
<1>12. f \in Surjection(1..N, pool')
  BY <1>7, <1>9 DEF Surjection
<1>13. ExistsBijection(1..N, pool')
  BY <1>11, <1>12 DEF ExistsBijection, Bijection
<1>14. IsFiniteSet(1..N) /\ Cardinality(1..N) = N
  <2>1. ASSUME NEW n \in Nat PROVE IsFiniteSet(1..n) /\ Cardinality(1..n) = n
    <3>1. 1 \in Int /\ n \in Int /\ (1 <= n \/ n = 0)
      OBVIOUS
    <3>2. IsFiniteSet(1..n) /\ Cardinality(1..n) = IF 1 > n THEN 0 ELSE n - 1 + 1
      BY <3>1, FS_Interval
    <3> QED
      BY <3>1, <3>2
  <2> QED
    BY <1>5, <2>1
<1>15. IsFiniteSet(pool') /\ Cardinality(pool') = N
  BY <1>13, <1>14, FS_Bijection
<1>16. Cardinality(Counted') = 0 /\ Cardinality(Pushing') = 0
  BY <1>4, FS_EmptySet
<1>17. IsFiniteSet(inspected') /\ objects' = Cardinality(inspected')
  BY <1>1 DEF CountInv
<1>18. remaining' = N
  BY <1>1
<1> HIDE DEF N
<1>19. remaining' = Cardinality(pool') + Cardinality(Counted') + Cardinality(Pushing')
  BY SMTT(60), <1>5, <1>15, <1>16, <1>18
<1> QED
  BY SMTT(60), ZenonT(60), <1>15, <1>17, <1>19 DEF CountInv

\* Steps of a worker that leave the counters alone.
LEMMA MoveCount ==
    ASSUME CountInv, TypeInv, NEW w \in Workers,
           \/ CheckAbort(w) \/ CheckInterrupt(w) \/ NothingToSteal(w) \/ Idle(w) \/ Decode(w)
           \/ SkipHashing(w) \/ Attach(w) \/ Raise(w) \/ Unwind(w) \/ TaskFails(w) \/ Panic(w)
    PROVE  CountInv'
<1>1. UNCHANGED <<pool, remaining, inspected, objects>>
  BY DEF CheckAbort, CheckInterrupt, NothingToSteal, Idle, Decode, SkipHashing, Attach, Raise,
         Unwind, TaskFails, Panic, shared, seen
<1> DEFINE Free == {"abort", "aborted", "interrupt", "error", "steal", "idle", "drained"}
<1>0. Free \subseteq PCs /\ Free \cap (Holding \cup {"panicked"}) = {} /\ "push" \notin Free
  BY SMTT(60), ZenonT(60) DEF PCs, Left, Holding
<1>2. \E to \in PCs :
        /\ pc' = [pc EXCEPT ![w] = to] /\ pc[w] # "push" /\ to # "push"
        /\ pc[w] \in Holding \cup {"panicked"} <=> to \in Holding \cup {"panicked"}
  <2>1. CASE CheckAbort(w)
    <3>1. pc[w] \in Free /\ \E to \in Free : pc' = [pc EXCEPT ![w] = to]
      BY ZenonT(60), <2>1 DEF CheckAbort, Step
    <3> QED
      BY ZenonT(60), <1>0, <3>1
  <2>2. CASE CheckInterrupt(w)
    <3>1. pc[w] \in Free /\ \E to \in Free : pc' = [pc EXCEPT ![w] = to]
      BY ZenonT(60), <2>2 DEF CheckInterrupt, Step
    <3> QED
      BY <1>0, <3>1
  <2>3. CASE NothingToSteal(w)
    BY <2>3 DEF NothingToSteal, Step, PCs, Left, Holding
  <2>4. CASE Idle(w)
    <3>1. pc[w] \in Free /\ \E to \in Free : pc' = [pc EXCEPT ![w] = to]
      BY ZenonT(60), <2>4 DEF Idle, Step
    <3> QED
      BY <1>0, <3>1
  <2>5. CASE Decode(w)
    BY <2>5 DEF Decode, Step, PCs, Left, Holding
  <2>6. CASE SkipHashing(w)
    BY ZenonT(60), <2>6 DEF SkipHashing, Step, PCs, Left, Holding
  <2>7. CASE Attach(w)
    BY <2>7 DEF Attach, Step, PCs, Left, Holding
  <2>8. CASE Raise(w)
    BY <2>8 DEF Raise, Step, PCs, Left, Holding
  <2>9. CASE Unwind(w)
    BY <2>9 DEF Unwind, Step, PCs, Left, Holding
  <2>10. CASE TaskFails(w)
    BY ZenonT(60), <2>10 DEF TaskFails, PCs, Holding
  <2>11. CASE Panic(w)
    BY ZenonT(60), <2>11 DEF Panic, PCs, Holding
  <2> QED
    BY SMTT(60), ZenonT(60), <2>1, <2>2, <2>3, <2>4, <2>5, <2>6, <2>7, <2>8, <2>9, <2>10, <2>11
<1> QED
  BY ZenonT(60), <1>1, <1>2, MovesCount

LEMMA WorkerCount ==
    ASSUME Inv, CountInv, NEW w \in Workers, Worker(w) \/ TaskFails(w) \/ Panic(w)
    PROVE  CountInv'
BY MoveCount, StealCount, CountChildCount, PushCount, DoneCount, InspectCount DEF Inv, Worker

\* `remaining` only changes at the hands of a worker that is itself counted, so never
\* again once it was found to be 0.
LEMMA WorkerDrained ==
    ASSUME TypeInv, CountInv, DrainedInv, NEW w \in Workers, Worker(w) \/ TaskFails(w) \/ Panic(w)
    PROVE  DrainedInv'
<1>1. CASE CountChild(w) \/ TaskDone(w) \/ UncountFailed(w)
  <2>1. /\ pc[w] \in {"children", "failed"}
        /\ \E to \in {"push", "abort", "raise"} : pc' = [pc EXCEPT ![w] = to]
    BY <1>1 DEF CountChild, TaskDone, UncountFailed, Step
  <2>2. w \in Counted
    BY <2>1 DEF Counted, Busy, Holding
  <2>3. remaining # 0
    BY <2>2, NothingLeft
  <2>4. \A v \in Workers : pc'[v] # "drained"
    BY <2>1, <2>3 DEF DrainedInv, TypeInv
  <2> QED
    BY SMTT(60), <2>4 DEF DrainedInv
<1>2. CASE Idle(w)
  <2>1. /\ remaining' = remaining
        /\ pc' = [pc EXCEPT ![w] = IF remaining = 0 THEN "drained" ELSE "abort"]
    BY <1>2 DEF Idle, Step, shared
  <2> QED
    BY <2>1 DEF DrainedInv, TypeInv
<1>3. CASE ~(CountChild(w) \/ TaskDone(w) \/ UncountFailed(w) \/ Idle(w))
  <2>1. remaining' = remaining
    BY ZenonT(60), <1>3 DEF Worker, CheckAbort, CheckInterrupt, Steal, NothingToSteal, Decode, SkipHashing,
                Attach, Inspect, PushChild, Raise, Unwind, TaskFails, Panic, shared
  <2>2. \E to : pc' = [pc EXCEPT ![w] = to] /\ to # "drained"
    BY ZenonT(60), <1>3 DEF Worker, CheckAbort, CheckInterrupt, Steal, NothingToSteal, Decode, SkipHashing,
                Attach, Inspect, PushChild, Raise, Unwind, TaskFails, Panic, Step
  <2> QED
    BY SMTT(60), <2>1, <2>2 DEF DrainedInv, TypeInv
<1> QED
  BY ZenonT(60), <1>1, <1>2, <1>3

\* After the threads were joined, they do nothing.
LEMMA WorkerEnd ==
    ASSUME TypeInv, EndInv, NEW w \in Workers, Worker(w) \/ TaskFails(w) \/ Panic(w)
    PROVE  EndInv'
<1>1. pc[w] \notin Left
  BY ZenonT(60) DEF Worker, CheckAbort, CheckInterrupt, Steal, NothingToSteal, Idle, Decode, SkipHashing,
         Attach, Inspect, CountChild, PushChild, TaskDone, UncountFailed, Raise, Unwind,
         TaskFails, Panic, Step, Left
<1>2. main \notin {"check", "ok"}
  BY SMTT(60), <1>1 DEF EndInv
<1>3. main' = main /\ read' = read /\ pack' = pack
  BY ZenonT(60) DEF Worker, CheckAbort, CheckInterrupt, Steal, NothingToSteal, Idle, Decode, SkipHashing,
         Attach, Inspect, CountChild, PushChild, TaskDone, UncountFailed, Raise, Unwind,
         TaskFails, Panic, tree
<1> QED
  BY <1>2, <1>3 DEF EndInv, NumObjects, Entries

Counts == CountInv /\ DrainedInv /\ EndInv

LEMMA FrameCount ==
    ASSUME CountInv, DrainedInv, UNCHANGED <<pool, remaining, pc, inspected, objects>>
    PROVE  CountInv' /\ DrainedInv'
<1>1. Counted' = Counted /\ Pushing' = Pushing
  BY DEF Counted, Pushing, Busy
<1>2. CountInv'
  BY <1>1 DEF CountInv
<1>3. DrainedInv'
  BY DEF DrainedInv
<1> QED
  BY <1>2, <1>3

LEMMA CallerCount == ASSUME Inv, Counts, Caller PROVE Counts'
<1> USE DEF Counts
<1>1. CASE AddRoot \/ AddChild \/ AddChildById \/ ReadFails \/ TraverseFails
  <2>1. UNCHANGED <<shared, workers, seen>> /\ main' \in {"read", "error"}
    BY ZenonT(60), <1>1 DEF AddRoot, AddChild, AddChildById, ReadFails, TraverseFails, Reading, Added
  <2>2. EndInv'
    BY <2>1 DEF EndInv
  <2> QED
    BY SMTT(60), <2>1, <2>2, FrameCount DEF shared, workers, seen
<1>2. CASE Traverse
  <2>1. /\ main = "read" /\ read = NumObjects /\ main' \in {"check", "spawn"}
        /\ UNCHANGED <<pack, read, pc>>
    BY <1>2 DEF Traverse, workers
  <2>2. \A w \in Workers : pc[w] = "unborn"
    BY <2>1 DEF Inv, TypeInv
  <2>3. EndInv'
    BY <2>1, <2>2 DEF EndInv, NumObjects, Entries, Left
  <2>4. DrainedInv'
    BY <2>1, <2>2 DEF DrainedInv
  <2> QED
    BY ZenonT(60), <1>2, <2>3, <2>4, TraverseCount DEF Inv
<1>3. CASE Join
  <2>1. /\ UNCHANGED <<tree, shared, workers, seen>> /\ main \in {"join", "give up"}
        /\ main' \in {"panic", "error", "check"}
        /\ \A w \in Workers : pc[w] \in Left
    BY <1>3 DEF Join
  <2>2. EndInv'
    BY <2>1 DEF EndInv, NumObjects, Entries, tree, workers
  <2> QED
    BY <2>1, <2>2, FrameCount DEF shared, workers, seen
<1>4. CASE Check
  <2>1. /\ UNCHANGED <<tree, shared, workers, seen>> /\ main = "check"
        /\ main' \in {"missing", "unresolved", "ok"}
        /\ main' = "ok" => objects = NumObjects
    BY <1>4 DEF Check
  <2>2. EndInv'
    BY <2>1 DEF EndInv, NumObjects, Entries, tree, workers, seen
  <2> QED
    BY <2>1, <2>2, FrameCount DEF shared, workers, seen
<1>5. CASE \E w \in Workers : Spawn(w)
  <2>1. PICK w \in Workers : Spawn(w)
    BY <1>5
  <2>2. /\ UNCHANGED <<tree, shared, seen>> /\ main = "spawn" /\ main' \in {"spawn", "join"}
        /\ pc[w] = "unborn" /\ pc' = [pc EXCEPT ![w] = "abort"]
    BY <2>1 DEF Spawn
  <2>3. CountInv'
    <3>1. {"unborn", "abort"} \cap (Holding \cup {"panicked"}) = {}
      BY DEF Holding
    <3>2. UNCHANGED <<pool, remaining, inspected, objects>>
      BY <2>2 DEF shared, seen
    <3> QED
      BY ZenonT(60), <2>2, <3>1, <3>2, MovesCount DEF Inv
  <2>4. DrainedInv'
    BY <2>2 DEF DrainedInv, Inv, TypeInv, shared
  <2>5. EndInv'
    BY <2>2 DEF EndInv, NumObjects, Entries, tree
  <2> QED
    BY <2>3, <2>4, <2>5
<1> QED
  BY ZenonT(60), <1>1, <1>2, <1>3, <1>4, <1>5 DEF Caller

LEMMA InitCount == Init => Counts
<1> SUFFICES ASSUME Init PROVE Counts
  OBVIOUS
<1>1. pool = {} /\ inspected = {} /\ Counted = {} /\ Pushing = {}
  BY DEF Init, Counted, Pushing, Busy, Holding
<1>2. CountInv
  BY <1>1, FS_EmptySet DEF CountInv, Init
<1> QED
  BY <1>2 DEF Counts, DrainedInv, EndInv, Init

LEMMA NextCount == Inv /\ Counts /\ [Next]_vars => Counts'
<1> SUFFICES ASSUME Inv, Counts, [Next]_vars PROVE Counts'
  OBVIOUS
<1>1. CASE Caller
  BY <1>1, CallerCount
<1>2. CASE \E w \in Workers : Worker(w) \/ TaskFails(w) \/ Panic(w)
  BY <1>2, WorkerCount, WorkerDrained, WorkerEnd DEF Counts, Inv
<1>3. CASE SpawnFails \/ Interrupt \/ UNCHANGED vars
  <2>1. UNCHANGED <<pack, read, pool, remaining, workers, seen>>
    BY <1>3 DEF SpawnFails, Interrupt, vars, tree, shared
  <2>2. main' = main \/ (main = "spawn" /\ main' = "give up")
    BY <1>3 DEF SpawnFails, Interrupt, vars
  <2>3. EndInv'
    BY <2>1, <2>2 DEF Counts, EndInv, NumObjects, Entries, workers, seen
  <2> QED
    BY ZenonT(60), <2>1, <2>3, FrameCount DEF Counts, workers, seen
<1> QED
  BY <1>1, <1>2, <1>3 DEF Next, Fault

LEMMA CountsHold == Spec => [](Inv /\ Counts)
<1>1. Init => Inv /\ Counts
  BY InitInv, InitCount
<1>2. Inv /\ Counts /\ [Next]_vars => (Inv /\ Counts)'
  BY NextInv, NextCount
<1> QED
  BY <1>1, <1>2, PTL DEF Spec

\* For any number of threads, a worker that finds `remaining` at 0 leaves nothing behind:
\* resolve_parallel() detects the end of the work by a counter that is increased before a
\* child is pushed and decreased after all children of a task were.
THEOREM QuietWhenDrained == Spec => []DrainedIsQuiet
<1>1. Inv /\ Counts => DrainedIsQuiet
  <2> SUFFICES ASSUME Counts, \E w \in Workers : pc[w] = "drained"
               PROVE  pool = {} /\ \A w \in Workers : ~Busy(w)
    BY DEF DrainedIsQuiet
  <2>1. pool = {} /\ Counted = {}
    BY NothingLeft DEF Counts, DrainedInv
  <2> QED
    BY <2>1 DEF Counted
<1> QED
  BY <1>1, CountsHold, PTL

\* For any pack, traverse() succeeds only after every object was inspected: comparing the
\* number of inspected objects to that of the pack is enough, as none is inspected twice.
THEOREM SuccessIsComplete == Spec => []AllInspected
<1>1. Inv /\ Counts => AllInspected
  <2> SUFFICES ASSUME Inv, Counts, main = "ok" PROVE inspected = DOMAIN Entries
    BY ZenonT(60) DEF AllInspected
  <2> DEFINE N == NumObjects
  <2>1. N \in Nat /\ DOMAIN Entries = 1..N
    BY SMTT(60), PacksAssumption DEF Inv, TreeInv, VectorInv, NumObjects, Entries
  <2>2. inspected \subseteq 1..N /\ Cardinality(inspected) = N
    BY DEF Inv, TypeInv, Counts, EndInv, CountInv
  <2> HIDE DEF N
  <2>3. IsFiniteSet(1..N) /\ Cardinality(1..N) = N
    <3>1. IsFiniteSet(1..N) /\ Cardinality(1..N) = IF 1 > N THEN 0 ELSE N - 1 + 1
      BY <2>1, FS_Interval
    <3> QED
      BY <2>1, <3>1
  <2>4. inspected = 1..N
    BY ZenonT(60), <2>2, <2>3, FS_Subset
  <2> QED
    BY <2>1, <2>4
<1> QED
  BY <1>1, CountsHold, PTL

-----------------------------------------------------------------------------
(* Bases                                                                    *)

\* What a delta is kept under is its base; all that was read is a root or a child.
RootBases == \A i \in 1..Len(rootItems) : Entry(rootItems[i]).kind = "base"

ParentBases == \A x \in children : BaseOf(childItems[x[2]], x[1])

OffsetBases ==
    \A x \in futureChildOffsets : /\ HasBaseOffset(Entry(childItems[x[2]]))
                                  /\ x[1] = BaseOffset(Entry(childItems[x[2]]))

IdBases ==
    \A x \in refChildIndices : /\ HasBaseId(Entry(childItems[x[2]]))
                               /\ x[1] = Entry(childItems[x[2]]).base

AllKept == \A n \in 1..read : \/ \E i \in 1..Len(rootItems) : rootItems[i] = n
                              \/ \E i \in Index : childItems[i] = n

BaseInv == RootBases /\ ParentBases /\ OffsetBases /\ IdBases /\ AllKept

\* What depends on the pack only does not change.
LEMMA PackFrame ==
    ASSUME pack' = pack
    PROVE  /\ \A n : Entry(n)' = Entry(n)
           /\ \A n, p : BaseOf(n, p)' <=> BaseOf(n, p)
           /\ \A e : /\ HasBaseOffset(e)' <=> HasBaseOffset(e)
                     /\ BaseOffset(e)' = BaseOffset(e)
                     /\ HasBaseId(e)' <=> HasBaseId(e)
<1>1. Entries' = Entries
  BY DEF Entries
<1>2. \A n : Entry(n)' = Entry(n)
  BY <1>1 DEF Entry
<1>3. \A i : Indexed(i)' = Indexed(i)
  BY <1>1 DEF Indexed, Entry
<1>4. \A i : OffsetOf(i)' = OffsetOf(i)
  BY <1>1 DEF OffsetOf, Indexed, Entry
<1>5. \A e : /\ HasBaseOffset(e)' <=> HasBaseOffset(e)
             /\ BaseOffset(e)' = BaseOffset(e)
             /\ HasBaseId(e)' <=> HasBaseId(e)
  BY <1>3, <1>4 DEF HasBaseOffset, BaseOffset, HasBaseId
<1>6. \A n, p : BaseOf(n, p)' <=> BaseOf(n, p)
  BY <1>2, <1>5 DEF BaseOf
<1> QED
  BY <1>2, <1>5, <1>6

\* The first step of every lemma on BaseInv: the tree after a step, in the pack before it.
LEMMA BasesAfter ==
    ASSUME pack' = pack,
           \A i \in 1..Len(rootItems') : Entry(rootItems'[i]).kind = "base",
           \A x \in children' : BaseOf(childItems'[x[2]], x[1]),
           \A x \in futureChildOffsets' :
             HasBaseOffset(Entry(childItems'[x[2]])) /\ x[1] = BaseOffset(Entry(childItems'[x[2]])),
           \A x \in refChildIndices' :
             HasBaseId(Entry(childItems'[x[2]])) /\ x[1] = Entry(childItems'[x[2]]).base,
           \A n \in 1..read' : \/ \E i \in 1..Len(rootItems') : rootItems'[i] = n
                               \/ \E i \in Index' : childItems'[i] = n
    PROVE  BaseInv'
<1>1. \A n : Entry(n)' = Entry(n)
  BY PackFrame
<1>2. \A n, p : BaseOf(n, p)' <=> BaseOf(n, p)
  BY PackFrame
<1>3. \A e : /\ HasBaseOffset(e)' <=> HasBaseOffset(e)
             /\ BaseOffset(e)' = BaseOffset(e)
             /\ HasBaseId(e)' <=> HasBaseId(e)
  BY PackFrame
<1>4. RootBases'
  BY <1>1 DEF RootBases
<1>5. ParentBases'
  BY <1>2 DEF ParentBases
<1>6. OffsetBases'
  BY <1>1, <1>3 DEF OffsetBases
<1>7. IdBases'
  BY <1>1, <1>3 DEF IdBases
<1>8. AllKept'
  BY DEF AllKept
<1> QED
  BY ZenonT(60), <1>4, <1>5, <1>6, <1>7, <1>8 DEF BaseInv

LEMMA FrameBases == ASSUME BaseInv, UNCHANGED tree PROVE BaseInv'
<1>1. UNCHANGED <<pack, read, rootItems, childItems, children, futureChildOffsets, refChildIndices>>
  BY DEF tree
<1>2. Index' = Index
  BY <1>1 DEF Index
<1> QED
  BY <1>1, <1>2, BasesAfter DEF BaseInv, RootBases, ParentBases, OffsetBases, IdBases, AllKept

LEMMA AddRootBases == ASSUME TreeInv, BaseInv, AddRoot PROVE BaseInv'
<1>1. /\ NumObjects \in Nat /\ pack' = pack
      /\ read \in 0..(NumObjects - 1) /\ read' = read + 1
  BY AddedRange DEF TreeInv, AddRoot
<1>2. /\ Entry(read + 1).kind = "base" /\ rootItems' = Append(rootItems, read + 1)
      /\ UNCHANGED <<childItems, children, futureChildOffsets, refChildIndices>>
  BY DEF AddRoot
<1>3. /\ Len(rootItems') = Len(rootItems) + 1 /\ Len(rootItems) \in Nat
      /\ rootItems'[Len(rootItems) + 1] = read + 1
      /\ \A i \in 1..Len(rootItems) : rootItems'[i] = rootItems[i]
  BY <1>1, <1>2, Appended DEF TreeInv, VectorInv
<1>4. \A i \in 1..Len(rootItems') : i \in 1..Len(rootItems) \/ i = Len(rootItems) + 1
  BY <1>3
<1>5. \A i \in 1..Len(rootItems') : Entry(rootItems'[i]).kind = "base"
  BY <1>2, <1>3, <1>4 DEF BaseInv, RootBases
<1>6. Index' = Index
  BY <1>2 DEF Index
<1>7. ASSUME NEW n \in 1..read'
      PROVE  \/ \E i \in 1..Len(rootItems') : rootItems'[i] = n
             \/ \E i \in Index' : childItems'[i] = n
  <2>1. CASE n = read + 1
    BY <1>3, <2>1
  <2>2. CASE n \in 1..read
    <3>1. \A i \in 1..Len(rootItems) : i \in 1..Len(rootItems')
      BY <1>3
    <3> QED
      BY ZenonT(60), <1>2, <1>3, <1>6, <2>2, <3>1 DEF BaseInv, AllKept
  <2> QED
    BY SMTT(60), <1>1, <1>7, <2>1, <2>2
<1> QED
  BY ZenonT(60), <1>1, <1>2, <1>5, <1>7, BasesAfter DEF BaseInv, ParentBases, OffsetBases, IdBases

\* Reading a delta: what holds whichever way its base is given.
LEMMA ChildAdded ==
    ASSUME TreeInv, BaseInv, Reading, NEW e, Added(e), rootItems' = rootItems,
           childItems' = Append(childItems, read + 1)
    PROVE  /\ pack' = pack /\ childItems'[Len(childItems) + 1] = read + 1
           /\ \A x \in children \cup futureChildOffsets \cup refChildIndices :
                childItems'[x[2]] = childItems[x[2]]
           /\ \A n \in 1..read' : \/ \E i \in 1..Len(rootItems') : rootItems'[i] = n
                                  \/ \E i \in Index' : childItems'[i] = n
<1>1. /\ NumObjects \in Nat /\ pack' = pack
      /\ read \in 0..(NumObjects - 1) /\ read' = read + 1
  BY AddedRange DEF TreeInv
<1>2. /\ Index' = Index \cup {Len(childItems) + 1}
      /\ childItems'[Len(childItems) + 1] = read + 1
      /\ \A i \in Index : childItems'[i] = childItems[i]
  BY ZenonT(60), AddChildVectors DEF TreeInv
<1>3. \A x \in children \cup futureChildOffsets \cup refChildIndices : x[2] \in Index
  BY DEF TreeInv, KeptInv
<1>4. \A n \in 1..read' : n \in 1..read \/ n = read + 1
  BY <1>1
<1>5. \A n \in 1..read' : \/ \E i \in 1..Len(rootItems') : rootItems'[i] = n
                          \/ \E i \in Index' : childItems'[i] = n
  BY ZenonT(60), <1>2, <1>4 DEF BaseInv, AllKept
<1> QED
  BY ZenonT(60), <1>1, <1>2, <1>3, <1>5

LEMMA AddChildByIdBases == ASSUME TreeInv, BaseInv, AddChildById PROVE BaseInv'
<1> DEFINE e == Entry(read + 1)
           index == Len(childItems) + 1
           base == e.base
<1>1. /\ Reading /\ Added(e) /\ HasBaseId(e)
      /\ rootItems' = rootItems /\ childItems' = Append(childItems, read + 1)
      /\ refChildIndices' = refChildIndices \cup {<<base, index>>}
      /\ UNCHANGED <<children, futureChildOffsets>>
  BY DEF AddChildById
<1>2. /\ pack' = pack /\ childItems'[index] = read + 1
      /\ \A x \in children \cup futureChildOffsets \cup refChildIndices :
           childItems'[x[2]] = childItems[x[2]]
      /\ \A n \in 1..read' : \/ \E i \in 1..Len(rootItems') : rootItems'[i] = n
                             \/ \E i \in Index' : childItems'[i] = n
  BY ZenonT(60), <1>1, ChildAdded
<1> HIDE DEF index, base
<1>3. ASSUME NEW x \in refChildIndices'
      PROVE  HasBaseId(Entry(childItems'[x[2]])) /\ x[1] = Entry(childItems'[x[2]]).base
  <2>1. CASE x \in refChildIndices
    BY <1>2, <2>1 DEF BaseInv, IdBases
  <2>2. CASE x = <<base, index>>
    BY ZenonT(60), <1>1, <1>2, <2>2 DEF base
  <2> QED
    BY ZenonT(60), <1>1, <2>1, <2>2
<1> QED
  BY ZenonT(60), <1>1, <1>2, <1>3, BasesAfter DEF BaseInv, RootBases, ParentBases, OffsetBases

LEMMA AddChildBases == ASSUME TreeInv, BaseInv, AddChild PROVE BaseInv'
<1> DEFINE e == Entry(read + 1)
           index == Len(childItems) + 1
           base == BaseOffset(e)
<1>1. /\ Reading /\ Added(e) /\ HasBaseOffset(e)
      /\ rootItems' = rootItems /\ childItems' = Append(childItems, read + 1)
      /\ children' = children \cup {<<n, index>> : n \in At(base)}
      /\ futureChildOffsets' = IF At(base) = {}
                               THEN futureChildOffsets \cup {<<base, index>>}
                               ELSE futureChildOffsets
      /\ UNCHANGED refChildIndices
  BY DEF AddChild
<1>2. /\ pack' = pack /\ childItems'[index] = read + 1
      /\ \A x \in children \cup futureChildOffsets \cup refChildIndices :
           childItems'[x[2]] = childItems[x[2]]
      /\ \A n \in 1..read' : \/ \E i \in 1..Len(rootItems') : rootItems'[i] = n
                             \/ \E i \in Index' : childItems'[i] = n
  BY ZenonT(60), <1>1, ChildAdded
<1> HIDE DEF index, base
<1>3. ASSUME NEW x \in children' PROVE BaseOf(childItems'[x[2]], x[1])
  <2>1. CASE x \in children
    BY <1>2, <2>1 DEF BaseInv, ParentBases
  <2>2. CASE \E n \in At(base) : x = <<n, index>>
    <3>1. PICK n \in At(base) : x = <<n, index>>
      BY <2>2
    <3>2. Entry(n).offset = base /\ childItems'[x[2]] = read + 1 /\ x[1] = n
      BY ZenonT(60), <1>2, <3>1 DEF At
    <3>3. BaseOf(read + 1, n)
      BY SMTT(60), <1>1, <3>2 DEF base, BaseOf
    <3> QED
      BY <3>2, <3>3
  <2> QED
    BY ZenonT(60), <1>1, <2>1, <2>2
<1>4. ASSUME NEW x \in futureChildOffsets'
      PROVE  HasBaseOffset(Entry(childItems'[x[2]])) /\ x[1] = BaseOffset(Entry(childItems'[x[2]]))
  <2>1. CASE x \in futureChildOffsets
    BY <1>2, <2>1 DEF BaseInv, OffsetBases
  <2>2. CASE x = <<base, index>>
    BY ZenonT(60), <1>1, <1>2, <2>2 DEF base
  <2> QED
    BY ZenonT(60), <1>1, <2>1, <2>2
<1> QED
  BY ZenonT(60), <1>1, <1>2, <1>3, <1>4, BasesAfter DEF BaseInv, RootBases, IdBases

LEMMA TraverseBases == ASSUME BaseInv, Traverse PROVE BaseInv'
<1>1. /\ UNCHANGED <<pack, read, rootItems, childItems, refChildIndices>>
      /\ futureChildOffsets' = {}
      /\ children' = children \cup
           UNION {{<<n, f[2]>> : n \in At(f[1])} : f \in futureChildOffsets}
  BY DEF Traverse
<1>2. Index' = Index
  BY <1>1 DEF Index
<1>3. ASSUME NEW x \in children' PROVE BaseOf(childItems[x[2]], x[1])
  <2>1. CASE x \in children
    BY <2>1 DEF BaseInv, ParentBases
  <2>2. ASSUME NEW f \in futureChildOffsets, NEW n \in At(f[1]), x = <<n, f[2]>>
        PROVE  BaseOf(childItems[x[2]], x[1])
    BY ZenonT(60), <2>2 DEF BaseInv, OffsetBases, At, BaseOf
  <2> QED
    BY ZenonT(60), <1>1, <2>1, <2>2
<1> QED
  BY SMTT(60), ZenonT(60), <1>1, <1>2, <1>3, BasesAfter DEF BaseInv, RootBases, IdBases, AllKept

LEMMA AttachBases == ASSUME BaseInv, NEW w \in Workers, Attach(w) PROVE BaseInv'
<1> DEFINE waiting == WaitingFor(Entry(task[w]).id)
<1>1. /\ UNCHANGED <<pack, read, rootItems, childItems, futureChildOffsets>>
      /\ refChildIndices' \subseteq refChildIndices
      /\ children' = children \cup {<<task[w], r[2]>> : r \in waiting}
  BY DEF Attach
<1>2. Index' = Index
  BY <1>1 DEF Index
<1>3. \A r \in waiting : r \in refChildIndices /\ r[1] = Entry(task[w]).id
  BY SMTT(60) DEF WaitingFor
<1> HIDE DEF waiting
<1>4. ASSUME NEW x \in children' PROVE BaseOf(childItems[x[2]], x[1])
  <2>1. CASE x \in children
    BY ZenonT(60), <2>1 DEF BaseInv, ParentBases
  <2>2. ASSUME NEW r \in waiting, x = <<task[w], r[2]>> PROVE BaseOf(childItems[x[2]], x[1])
    BY ZenonT(60), <1>3, <2>2 DEF BaseInv, IdBases, BaseOf
  <2> QED
    BY ZenonT(60), <1>1, <2>1, <2>2
<1> QED
  BY ZenonT(60), <1>1, <1>2, <1>4, BasesAfter DEF BaseInv, RootBases, OffsetBases, IdBases, AllKept

LEMMA InitBases == Init => BaseInv
<1> SUFFICES ASSUME Init PROVE BaseInv
  OBVIOUS
<1>1. read = 0 /\ rootItems = <<>> /\ children = {} /\ futureChildOffsets = {} /\ refChildIndices = {}
  BY DEF Init
<1>2. 1..Len(rootItems) = {} /\ 1..read = {}
  BY <1>1
<1> QED
  BY ZenonT(60), <1>1, <1>2 DEF BaseInv, RootBases, ParentBases, OffsetBases, IdBases, AllKept

LEMMA NextBases == Inv /\ BaseInv /\ [Next]_vars => BaseInv'
<1> SUFFICES ASSUME Inv, BaseInv, [Next]_vars PROVE BaseInv'
  OBVIOUS
<1>1. CASE AddRoot \/ AddChild \/ AddChildById \/ Traverse \/ \E w \in Workers : Attach(w)
  BY ZenonT(60), <1>1, AddRootBases, AddChildBases, AddChildByIdBases, TraverseBases, AttachBases DEF Inv
<1>2. CASE ~(AddRoot \/ AddChild \/ AddChildById \/ Traverse \/ \E w \in Workers : Attach(w))
  <2>1. UNCHANGED tree
    BY ZenonT(60), <1>2 DEF Next, Caller, Worker, Fault, ReadFails, TraverseFails, Join, Check, Spawn, SpawnFails,
                Interrupt, TaskFails, Panic, CheckAbort, CheckInterrupt, Steal, NothingToSteal, Idle,
                Decode, SkipHashing, Inspect, CountChild, PushChild, TaskDone, UncountFailed, Raise,
                Unwind, vars
  <2> QED
    BY ZenonT(60), <2>1, FrameBases
<1> QED
  BY <1>1, <1>2

\* For any pack and any number of threads, a delta is only resolved once its base was,
\* see HoldInv: the task for a child is made by the worker that inspected the parent,
\* which BaseInv shows to be the base that its entry names.
THEOREM BasesFirst == Spec => BaseFirst
<1>1. Init => Inv /\ BaseInv
  BY InitInv, InitBases
<1>2. Inv /\ BaseInv /\ [Next]_vars => (Inv /\ BaseInv)'
  BY ZenonT(60), NextInv, NextBases
<1> DEFINE Ordered == \A n \in inspected' \ inspected :
                        Entry(n).kind = "base" \/ \E p \in inspected : BaseOf(n, p)
<1>3. Inv /\ BaseInv /\ [Next]_vars => [Ordered]_vars
  <2> SUFFICES ASSUME Inv, BaseInv, Next, NEW n \in inspected' \ inspected
               PROVE  Entry(n).kind = "base" \/ \E p \in inspected : BaseOf(n, p)
    BY ZenonT(60)
  <2>1. inspected' = inspected \/ \E w \in Workers : Inspect(w)
    BY ZenonT(60) DEF Next, Caller, Worker, Fault, AddRoot, AddChild, AddChildById, Added, ReadFails, Traverse,
           TraverseFails, Join, Check, Spawn, SpawnFails, Interrupt, TaskFails, Panic, CheckAbort,
           CheckInterrupt, Steal, NothingToSteal, Idle, Decode, SkipHashing, Attach, CountChild,
           PushChild, TaskDone, UncountFailed, Raise, Unwind, seen
  <2>2. PICK w \in Workers : Inspect(w)
    BY <2>1
  <2>3. pc[w] = "inspect" /\ n = task[w]
    BY <2>2 DEF Inspect, Step
  <2>4. Busy(w)
    BY <2>3 DEF Busy, Holding
  <2>5. Claimed(n) /\ n \in 1..read
    BY <2>3, <2>4 DEF Claimed, Inv, TypeInv
  <2>6. CASE \E i \in 1..Len(rootItems) : rootItems[i] = n
    BY <2>6 DEF BaseInv, RootBases
  <2>7. ASSUME NEW i \in Index, childItems[i] = n PROVE \E p \in inspected : BaseOf(n, p)
    <3>1. PICK x \in children : x[2] = i /\ x[1] \in inspected
      BY SMTT(60), <2>5, <2>7 DEF Inv, HoldInv
    <3> QED
      BY ZenonT(60), <2>7, <3>1 DEF BaseInv, ParentBases
  <2> QED
    BY ZenonT(60), <2>5, <2>6, <2>7 DEF BaseInv, AllKept
<1> QED
  BY <1>1, <1>2, <1>3, PTL DEF Spec, BaseFirst

-----------------------------------------------------------------------------
(* All that can be resolved is                                              *)

\* Workers that will make traverse() fail.
Broken == {"failed", "unwind", "raise", "error", "panicked"}

Calm == \A w \in Workers : pc[w] \notin Broken

\* Every delta that was read is kept under something.
KeptChildren ==
    \A i \in Index :
      /\ Entry(childItems[i]).kind # "base"
      /\ \E x \in children \cup futureChildOffsets \cup refChildIndices : x[2] = i

\* As long as nothing fails, roots and the children of inspected items are in the work or
\* about to be; and so is an item that deltas were attached to by its id.
RootsClaimed ==
    Calm /\ main \notin {"read", "error"} =>
      \A i \in 1..Len(rootItems) : Claimed(rootItems[i])

ChildrenClaimed ==
    Calm => \A x \in children : x[1] \in inspected =>
              Claimed(childItems[x[2]]) \/ \E w \in Workers : x[2] \in todo[w]

ParentsClaimed ==
    Calm => \A x \in children : HasBaseId(Entry(childItems[x[2]])) => Claimed(x[1])

\* No delta waits for an object that was resolved.
WaitingInv ==
    \A r \in refChildIndices :
      /\ \A p \in inspected : Entry(p).id # r[1]
      /\ \A w \in Workers : pc[w] = "inspect" => Entry(task[w]).id # r[1]

\* If nothing failed, workers only leave when they are drained.
LeaveInv ==
    /\ abort => ~Calm \/ main \in {"give up", "error", "panic"}
    /\ \A w \in Workers : pc[w] = "aborted" => abort
    /\ main = "join" => \E w \in Workers : pc[w] # "unborn"
    /\ main \in {"check", "missing", "unresolved"} =>
         /\ \A w \in Workers : pc[w] \in {"unborn", "drained"}
         /\ NumObjects = 0 \/ \E w \in Workers : pc[w] = "drained"
    /\ main \notin {"read", "error"} => futureChildOffsets = {}

WorkerStep(w) == Worker(w) \/ TaskFails(w) \/ Panic(w)

\* What no step of a worker changes.
LEMMA WorkerFrame ==
    ASSUME Inv, NEW w \in Workers, WorkerStep(w)
    PROVE  /\ UNCHANGED <<pack, read, rootItems, childItems, futureChildOffsets, main>>
           /\ pc[w] # "unborn" /\ main # "read"
<1>1. /\ UNCHANGED <<pack, read, rootItems, childItems, futureChildOffsets, main>>
      /\ pc[w] # "unborn"
  BY ZenonT(60) DEF WorkerStep, Worker, CheckAbort, CheckInterrupt, Steal, NothingToSteal, Idle, Decode, SkipHashing,
         Attach, Inspect, CountChild, PushChild, TaskDone, UncountFailed, Raise, Unwind,
         TaskFails, Panic, Step, tree
<1>2. main # "read"
  BY <1>1 DEF Inv, TypeInv
<1> QED
  BY ZenonT(60), <1>1, <1>2

\* What fails never recovers.
LEMMA StaysBroken ==
    ASSUME Inv, NEW w \in Workers, WorkerStep(w)
    PROVE  /\ \E to \in PCs : /\ pc' = [pc EXCEPT ![w] = to]
                              /\ pc[w] \in Broken => to \in Broken
           /\ Calm' => Calm
<1>1. PICK to \in PCs : pc' = [pc EXCEPT ![w] = to]
  <2>1. Inv'
    BY WorkerInv, MoveInv DEF WorkerStep
  <2>2. pc' \in [Workers -> PCs] /\ pc \in [Workers -> PCs]
    BY ZenonT(60), <2>1 DEF Inv, TypeInv
  <2>3. \E to : pc' = [pc EXCEPT ![w] = to]
    BY ZenonT(60) DEF WorkerStep, Worker, CheckAbort, CheckInterrupt, Steal, NothingToSteal, Idle, Decode, SkipHashing,
         Attach, Inspect, CountChild, PushChild, TaskDone, UncountFailed, Raise, Unwind,
         TaskFails, Panic, Step
  <2> QED
    BY ZenonT(60), <2>2, <2>3
<1>2. pc[w] \in Broken => to \in Broken
  <2> SUFFICES ASSUME pc[w] \in Broken PROVE pc'[w] \in Broken
    BY ZenonT(60), <1>1 DEF Inv, TypeInv
  <2>1. UncountFailed(w) \/ Raise(w) \/ Unwind(w)
    BY ZenonT(60) DEF WorkerStep, Worker, CheckAbort, CheckInterrupt, Steal, NothingToSteal, Idle, Decode,
           SkipHashing, Attach, Inspect, CountChild, PushChild, TaskDone, TaskFails, Panic, Step,
           Broken
  <2> QED
    BY ZenonT(60), <2>1 DEF UncountFailed, Raise, Unwind, Step, Broken, Inv, TypeInv
<1>3. Calm' => Calm
  BY ZenonT(60), <1>1, <1>2 DEF Calm, Inv, TypeInv
<1> QED
  BY ZenonT(60), <1>1, <1>2, <1>3

\* As long as nothing fails, what is in the work stays in it.
LEMMA ClaimsStay ==
    ASSUME Inv, NEW w \in Workers, WorkerStep(w), Calm', NEW n, Claimed(n)
    PROVE  Claimed(n)'
<1>1. pc \in [Workers -> PCs] /\ task \in [Workers -> Nat]
  BY DEF Inv, TypeInv
<1>2. pc[w] \notin Broken /\ pc'[w] \notin Broken
  BY SMTT(60), StaysBroken DEF Calm
<1>3. CASE Steal(w)
  <2>1. PICK t \in pool : pool' = pool \ {t} /\ task' = [task EXCEPT ![w] = t.item]
    BY ZenonT(60), <1>3 DEF Steal, Available, Newest, Oldest, Queue
  <2>2. pc[w] = "steal" /\ pc' = [pc EXCEPT ![w] = "decode"] /\ inspected' = inspected
    BY <1>3 DEF Steal, Step, seen
  <2>3. Busy(w)' /\ task'[w] = t.item /\ ~Busy(w)
    BY <1>1, <2>1, <2>2 DEF Busy, Holding
  <2>4. \A v \in Workers : Busy(v) => Busy(v)' /\ task'[v] = task[v]
    BY <1>1, <2>1, <2>2, <2>3 DEF Busy
  <2> QED
    BY ZenonT(60), <2>1, <2>2, <2>3, <2>4 DEF Claimed
<1>4. CASE TaskDone(w)
  <2>1. /\ pc[w] = "children" /\ pc' = [pc EXCEPT ![w] = "abort"]
        /\ UNCHANGED <<pool, task, inspected>>
    BY ZenonT(60), <1>4 DEF TaskDone, Step, seen
  <2>2. task[w] \in inspected
    BY <2>1 DEF Inv, HoldInv, Late
  <2>3. \A v \in Workers : v # w /\ Busy(v) => Busy(v)'
    BY ZenonT(60), <1>1, <2>1 DEF Busy
  <2> QED
    BY ZenonT(60), <2>1, <2>2, <2>3 DEF Claimed
<1>5. CASE ~Steal(w) /\ ~TaskDone(w)
  <2>1. task' = task
    BY ZenonT(60), <1>5 DEF WorkerStep, Worker, CheckAbort, CheckInterrupt, NothingToSteal, Idle, Decode, SkipHashing,
         Attach, Inspect, CountChild, PushChild, UncountFailed, Raise, Unwind,
         TaskFails, Panic
  <2>2. pool \subseteq pool' /\ inspected \subseteq inspected'
    BY ZenonT(60), <1>5 DEF WorkerStep, Worker, CheckAbort, CheckInterrupt, NothingToSteal, Idle, Decode, SkipHashing,
         Attach, Inspect, CountChild, PushChild, UncountFailed, Raise, Unwind,
         TaskFails, Panic, shared, seen
  <2>3. pc[w] \in Holding => pc'[w] \in Holding
    <3>1. CASE UncountFailed(w) \/ Raise(w) \/ Unwind(w)
      BY ZenonT(60), <1>2, <3>1 DEF UncountFailed, Raise, Unwind, Step, Broken
    <3>2. CASE CheckAbort(w) \/ CheckInterrupt(w) \/ NothingToSteal(w) \/ Idle(w)
      BY SMTT(60), <3>2 DEF CheckAbort, CheckInterrupt, NothingToSteal, Idle, Step, Holding
    <3>3. CASE Decode(w) \/ SkipHashing(w) \/ Attach(w) \/ Inspect(w) \/ CountChild(w) \/ PushChild(w)
      BY ZenonT(60), <1>1, <3>3 DEF Decode, SkipHashing, Attach, Inspect, CountChild, PushChild, Step, Holding
    <3>4. CASE TaskFails(w) \/ Panic(w)
      BY ZenonT(60), <1>1, <3>4 DEF TaskFails, Panic, Holding
    <3> QED
      BY ZenonT(60), <1>5, <3>1, <3>2, <3>3, <3>4 DEF WorkerStep, Worker
  <2>4. \A v \in Workers : Busy(v) => Busy(v)'
    BY ZenonT(60), <1>1, <2>3, StaysBroken DEF Busy
  <2> QED
    BY ZenonT(60), <2>1, <2>2, <2>4 DEF Claimed
<1> QED
  BY ZenonT(60), <1>3, <1>4, <1>5

LEMMA WorkerChildren ==
    ASSUME Inv, ChildrenClaimed, NEW w \in Workers, WorkerStep(w) PROVE ChildrenClaimed'
<1> SUFFICES ASSUME Calm', NEW x \in children', x[1] \in inspected'
             PROVE  Claimed(childItems[x[2]])' \/ \E v \in Workers : x[2] \in todo'[v]
  BY DEF ChildrenClaimed
<1>1. childItems' = childItems /\ Calm
  BY WorkerFrame, StaysBroken
<1>2. \A n : Claimed(n) => Claimed(n)'
  BY ClaimsStay
<1>3. todo \in [Workers -> SUBSET Nat] /\ task \in [Workers -> Nat]
  BY SMTT(60) DEF Inv, TypeInv
<1>4. CASE Attach(w)
  <2>1. /\ \A y \in children' : y \in children \/ y[1] = task[w]
        /\ UNCHANGED <<todo, inspected>> /\ pc[w] = "hash"
    BY SMTT(60), ZenonT(60), <1>4 DEF Attach, Step, seen
  <2>2. task[w] \notin inspected
    BY SMTT(60), <2>1 DEF Inv, HoldInv, Early, Unseen
  <2>3. x \in children /\ x[1] \in inspected
    BY <2>1, <2>2
  <2>4. Claimed(childItems[x[2]]) \/ \E v \in Workers : x[2] \in todo[v]
    BY ZenonT(60), <1>1, <2>3 DEF ChildrenClaimed
  <2> QED
    BY ZenonT(60), <1>1, <1>2, <2>1, <2>4
<1>5. CASE Inspect(w)
  <2>1. /\ pc[w] = "inspect" /\ children' = children
        /\ inspected' = inspected \cup {task[w]}
        /\ todo' = [todo EXCEPT ![w] = ChildrenOf(task[w])]
    BY <1>5 DEF Inspect, Step, tree
  <2>2. CASE x[1] = task[w]
    <3>1. x[2] \in DOMAIN childItems /\ x = <<x[1], x[2]>>
      BY <2>1 DEF Inv, TreeInv, KeptInv, VectorInv, Index
    <3>2. x[2] \in ChildrenOf(task[w])
      BY ZenonT(60), <2>1, <2>2, <3>1 DEF ChildrenOf
    <3> QED
      BY ZenonT(60), <1>3, <2>1, <3>2
  <2>3. CASE x[1] # task[w]
    <3>1. x \in children /\ x[1] \in inspected
      BY ZenonT(60), <2>1, <2>3
    <3>2. Claimed(childItems[x[2]]) \/ \E v \in Workers : x[2] \in todo[v]
      BY <1>1, <3>1 DEF ChildrenClaimed
    <3>3. todo[w] = {}
      BY ZenonT(60), <2>1 DEF Inv, HoldInv, Late
    <3>4. \A v \in Workers : x[2] \in todo[v] => x[2] \in todo'[v]
      BY <1>3, <2>1, <3>3
    <3> QED
      BY ZenonT(60), <1>1, <1>2, <3>2, <3>4
  <2> QED
    BY ZenonT(60), <2>2, <2>3
<1>6. CASE PushChild(w)
  <2>1. PICK c \in todo[w] :
          /\ pool' = pool \cup {[ticket |-> tickets + 1, item |-> childItems[c], queue |-> w]}
          /\ todo' = [todo EXCEPT ![w] = @ \ {c}]
    BY ZenonT(60), <1>6 DEF PushChild
  <2>2. children' = children /\ inspected' = inspected
    BY <1>6 DEF PushChild, tree, seen
  <2>3. Claimed(childItems[x[2]]) \/ \E v \in Workers : x[2] \in todo[v]
    BY <1>1, <2>2 DEF ChildrenClaimed
  <2>4. \E t \in pool' : t.item = childItems'[c]
    <3>1. \A t : t = [ticket |-> tickets + 1, item |-> childItems[c], queue |-> w]
                   => t \in pool' /\ t.item = childItems[c]
      BY <2>1
    <3> QED
      BY ZenonT(60), <1>1, <3>1
  <2>5. Claimed(childItems[c])'
    BY <2>4 DEF Claimed
  <2>6. \A v \in Workers : x[2] \in todo[v] => x[2] \in todo'[v] \/ x[2] = c
    BY <1>3, <2>1
  <2> QED
    BY SMTT(60), ZenonT(60), <1>1, <1>2, <2>3, <2>5, <2>6
<1>7. CASE ~Attach(w) /\ ~Inspect(w) /\ ~PushChild(w)
  <2>1. UNCHANGED <<children, inspected, todo>>
    BY ZenonT(60), <1>7 DEF WorkerStep, Worker, CheckAbort, CheckInterrupt, Steal, NothingToSteal, Idle,
           Decode, SkipHashing, CountChild, TaskDone, UncountFailed, Raise, Unwind,
           TaskFails, Panic, tree, seen
  <2>2. Claimed(childItems[x[2]]) \/ \E v \in Workers : x[2] \in todo[v]
    BY <1>1, <2>1 DEF ChildrenClaimed
  <2> QED
    BY SMTT(60), ZenonT(60), <1>1, <1>2, <2>1, <2>2
<1> QED
  BY ZenonT(60), <1>4, <1>5, <1>6, <1>7

LEMMA WorkerParents ==
    ASSUME Inv, ParentsClaimed, NEW w \in Workers, WorkerStep(w) PROVE ParentsClaimed'
<1> SUFFICES ASSUME Calm', NEW x \in children', HasBaseId(Entry(childItems[x[2]]))'
             PROVE  Claimed(x[1])'
  BY DEF ParentsClaimed
<1>1. childItems' = childItems /\ pack' = pack /\ Calm
  BY ZenonT(60), WorkerFrame, StaysBroken
<1>2. \A n : Claimed(n) => Claimed(n)'
  BY ZenonT(60), ClaimsStay
<1>3. HasBaseId(Entry(childItems[x[2]]))
  BY ZenonT(60), <1>1, PackFrame
<1>4. CASE x \in children
  BY ZenonT(60), <1>1, <1>2, <1>3, <1>4 DEF ParentsClaimed
<1>5. CASE x \notin children
  <2>1. Attach(w)
    BY ZenonT(60), <1>5 DEF WorkerStep, Worker, CheckAbort, CheckInterrupt, Steal, NothingToSteal, Idle,
           Decode, SkipHashing, Inspect, CountChild, PushChild, TaskDone, UncountFailed,
           Raise, Unwind, TaskFails, Panic, tree
  <2>2. pc[w] = "hash" /\ x[1] = task[w]
    BY <1>5, <2>1 DEF Attach, Step
  <2>3. Claimed(x[1])
    BY <2>2 DEF Claimed, Busy, Holding
  <2> QED
    BY ZenonT(60), <1>2, <2>3
<1> QED
  BY <1>4, <1>5

LEMMA WorkerWaiting ==
    ASSUME Inv, WaitingInv, NEW w \in Workers, WorkerStep(w) PROVE WaitingInv'
<1>1. pack' = pack /\ \A n : Entry(n)' = Entry(n)
  BY ZenonT(60), WorkerFrame, PackFrame
<1>2. pc \in [Workers -> PCs] /\ task \in [Workers -> Nat]
  BY ZenonT(60) DEF Inv, TypeInv
<1>3. ASSUME refChildIndices' \subseteq refChildIndices,
             \A r \in refChildIndices' : \A p \in inspected' : Entry(p).id # r[1],
             \A r \in refChildIndices' : \A v \in Workers :
               pc'[v] = "inspect" => Entry(task'[v]).id # r[1]
      PROVE  WaitingInv'
  BY ZenonT(60), <1>1, <1>3 DEF WaitingInv
<1>4. CASE Attach(w)
  <2>1. /\ pc' = [pc EXCEPT ![w] = "inspect"] /\ UNCHANGED <<task, inspected>>
        /\ refChildIndices' = refChildIndices \ WaitingFor(Entry(task[w]).id)
    BY <1>4 DEF Attach, Step, seen
  <2>2. \A r \in refChildIndices' : Entry(task[w]).id # r[1]
    BY <2>1 DEF WaitingFor
  <2>3. \A v \in Workers : v # w => pc'[v] = pc[v]
    BY ZenonT(60), <1>2, <2>1
  <2> QED
    BY SMTT(60), ZenonT(60), <1>3, <2>1, <2>2, <2>3 DEF WaitingInv
<1>5. CASE Inspect(w)
  <2>1. /\ pc[w] = "inspect" /\ pc' = [pc EXCEPT ![w] = "children"]
        /\ UNCHANGED <<task, refChildIndices>> /\ inspected' = inspected \cup {task[w]}
    BY <1>5 DEF Inspect, Step, tree
  <2>2. \A v \in Workers : pc'[v] = "inspect" => pc[v] = "inspect"
    BY ZenonT(60), <1>2, <2>1
  <2> QED
    BY ZenonT(60), <1>3, <2>1, <2>2 DEF WaitingInv
<1>6. CASE SkipHashing(w)
  <2>1. /\ pc' = [pc EXCEPT ![w] = IF refChildIndices = {} THEN "inspect" ELSE "hash"]
        /\ UNCHANGED <<task, refChildIndices, inspected>>
    BY <1>6 DEF SkipHashing, Step, tree, seen
  <2>2. refChildIndices = {} \/ \A v \in Workers : pc'[v] = "inspect" => pc[v] = "inspect"
    BY ZenonT(60), <1>2, <2>1
  <2> QED
    BY <1>3, <2>1, <2>2 DEF WaitingInv
<1>7. CASE Steal(w)
  <2>1. /\ pc' = [pc EXCEPT ![w] = "decode"] /\ UNCHANGED <<refChildIndices, inspected>>
        /\ \E n : task' = [task EXCEPT ![w] = n]
    BY ZenonT(60), <1>7 DEF Steal, Step, tree, seen
  <2>2. \A v \in Workers : pc'[v] = "inspect" => pc[v] = "inspect" /\ task'[v] = task[v]
    BY ZenonT(60), <1>2, <2>1
  <2> QED
    BY SMTT(60), <1>3, <2>1, <2>2 DEF WaitingInv
<1>8. CASE ~Attach(w) /\ ~Inspect(w) /\ ~SkipHashing(w) /\ ~Steal(w)
  <2>1. UNCHANGED <<task, refChildIndices, inspected>>
    BY ZenonT(60), <1>8 DEF WorkerStep, Worker, CheckAbort, CheckInterrupt, NothingToSteal, Idle, Decode,
           CountChild, PushChild, TaskDone, UncountFailed, Raise, Unwind, TaskFails, Panic, tree, seen
  <2>2. \E to : pc' = [pc EXCEPT ![w] = to] /\ to # "inspect"
    BY <1>8 DEF WorkerStep, Worker, CheckAbort, CheckInterrupt, NothingToSteal, Idle, Decode,
           CountChild, PushChild, TaskDone, UncountFailed, Raise, Unwind, TaskFails, Panic, Step
  <2>3. \A v \in Workers : pc'[v] = "inspect" => pc[v] = "inspect"
    BY <1>2, <2>2
  <2> QED
    BY <1>3, <2>1, <2>3 DEF WaitingInv
<1> QED
  BY ZenonT(60), <1>4, <1>5, <1>6, <1>7, <1>8

LEMMA WorkerLeave ==
    ASSUME Inv, LeaveInv, NEW w \in Workers, WorkerStep(w) PROVE LeaveInv'
<1>1. /\ UNCHANGED <<pack, read, rootItems, childItems, futureChildOffsets, main>>
      /\ pc[w] # "unborn"
  BY WorkerFrame
<1>2. PICK to \in PCs : pc' = [pc EXCEPT ![w] = to] /\ (pc[w] \in Broken => to \in Broken)
  BY StaysBroken
<1>3. pc \in [Workers -> PCs] /\ NumObjects' = NumObjects
  BY ZenonT(60), <1>1 DEF Inv, TypeInv, NumObjects, Entries
<1>4. to = "unborn" => FALSE
  BY ZenonT(60), <1>2, <1>3 DEF WorkerStep, Worker, CheckAbort, CheckInterrupt, Steal, NothingToSteal, Idle,
           Decode, SkipHashing, Attach, Inspect, CountChild, PushChild, TaskDone,
           UncountFailed, Raise, Unwind, TaskFails, Panic, Step
<1>5. main \notin {"check", "missing", "unresolved"}
  <2>1. pc[w] \notin {"unborn", "drained"}
    BY ZenonT(60) DEF WorkerStep, Worker, CheckAbort, CheckInterrupt, Steal, NothingToSteal, Idle,
           Decode, SkipHashing, Attach, Inspect, CountChild, PushChild, TaskDone,
           UncountFailed, Raise, Unwind, TaskFails, Panic, Step
  <2> QED
    BY ZenonT(60), <2>1 DEF LeaveInv
<1>6. main = "join" => \E v \in Workers : pc'[v] # "unborn"
  BY ZenonT(60), <1>2, <1>3, <1>4
<1>7. CASE CheckAbort(w)
  <2>1. abort' = abort /\ pc' = [pc EXCEPT ![w] = IF abort THEN "aborted" ELSE "interrupt"]
    BY SMTT(60), <1>7 DEF CheckAbort, Step, shared
  <2>2. \A v \in Workers : pc'[v] = "aborted" => abort
    BY ZenonT(60), <1>3, <2>1 DEF LeaveInv
  <2>3. abort => ~Calm' \/ main \in {"give up", "error", "panic"}
    BY ZenonT(60), StaysBroken DEF LeaveInv
  <2> QED
    BY ZenonT(60), <1>1, <1>3, <1>5, <1>6, <2>1, <2>2, <2>3 DEF LeaveInv
<1>8. CASE ~CheckAbort(w)
  <2>1. to # "aborted"
    BY ZenonT(60), <1>2, <1>3, <1>8 DEF WorkerStep, Worker, CheckInterrupt, Steal, NothingToSteal, Idle, Decode,
           SkipHashing, Attach, Inspect, CountChild, PushChild, TaskDone, UncountFailed,
           Raise, Unwind, TaskFails, Panic, Step
  <2>2. abort => abort'
    BY ZenonT(60), <1>8 DEF WorkerStep, Worker, CheckInterrupt, Steal, NothingToSteal, Idle, Decode,
           SkipHashing, Attach, Inspect, CountChild, PushChild, TaskDone, UncountFailed,
           Raise, Unwind, TaskFails, Panic, shared
  <2>3. abort' => abort \/ to \in Broken
    BY ZenonT(60), <1>2, <1>3, <1>8 DEF WorkerStep, Worker, CheckInterrupt, Steal, NothingToSteal, Idle, Decode,
           SkipHashing, Attach, Inspect, CountChild, PushChild, TaskDone, UncountFailed,
           Raise, Unwind, TaskFails, Panic, Step, shared, Broken
  <2>4. to \in Broken => ~Calm'
    BY SMTT(60), <1>2, <1>3 DEF Calm
  <2>5. abort' => ~Calm' \/ main \in {"give up", "error", "panic"}
    BY ZenonT(60), <2>3, <2>4, StaysBroken DEF LeaveInv
  <2>6. \A v \in Workers : pc'[v] = "aborted" => abort'
    BY ZenonT(60), <1>2, <1>3, <2>1, <2>2 DEF LeaveInv
  <2> QED
    BY ZenonT(60), <1>1, <1>3, <1>5, <1>6, <2>5, <2>6 DEF LeaveInv
<1> QED
  BY <1>7, <1>8

LEMMA ReadChildren ==
    ASSUME TreeInv, BaseInv, KeptChildren, AddChild \/ AddChildById PROVE KeptChildren'
<1> DEFINE e == Entry(read + 1)
           index == Len(childItems) + 1
           base == BaseOffset(e)
<1>1. /\ Reading /\ Added(e)
      /\ rootItems' = rootItems /\ childItems' = Append(childItems, read + 1)
  BY ZenonT(60) DEF AddChild, AddChildById
<1>2. e.kind # "base"
  BY ZenonT(60) DEF AddChild, AddChildById, HasBaseOffset, HasBaseId
<1>3. children \subseteq children' /\ futureChildOffsets \subseteq futureChildOffsets'
      /\ refChildIndices \subseteq refChildIndices'
  BY DEF AddChild, AddChildById
<1>4. pack' = pack /\ childItems'[index] = read + 1
  BY ZenonT(60), <1>1, ChildAdded
<1>5. Index' = Index \cup {index} /\ \A i \in Index : childItems'[i] = childItems[i]
  BY ZenonT(60), <1>1, AddChildVectors DEF TreeInv
<1>6. \E x \in children' \cup futureChildOffsets' \cup refChildIndices' : x[2] = index
  <2>1. CASE AddChildById
    <3>1. <<e.base, index>> \in refChildIndices'
      BY <2>1 DEF AddChildById
    <3> HIDE DEF index
    <3> QED
      BY <3>1
  <2>2. CASE AddChild
    <3>1. /\ children' = children \cup {<<n, index>> : n \in At(base)}
          /\ futureChildOffsets' = IF At(base) = {}
                                   THEN futureChildOffsets \cup {<<base, index>>}
                                   ELSE futureChildOffsets
      BY ZenonT(60), <2>2 DEF AddChild
    <3> HIDE DEF index, base
    <3>2. CASE At(base) = {}
      <4>1. <<base, index>> \in futureChildOffsets'
        BY ZenonT(60), <3>1, <3>2
      <4> QED
        BY SMTT(60), <4>1
    <3>3. ASSUME NEW n \in At(base) PROVE \E x \in children' : x[2] = index
      <4>1. <<n, index>> \in children'
        BY SMTT(60), <3>1
      <4> QED
        BY ZenonT(60), <4>1
    <3> QED
      BY ZenonT(60), <3>2, <3>3
  <2> QED
    BY <2>1, <2>2
<1>7. \A n : Entry(n)' = Entry(n)
  BY ZenonT(60), <1>4, PackFrame
<1> HIDE DEF index
<1> QED
  BY ZenonT(60), <1>2, <1>3, <1>4, <1>5, <1>6, <1>7 DEF KeptChildren

LEMMA NextChildren == Inv /\ BaseInv /\ KeptChildren /\ [Next]_vars => KeptChildren'
<1> SUFFICES ASSUME Inv, BaseInv, KeptChildren, [Next]_vars PROVE KeptChildren'
  OBVIOUS
<1>1. CASE AddChild \/ AddChildById
  BY ZenonT(60), <1>1, ReadChildren DEF Inv
<1>2. ASSUME pack' = pack, childItems' = childItems,
             \A x \in children \cup futureChildOffsets \cup refChildIndices :
               \E y \in children' \cup futureChildOffsets' \cup refChildIndices' : y[2] = x[2]
      PROVE  KeptChildren'
  <2>1. Index' = Index /\ \A n : Entry(n)' = Entry(n)
    BY ZenonT(60), <1>2, PackFrame DEF Index
  <2> QED
    BY ZenonT(60), <1>2, <2>1 DEF KeptChildren
<1>3. CASE AddRoot
  BY ZenonT(60), <1>2, <1>3 DEF AddRoot, Added
<1>4. CASE Traverse
  <2>1. /\ UNCHANGED <<pack, childItems, refChildIndices>>
        /\ children' = children \cup
             UNION {{<<n, f[2]>> : n \in At(f[1])} : f \in futureChildOffsets}
        /\ \A f \in futureChildOffsets : At(f[1]) # {}
    BY <1>4 DEF Traverse, BasesAdded
  <2>2. ASSUME NEW f \in futureChildOffsets PROVE \E y \in children' : y[2] = f[2]
    <3>1. PICK n \in At(f[1]) : TRUE
      BY ZenonT(60), <2>1
    <3>2. <<n, f[2]>> \in children'
      BY SMTT(60), <2>1, <3>1
    <3> QED
      BY ZenonT(60), <3>2
  <2> QED
    BY ZenonT(60), <1>2, <2>1, <2>2
<1>5. CASE \E w \in Workers : Attach(w)
  <2>1. PICK w \in Workers : Attach(w)
    BY ZenonT(60), <1>5
  <2> DEFINE waiting == WaitingFor(Entry(task[w]).id)
  <2>2. /\ UNCHANGED <<pack, childItems, futureChildOffsets>>
        /\ refChildIndices' = refChildIndices \ waiting
        /\ children' = children \cup {<<task[w], r[2]>> : r \in waiting}
    BY ZenonT(60), <2>1 DEF Attach
  <2> HIDE DEF waiting
  <2>3. ASSUME NEW x \in waiting PROVE \E y \in children' : y[2] = x[2]
    <3>1. <<task[w], x[2]>> \in children'
      BY SMTT(60), <2>2
    <3> QED
      BY ZenonT(60), <3>1
  <2> QED
    BY ZenonT(60), <1>2, <2>2, <2>3
<1>6. CASE ~(AddRoot \/ AddChild \/ AddChildById \/ Traverse \/ \E w \in Workers : Attach(w))
  <2>1. UNCHANGED tree
    BY ZenonT(60), <1>6 DEF Next, Caller, Worker, Fault, ReadFails, TraverseFails, Join, Check, Spawn, SpawnFails,
                Interrupt, TaskFails, Panic, CheckAbort, CheckInterrupt, Steal, NothingToSteal, Idle,
                Decode, SkipHashing, Inspect, CountChild, PushChild, TaskDone, UncountFailed, Raise,
                Unwind, vars
  <2> QED
    BY ZenonT(60), <1>2, <2>1 DEF tree
<1> QED
  BY ZenonT(60), <1>1, <1>3, <1>4, <1>5, <1>6

Resolving ==
    KeptChildren /\ RootsClaimed /\ ChildrenClaimed /\ ParentsClaimed /\ WaitingInv /\ LeaveInv

LEMMA InitResolving == Init => Resolving
<1> SUFFICES ASSUME Init PROVE Resolving
  OBVIOUS
<1>1. /\ childItems = <<>> /\ children = {} /\ refChildIndices = {} /\ main = "read" /\ ~abort
      /\ \A w \in Workers : pc[w] = "unborn"
  BY DEF Init
<1>2. Index = {}
  BY <1>1 DEF Index
<1>3. LeaveInv
  BY <1>1 DEF LeaveInv
<1> QED
  BY ZenonT(60), <1>1, <1>2, <1>3
     DEF Resolving, KeptChildren, RootsClaimed, ChildrenClaimed, ParentsClaimed, WaitingInv

LEMMA WorkerResolving ==
    ASSUME Inv, Resolving, NEW w \in Workers, WorkerStep(w)
    PROVE  RootsClaimed' /\ ChildrenClaimed' /\ ParentsClaimed' /\ WaitingInv' /\ LeaveInv'
<1>1. RootsClaimed'
  <2>1. UNCHANGED <<rootItems, main>> /\ (Calm' => Calm)
    BY ZenonT(60), WorkerFrame, StaysBroken
  <2>2. Calm' => \A n : Claimed(n) => Claimed(n)'
    BY ClaimsStay
  <2> QED
    BY ZenonT(60), <2>1, <2>2 DEF RootsClaimed, Resolving
<1> QED
  BY ZenonT(60), <1>1, WorkerChildren, WorkerParents, WorkerWaiting, WorkerLeave DEF Resolving

\* Before the traversal nothing is in the work, and all workers are unborn.
LEMMA ReadResolving ==
    ASSUME Inv, BaseInv, Resolving,
           AddRoot \/ AddChild \/ AddChildById \/ ReadFails \/ TraverseFails \/ Traverse
    PROVE  RootsClaimed' /\ ChildrenClaimed' /\ ParentsClaimed' /\ WaitingInv' /\ LeaveInv'
<1>1. main = "read" /\ UNCHANGED <<workers, seen, abort>> /\ pack' = pack
  BY ZenonT(60) DEF AddRoot, AddChild, AddChildById, ReadFails, TraverseFails, Traverse, Reading, Added,
         shared, tree
<1>2. inspected' = {} /\ \A w \in Workers : pc'[w] = "unborn" /\ pc[w] = "unborn"
  BY <1>1 DEF Inv, TypeInv, workers, seen
<1>3. Calm
  BY <1>2 DEF Calm, Broken
<1>4. \A n : ~Claimed(n)
  <2>1. pool = {} /\ inspected = {}
    BY <1>1 DEF Inv, TypeInv
  <2> QED
    BY ZenonT(60), <1>2, <2>1 DEF Claimed, Busy, Holding
<1>5. ChildrenClaimed' /\ WaitingInv'
  BY <1>2 DEF ChildrenClaimed, WaitingInv
<1>6. ~abort'
  BY <1>1, <1>3 DEF Resolving, LeaveInv
<1>7. RootsClaimed'
  <2>1. CASE Traverse
    <3>1. /\ rootItems' = rootItems
          /\ pool' = {[ticket |-> i, item |-> rootItems[i], queue |-> Roots] : i \in DOMAIN rootItems}
      BY ZenonT(60), <2>1 DEF Traverse
    <3>2. \A i \in 1..Len(rootItems) : \E t \in pool' : t.item = rootItems[i]
      <4>1. DOMAIN rootItems = 1..Len(rootItems)
        BY DEF Inv, TreeInv, VectorInv
      <4>2. \A t, i : t = [ticket |-> i, item |-> rootItems[i], queue |-> Roots]
                        => t.item = rootItems[i]
        OBVIOUS
      <4> QED
        BY ZenonT(60), <3>1, <4>1, <4>2
    <3> QED
      BY ZenonT(60), <3>1, <3>2 DEF RootsClaimed, Claimed
  <2>2. CASE ~Traverse
    <3>1. main' \in {"read", "error"}
      BY <2>2 DEF AddRoot, AddChild, AddChildById, ReadFails, TraverseFails, Added
    <3> QED
      BY ZenonT(60), <3>1 DEF RootsClaimed
  <2> QED
    BY ZenonT(60), <2>1, <2>2
<1>8. ParentsClaimed'
  <2> SUFFICES ASSUME NEW x \in children' PROVE ~HasBaseId(Entry(childItems[x[2]]))'
    BY ZenonT(60) DEF ParentsClaimed
  <2>1. SUFFICES ~HasBaseId(Entry(childItems'[x[2]]))
    BY ZenonT(60), <1>1, PackFrame
  <2>2. \A y \in children : ~HasBaseId(Entry(childItems[y[2]]))
    BY <1>3, <1>4 DEF Resolving, ParentsClaimed
  <2>3. \A e : HasBaseOffset(e) => ~HasBaseId(e)
    BY DEF HasBaseOffset, HasBaseId
  <2>4. CASE AddRoot \/ ReadFails \/ TraverseFails
    <3>1. UNCHANGED <<children, childItems>>
      BY ZenonT(60), <2>4 DEF AddRoot, ReadFails, TraverseFails, tree
    <3> QED
      BY ZenonT(60), <2>2, <3>1
  <2>5. CASE AddChild \/ AddChildById
    <3> DEFINE e == Entry(read + 1)
               index == Len(childItems) + 1
    <3>1. /\ Reading /\ Added(e)
          /\ rootItems' = rootItems /\ childItems' = Append(childItems, read + 1)
      BY ZenonT(60), <2>5 DEF AddChild, AddChildById
    <3>2. /\ childItems'[index] = read + 1
          /\ \A y \in children : childItems'[y[2]] = childItems[y[2]]
      BY ZenonT(60), <3>1, ChildAdded DEF Inv
    <3>3. x \in children \/ (x[2] = index /\ HasBaseOffset(e))
      <4>1. CASE AddChild
        <5>1. /\ HasBaseOffset(e)
              /\ children' = children \cup {<<n, index>> : n \in At(BaseOffset(e))}
          BY ZenonT(60), <4>1 DEF AddChild
        <5>2. ASSUME x \notin children PROVE x[2] = index
          <6>1. PICK n \in At(BaseOffset(e)) : x = <<n, index>>
            BY ZenonT(60), <5>1, <5>2
          <6> QED
            BY <6>1
        <5> QED
          BY <5>1, <5>2
      <4>2. CASE AddChildById
        BY ZenonT(60), <4>2 DEF AddChildById
      <4> QED
        BY <2>5, <4>1, <4>2
    <3> QED
      BY ZenonT(60), <2>2, <2>3, <3>2, <3>3
  <2>6. CASE Traverse
    <3>1. /\ childItems' = childItems
          /\ children' = children \cup
               UNION {{<<n, f[2]>> : n \in At(f[1])} : f \in futureChildOffsets}
      BY <2>6 DEF Traverse
    <3>2. x \in children \/ \E f \in futureChildOffsets : x[2] = f[2]
      BY SMTT(60), <3>1
    <3> QED
      BY ZenonT(60), <2>2, <2>3, <3>1, <3>2 DEF BaseInv, OffsetBases
  <2> QED
    BY ZenonT(60), <2>4, <2>5, <2>6
<1>9. LeaveInv'
  <2>1. CASE Traverse
    <3>1. /\ main' = IF Threads = {} THEN "check" ELSE "spawn"
          /\ futureChildOffsets' = {}
      BY <2>1 DEF Traverse
    <3>2. Threads = {} => NumObjects' = 0
      <4>1. 1 \in Workers /\ NumObjects \in Nat /\ NumObjects' = NumObjects
        BY SMTT(60), <1>1, ThreadsAssumption, NumObjectsType
           DEF Workers, Inv, TreeInv, VectorInv, NumObjects, Entries
      <4> QED
        BY SMTT(60), <4>1 DEF Threads
    <3> QED
      BY ZenonT(60), <1>2, <1>6, <3>1, <3>2 DEF LeaveInv
  <2>2. CASE ~Traverse
    <3>1. main' \in {"read", "error"}
      BY <2>2 DEF AddRoot, AddChild, AddChildById, ReadFails, TraverseFails, Added
    <3> QED
      BY ZenonT(60), <1>2, <1>6, <3>1 DEF LeaveInv
  <2> QED
    BY <2>1, <2>2
<1> QED
  BY ZenonT(60), <1>5, <1>7, <1>8, <1>9

LEMMA CallerResolving ==
    ASSUME Inv, Resolving, Join \/ Check \/ SpawnFails \/ Interrupt \/ UNCHANGED vars
                           \/ \E w \in Workers : Spawn(w)
    PROVE  RootsClaimed' /\ ChildrenClaimed' /\ ParentsClaimed' /\ WaitingInv' /\ LeaveInv'
<1>1. UNCHANGED <<tree, pool, task, todo, inspected>>
  BY DEF Join, Check, SpawnFails, Interrupt, Spawn, vars, shared, workers, seen
<1>2. UNCHANGED <<pack, read, rootItems, childItems, children, futureChildOffsets, refChildIndices>>
  BY <1>1 DEF tree
<1>3. pc \in [Workers -> PCs]
  BY ZenonT(60) DEF Inv, TypeInv
<1>4. pc' = pc \/ \E w \in Workers : pc[w] = "unborn" /\ pc' = [pc EXCEPT ![w] = "abort"]
  BY DEF Join, Check, SpawnFails, Interrupt, Spawn, vars, workers
<1>5. \A w \in Workers : /\ pc'[w] \in Holding <=> pc[w] \in Holding
                         /\ pc'[w] \in Broken <=> pc[w] \in Broken
                         /\ pc'[w] = "inspect" <=> pc[w] = "inspect"
                         /\ pc'[w] = "aborted" <=> pc[w] = "aborted"
  BY ZenonT(60), <1>3, <1>4 DEF Holding, Broken
<1>6. \A n : Claimed(n)' <=> Claimed(n)
  BY ZenonT(60), <1>1, <1>5 DEF Claimed, Busy
<1>7. Calm' <=> Calm
  BY ZenonT(60), <1>5 DEF Calm
<1>8. (\A n : Entry(n)' = Entry(n)) /\ NumObjects' = NumObjects
      /\ \A e : HasBaseId(e)' <=> HasBaseId(e)
  BY ZenonT(60), <1>2, PackFrame DEF NumObjects, Entries
<1>9. main \in {"read", "error"} => main' \in {"read", "error"}
  BY DEF Join, Check, SpawnFails, Interrupt, Spawn, vars
<1>10. RootsClaimed'
  BY ZenonT(60), <1>2, <1>6, <1>7, <1>9 DEF RootsClaimed, Resolving
<1>11. ChildrenClaimed'
  BY ZenonT(60), <1>1, <1>2, <1>6, <1>7 DEF ChildrenClaimed, Resolving
<1>12. ParentsClaimed'
  BY ZenonT(60), <1>2, <1>6, <1>7, <1>8 DEF ParentsClaimed, Resolving
<1>13. WaitingInv'
  BY ZenonT(60), <1>1, <1>2, <1>5, <1>8 DEF WaitingInv, Resolving
<1>14. CASE Join
  <2>1. /\ UNCHANGED <<pc, abort>> /\ main \in {"join", "give up"}
        /\ \A w \in Workers : pc[w] \in Left
        /\ main' \in {"panic", "error", "check"}
        /\ main' = "check" => main = "join" /\ \A w \in Workers : pc[w] \notin {"panicked", "error"}
    BY <1>14 DEF Join, shared, workers
  <2>2. main' = "check" => \A w \in Workers : pc[w] \in {"unborn", "drained", "aborted"}
    BY ZenonT(60), <2>1 DEF Left
  <2>3. main' = "check" => Calm /\ main = "join"
    BY ZenonT(60), <2>1, <2>2 DEF Calm, Broken
  <2>4. main' = "check" => ~abort
    BY <2>3 DEF Resolving, LeaveInv
  <2>5. main' = "check" => \A w \in Workers : pc[w] \in {"unborn", "drained"}
    BY ZenonT(60), <2>2, <2>4 DEF Resolving, LeaveInv
  <2>6. main' = "check" => \E w \in Workers : pc[w] = "drained"
    BY ZenonT(60), <2>3, <2>5 DEF Resolving, LeaveInv
  <2>7. abort => ~Calm \/ main' \in {"error", "panic"}
    BY ZenonT(60), <2>1, <2>4
  <2> QED
    BY ZenonT(60), <1>2, <1>7, <1>8, <2>1, <2>5, <2>6, <2>7, <1>10, <1>11, <1>12, <1>13 DEF Resolving, LeaveInv
<1>15. CASE Check
  <2>1. UNCHANGED <<pc, abort>> /\ main = "check" /\ main' \in {"missing", "unresolved", "ok"}
    BY ZenonT(60), <1>15 DEF Check, shared, workers
  <2>2. Calm /\ ~abort
    BY SMTT(60), <2>1 DEF Resolving, LeaveInv, Calm, Broken
  <2> QED
    BY ZenonT(60), <1>2, <1>8, <1>10, <1>11, <1>12, <1>13, <2>1, <2>2 DEF Resolving, LeaveInv
<1>16. CASE SpawnFails
  <2>1. pc' = pc /\ main = "spawn" /\ main' = "give up" /\ abort' = TRUE
    BY ZenonT(60), <1>16 DEF SpawnFails, workers
  <2> QED
    BY ZenonT(60), <1>2, <1>10, <1>11, <1>12, <1>13, <2>1 DEF Resolving, LeaveInv
<1>17. CASE Interrupt \/ UNCHANGED vars
  <2>1. UNCHANGED <<pc, abort, main>>
    BY SMTT(60), <1>17 DEF Interrupt, vars, shared, workers
  <2> QED
    BY ZenonT(60), <1>2, <1>7, <1>8, <1>10, <1>11, <1>12, <1>13, <2>1 DEF Resolving, LeaveInv
<1>18. CASE \E w \in Workers : Spawn(w)
  <2>1. PICK w \in Workers : Spawn(w)
    BY ZenonT(60), <1>18
  <2>2. /\ main = "spawn" /\ main' \in {"spawn", "join"} /\ abort' = abort
        /\ pc' = [pc EXCEPT ![w] = "abort"]
    BY <2>1 DEF Spawn, shared
  <2>3. pc'[w] # "unborn"
    BY <1>3, <2>2
  <2> QED
    BY ZenonT(60), <1>2, <1>5, <1>7, <1>10, <1>11, <1>12, <1>13, <2>2, <2>3 DEF Resolving, LeaveInv
<1> QED
  BY ZenonT(60), <1>14, <1>15, <1>16, <1>17, <1>18

LEMMA NextResolving == Inv /\ BaseInv /\ Resolving /\ [Next]_vars => Resolving'
<1> SUFFICES ASSUME Inv, BaseInv, Resolving, [Next]_vars PROVE Resolving'
  OBVIOUS
<1>1. KeptChildren'
  BY NextChildren DEF Resolving
<1>2. RootsClaimed' /\ ChildrenClaimed' /\ ParentsClaimed' /\ WaitingInv' /\ LeaveInv'
  BY WorkerResolving, ReadResolving, CallerResolving DEF WorkerStep, Next, Caller, Fault
<1> QED
  BY <1>1, <1>2 DEF Resolving

\* For any pack and any number of threads, objects are only reported as unresolved, or
\* bases as missing, if the pack does not resolve them: no child is lost between the
\* threads, and the deltas that wait for an id are attached by the first that resolves it.
THEOREM ReportsAreTrue == Spec => []UnresolvedIsTrue
<1>1. Init => Inv /\ Counts /\ BaseInv /\ Resolving
  BY ZenonT(60), InitInv, InitCount, InitBases, InitResolving
<1>2. Inv /\ Counts /\ BaseInv /\ Resolving /\ [Next]_vars => (Inv /\ Counts /\ BaseInv /\ Resolving)'
  BY ZenonT(60), NextInv, NextCount, NextBases, NextResolving
<1>3. Inv /\ Counts /\ BaseInv /\ Resolving => UnresolvedIsTrue
  <2> SUFFICES ASSUME Inv, Counts, BaseInv, Resolving, main \in {"missing", "unresolved"},
                      NEW n \in DOMAIN Entries \ inspected
               PROVE  Entry(n).kind # "base" /\ \A p \in inspected : ~BaseOf(n, p)
    BY ZenonT(60) DEF UnresolvedIsTrue
  <2>1. DOMAIN Entries = 1..NumObjects /\ NumObjects \in Nat /\ read = NumObjects
    BY PacksAssumption DEF Inv, TreeInv, VectorInv, NumObjects, Entries, Counts, EndInv
  <2>2. /\ \A w \in Workers : pc[w] \in {"unborn", "drained"}
        /\ \E w \in Workers : pc[w] = "drained"
        /\ futureChildOffsets = {}
    <3>1. NumObjects # 0
      BY <2>1
    <3> QED
      BY <3>1 DEF Resolving, LeaveInv
  <2>3. Calm
    BY <2>2 DEF Calm, Broken
  <2>4. pool = {}
    BY ZenonT(60), <2>2, NothingLeft DEF Counts, DrainedInv
  <2>5. \A w \in Workers : ~Busy(w) /\ todo[w] = {}
    BY ZenonT(60), <2>2 DEF Busy, Holding, Late, Inv, HoldInv
  <2>6. \A m : Claimed(m) => m \in inspected
    BY <2>4, <2>5 DEF Claimed
  <2>7. \A i \in 1..Len(rootItems) : rootItems[i] # n
    BY <2>3, <2>6 DEF Resolving, RootsClaimed
  <2>8. PICK i \in Index : childItems[i] = n
    BY <2>1, <2>7 DEF BaseInv, AllKept
  <2>9. PICK x \in children \cup futureChildOffsets \cup refChildIndices : x[2] = i
    BY ZenonT(60), <2>8 DEF Resolving, KeptChildren
  <2>10. x \in children => x[1] \notin inspected
    BY ZenonT(60), <2>3, <2>5, <2>6, <2>8, <2>9 DEF Resolving, ChildrenClaimed
  <2>11. ASSUME NEW p \in inspected, BaseOf(n, p) PROVE FALSE
    <3>1. CASE x \in children
      <4>1. BaseOf(n, x[1])
        BY ZenonT(60), <2>8, <2>9, <3>1 DEF BaseInv, ParentBases
      <4>2. ~HasBaseId(Entry(n))
        BY ZenonT(60), <2>3, <2>6, <2>8, <2>9, <2>10, <3>1 DEF Resolving, ParentsClaimed
      <4>3. Entry(p).offset = Entry(x[1]).offset
        BY ZenonT(60), <2>11, <4>1, <4>2 DEF BaseOf
      <4>4. p \in 1..read /\ x[1] \in 1..read
        BY ZenonT(60), <3>1 DEF Inv, TypeInv, TreeInv, KeptInv
      <4>5. p = x[1]
        BY ZenonT(60), <4>3, <4>4, AtUnique DEF Inv, TreeInv, At
      <4> QED
        BY ZenonT(60), <2>10, <3>1, <4>5
    <3>2. CASE x \in refChildIndices
      <4>1. HasBaseId(Entry(n)) /\ x[1] = Entry(n).base
        BY ZenonT(60), <2>8, <2>9, <3>2 DEF BaseInv, IdBases
      <4>2. Entry(p).id = x[1]
        BY <2>11, <4>1 DEF BaseOf, HasBaseOffset, HasBaseId
      <4> QED
        BY ZenonT(60), <3>2, <4>2 DEF Resolving, WaitingInv
    <3> QED
      BY ZenonT(60), <2>2, <2>9, <3>1, <3>2
  <2> QED
    BY <2>8, <2>11 DEF Resolving, KeptChildren
<1> QED
  BY <1>1, <1>2, <1>3, PTL DEF Spec
=============================================================================
