----------------------------- MODULE DeltaTree ------------------------------
(***************************************************************************)
(* The delta tree of a pack (gix-pack, cache/delta): how it is built from  *)
(* the entries of a pack, and how threads resolve it from a work-stealing  *)
(* pool, handing every object with exclusive access to its item to a       *)
(* callback.  This is how a pack is indexed and verified.                  *)
(*                                                                         *)
(* An item of the tree is the number of its pack entry.  What is in an     *)
(* entry is its base, and the id of the object it stands for once it is    *)
(* resolved.  Bytes, sizes, buffers, progress and the delta level are left *)
(* out: inflating, applying, hashing and the callback may fail or panic.   *)
(* The atomics are sequentially consistent.                                *)
(***************************************************************************)
EXTENDS Integers, Sequences, FiniteSets

CONSTANTS Ids,         \* object ids
          Packs,       \* [reader, entries, end] of the packs to read, see PacksAssumption
          ThreadLimit, \* gix_parallel::num_threads(thread_limit)
          MaxFaults    \* bound: interrupts, failing tasks and threads, and panics

\* A reader goes through a stream of entries as a pack is received and indexed, or
\* through the sorted offsets of its index.  Delta entries name their base by offset or
\* by object id.
ASSUME PacksAssumption ==
    \A p \in Packs :
      /\ p.reader \in {"stream", "offsets"}
      /\ p.end \in Nat
      /\ p.entries \in Seq([offset : Nat, kind : {"base"}, id : Ids]
                           \cup [offset : Nat, kind : {"ofs"}, base : Nat, id : Ids]
                           \cup [offset : Nat, kind : {"ref"}, base : Ids, id : Ids])

ASSUME ThreadsAssumption == ThreadLimit \in Nat \ {0} /\ MaxFaults \in Nat

Workers == 1..ThreadLimit
Roots == 0   \* the Injector with the roots; the other queues are those of the workers

VARIABLES
  pack,      \* the pack that is read
  read,      \* the number of entries added to the tree
  rootItems, childItems,   \* the items of each kind, in the order of the pack
  children,  \* Item::children of all items, as <<item, child index>>
  futureChildOffsets,      \* as <<offset of the base, child index>>
  refChildIndices,         \* as <<id of the base, child index>>
  pool,      \* the tasks in the queues
  tickets,   \* tasks put into a queue so far; orders the tasks in a queue
  remaining, abort,        \* the atomics the workers share
  interrupt, \* should_interrupt
  pc, task, todo,          \* per worker: where it is, its item, child indices to push
  inspected, objects,      \* items handed to the callback, and the count of them
  main,      \* where the calling thread is, and the outcome
  faults

tree == <<pack, read, rootItems, childItems, children, futureChildOffsets, refChildIndices>>
shared == <<pool, tickets, remaining, abort>>
workers == <<pc, task, todo>>
seen == <<inspected, objects>>
vars == <<tree, shared, interrupt, workers, seen, main, faults>>

Entries == pack.entries
Entry(n) == Entries[n]
NumObjects == Len(Entries)

\* The threads that are spawned: min(thread limit, num_objects).
Threads == {w \in Workers : w <= NumObjects}

\* Mutant: without an exact match, the item before the offset.
AtOrBefore(offset) ==
    LET before == {n \in 1..read : Entry(n).offset <= offset} IN
    {n \in before : \A o \in before : o <= n}

\* The items at an offset among those added so far, by binary search in both vectors.
At(offset) == {n \in 1..read : Entry(n).offset = offset}

\* resolve_in_pack_id(): the offset which the pack's index has for an object.
Indexed(id) == {n \in DOMAIN Entries : Entry(n).id = id}
OffsetOf(id) == Entry(CHOOSE n \in Indexed(id) : \A o \in Indexed(id) : n <= o).offset

\* The base of a delta as an offset, once the reader has it.
HasBaseOffset(e) ==
    \/ e.kind = "ofs" /\ e.base < e.offset
    \/ e.kind = "ref" /\ pack.reader = "offsets" /\ Indexed(e.base) # {}

BaseOffset(e) == IF e.kind = "ofs" THEN e.base ELSE OffsetOf(e.base)

HasBaseId(e) == e.kind = "ref" /\ pack.reader = "stream"

-----------------------------------------------------------------------------
(* Reading the pack                                                         *)

Reading == main = "read" /\ read < NumObjects

Incrementing(offset) == read > 0 => Entry(read).offset < offset

\* from_offsets_in_pack() looks at should_interrupt after every 10000th entry.
Interrupted == interrupt /\ pack.reader = "offsets" /\ read % 10000 = 0

Added(e) ==
    /\ Incrementing(e.offset)
    /\ read' = read + 1
    /\ main' = IF Interrupted THEN "error" ELSE "read"
    /\ UNCHANGED <<pack, shared, interrupt, workers, seen, faults>>

AddRoot ==
    /\ Reading
    /\ LET e == Entry(read + 1) IN
         /\ e.kind = "base"
         /\ Added(e)
    /\ rootItems' = Append(rootItems, read + 1)
    /\ UNCHANGED <<childItems, children, futureChildOffsets, refChildIndices>>

AddChild ==
    /\ Reading
    /\ LET e == Entry(read + 1)
           found == At(BaseOffset(e))
           index == Len(childItems) + 1
       IN /\ HasBaseOffset(e)
          /\ Added(e)
          /\ children' = children \cup {<<n, index>> : n \in found}
          /\ futureChildOffsets' = IF found = {}
                                   THEN futureChildOffsets \cup {<<BaseOffset(e), index>>}
                                   ELSE futureChildOffsets
    /\ childItems' = Append(childItems, read + 1)
    /\ UNCHANGED <<rootItems, refChildIndices>>

AddChildById ==
    /\ Reading
    /\ LET e == Entry(read + 1) IN
         /\ HasBaseId(e)
         /\ Added(e)
         /\ refChildIndices' = refChildIndices \cup {<<e.base, Len(childItems) + 1>>}
    /\ childItems' = Append(childItems, read + 1)
    /\ UNCHANGED <<rootItems, children, futureChildOffsets>>

\* Offsets that do not increase, a base distance that leads before the pack or nowhere,
\* or the id of a base the index does not have.
ReadFails ==
    /\ Reading
    /\ LET e == Entry(read + 1) IN
         \/ ~Incrementing(e.offset)
         \/ e.kind # "base" /\ ~HasBaseOffset(e) /\ ~HasBaseId(e)
    /\ main' = "error"
    /\ UNCHANGED <<tree, shared, interrupt, workers, seen, faults>>

-----------------------------------------------------------------------------
(* Tree::traverse() on the calling thread                                   *)

\* set_pack_entries_end_and_resolve_ref_offsets(), and the roots become tasks.
BasesAdded == \A f \in futureChildOffsets : At(f[1]) # {}

Traverse ==
    /\ main = "read" /\ read = NumObjects
    /\ Incrementing(pack.end)
    /\ BasesAdded
    /\ children' = children \cup
         UNION {{<<n, f[2]>> : n \in At(f[1])} : f \in futureChildOffsets}
    /\ futureChildOffsets' = {}
    /\ pool' = {[ticket |-> i, item |-> rootItems[i], queue |-> Roots] : i \in DOMAIN rootItems}
    /\ tickets' = Len(rootItems)
    /\ remaining' = Len(rootItems)
    /\ main' = IF Threads = {} THEN "check" ELSE "spawn"
    /\ UNCHANGED <<pack, read, rootItems, childItems, refChildIndices, abort, interrupt,
                   workers, seen, faults>>

TraverseFails ==
    /\ main = "read" /\ read = NumObjects
    /\ ~Incrementing(pack.end) \/ ~BasesAdded
    /\ main' = "error"
    /\ UNCHANGED <<tree, shared, interrupt, workers, seen, faults>>

\* The next thread in turn.
Spawn(w) ==
    /\ main = "spawn"
    /\ w \in Threads /\ pc[w] = "unborn" /\ \A v \in Threads : v < w => pc[v] # "unborn"
    /\ pc' = [pc EXCEPT ![w] = "abort"]
    /\ main' = IF w + 1 \in Threads THEN "spawn" ELSE "join"
    /\ UNCHANGED <<tree, shared, interrupt, task, todo, seen, faults>>

SpawnFails ==
    /\ main = "spawn" /\ faults < MaxFaults
    /\ faults' = faults + 1
    /\ abort' = TRUE
    /\ main' = "give up"
    /\ UNCHANGED <<tree, pool, tickets, remaining, interrupt, workers, seen>>

Left == {"unborn", "drained", "aborted", "error", "panicked"}

\* All threads are joined; the scope waits for those that a panic skips.
Join ==
    /\ main \in {"join", "give up"}
    /\ \A w \in Workers : pc[w] \in Left
    /\ main' = IF \E w \in Workers : pc[w] = "panicked" THEN "panic"
               ELSE IF main = "give up" \/ \E w \in Workers : pc[w] = "error" THEN "error"
               ELSE "check"
    /\ UNCHANGED <<tree, shared, interrupt, workers, seen, faults>>

\* Mutant: the objects are not counted.
CheckBases ==
    /\ main = "check"
    /\ main' = IF refChildIndices # {} THEN "missing" ELSE "ok"
    /\ UNCHANGED <<tree, shared, interrupt, workers, seen, faults>>

\* A base that was not found is reported before objects that were not reached.
Check ==
    /\ main = "check"
    /\ main' = IF refChildIndices # {} THEN "missing"
               ELSE IF objects # NumObjects THEN "unresolved"
               ELSE "ok"
    /\ UNCHANGED <<tree, shared, interrupt, workers, seen, faults>>

-----------------------------------------------------------------------------
(* A worker's loop in resolve_parallel()                                    *)

Step(w, from, to) == pc[w] = from /\ pc' = [pc EXCEPT ![w] = to]

CheckAbort(w) ==
    /\ Step(w, "abort", IF abort THEN "aborted" ELSE "interrupt")
    /\ UNCHANGED <<tree, shared, interrupt, task, todo, seen, main, faults>>

CheckInterrupt(w) ==
    /\ Step(w, "interrupt", IF interrupt THEN "error" ELSE "steal")
    /\ abort' = (abort \/ interrupt)
    /\ UNCHANGED <<tree, pool, tickets, remaining, interrupt, task, todo, seen, main, faults>>

\* crossbeam_deque: a worker pops the newest task of its own queue; the oldest one is
\* stolen from other queues and the Injector.
Queue(q) == {t \in pool : t.queue = q}

Newest(q) == {t \in Queue(q) : \A o \in Queue(q) : o.ticket <= t.ticket}
Oldest(q) == {t \in Queue(q) : \A o \in Queue(q) : t.ticket <= o.ticket}

\* steal(): its own queue first.  Peers are scanned one after another before the roots,
\* and what is there may change behind its back, so that tasks of any of them may be found.
Available(w) ==
    IF Queue(w) # {} THEN Newest(w) ELSE UNION {Oldest(q) : q \in Workers \cup {Roots}}

Steal(w) ==
    /\ Step(w, "steal", "decode")
    /\ \E t \in Available(w) :
         /\ pool' = pool \ {t}
         /\ task' = [task EXCEPT ![w] = t.item]
    /\ UNCHANGED <<tree, tickets, remaining, abort, interrupt, todo, seen, main, faults>>

\* Nothing is found; peers may have pushed after they were scanned.
NothingToSteal(w) ==
    /\ Step(w, "steal", "idle")
    /\ Queue(w) = {} /\ Queue(Roots) = {}
    /\ UNCHANGED <<tree, shared, interrupt, task, todo, seen, main, faults>>

Idle(w) ==
    /\ Step(w, "idle", IF remaining = 0 THEN "drained" ELSE "abort")
    /\ UNCHANGED <<tree, shared, interrupt, task, todo, seen, main, faults>>

-----------------------------------------------------------------------------
(* resolve_task()                                                           *)

\* Inflating the entry and applying it to its parent.
Decode(w) ==
    /\ Step(w, "decode", "attach")
    /\ UNCHANGED <<tree, shared, interrupt, task, todo, seen, main, faults>>

\* attach_ref_delta_children() only computes the id while deltas wait for their bases.
SkipHashing(w) ==
    /\ Step(w, "attach", IF refChildIndices = {} THEN "inspect" ELSE "hash")
    /\ UNCHANGED <<tree, shared, interrupt, task, todo, seen, main, faults>>

WaitingFor(id) == {r \in refChildIndices : r[1] = id}

\* Mutant: the waiting deltas are looked up and not removed.
AttachKeeping(w) ==
    /\ Step(w, "hash", "inspect")
    /\ LET waiting == WaitingFor(Entry(task[w]).id) IN
         children' = children \cup {<<task[w], r[2]>> : r \in waiting}
    /\ UNCHANGED <<pack, read, rootItems, childItems, futureChildOffsets, refChildIndices,
                   shared, interrupt, task, todo, seen, main, faults>>

\* Mutant: whether the item has children is read before the waiting deltas are attached.
AttachUnseen(w) ==
    /\ Step(w, "hash", "inspect")
    /\ LET waiting == WaitingFor(Entry(task[w]).id) IN
         /\ refChildIndices' = refChildIndices \ waiting
         /\ children' = IF \E x \in children : x[1] = task[w]
                        THEN children \cup {<<task[w], r[2]>> : r \in waiting}
                        ELSE children
    /\ UNCHANGED <<pack, read, rootItems, childItems, futureChildOffsets, shared, interrupt,
                   task, todo, seen, main, faults>>

Attach(w) ==
    /\ Step(w, "hash", "inspect")
    /\ LET waiting == WaitingFor(Entry(task[w]).id) IN
         /\ refChildIndices' = refChildIndices \ waiting
         /\ children' = children \cup {<<task[w], r[2]>> : r \in waiting}
    /\ UNCHANGED <<pack, read, rootItems, childItems, futureChildOffsets, shared, interrupt,
                   task, todo, seen, main, faults>>

ChildrenOf(n) == {c \in DOMAIN childItems : <<n, c>> \in children}

Inspect(w) ==
    /\ Step(w, "inspect", "children")
    /\ inspected' = inspected \cup {task[w]}
    /\ objects' = objects + 1
    /\ todo' = [todo EXCEPT ![w] = ChildrenOf(task[w])]
    /\ UNCHANGED <<tree, shared, interrupt, task, main, faults>>

\* Mutant: children are pushed without being counted.
PushUncounted(w) ==
    /\ Step(w, "children", "push")
    /\ todo[w] # {}
    /\ UNCHANGED <<tree, shared, interrupt, task, todo, seen, main, faults>>

\* The closure that resolve_task() calls for each child: count it, then push it.
CountChild(w) ==
    /\ Step(w, "children", "push")
    /\ todo[w] # {}
    /\ remaining' = remaining + 1
    /\ UNCHANGED <<tree, pool, tickets, abort, interrupt, task, todo, seen, main, faults>>

PushChild(w) ==
    /\ Step(w, "push", "children")
    /\ \E c \in todo[w] :
         /\ pool' = pool \cup {[ticket |-> tickets + 1, item |-> childItems[c], queue |-> w]}
         /\ todo' = [todo EXCEPT ![w] = @ \ {c}]
    /\ tickets' = tickets + 1
    /\ UNCHANGED <<tree, remaining, abort, interrupt, task, seen, main, faults>>

TaskDone(w) ==
    /\ Step(w, "children", "abort")
    /\ todo[w] = {}
    /\ remaining' = remaining - 1
    /\ UNCHANGED <<tree, pool, tickets, abort, interrupt, task, todo, seen, main, faults>>

\* Corrupt data, a hash collision, or an error of the callback.
TaskFails(w) ==
    /\ pc[w] \in {"decode", "hash", "inspect"} /\ faults < MaxFaults
    /\ pc' = [pc EXCEPT ![w] = "failed"]
    /\ faults' = faults + 1
    /\ UNCHANGED <<tree, shared, interrupt, task, todo, seen, main>>

UncountFailed(w) ==
    /\ Step(w, "failed", "raise")
    /\ remaining' = remaining - 1
    /\ UNCHANGED <<tree, pool, tickets, abort, interrupt, task, todo, seen, main, faults>>

Raise(w) ==
    /\ Step(w, "raise", "error")
    /\ abort' = TRUE
    /\ UNCHANGED <<tree, pool, tickets, remaining, interrupt, task, todo, seen, main, faults>>

Panic(w) ==
    /\ pc[w] \in {"decode", "hash", "inspect"} /\ faults < MaxFaults
    /\ pc' = [pc EXCEPT ![w] = "unwind"]
    /\ faults' = faults + 1
    /\ UNCHANGED <<tree, shared, interrupt, task, todo, seen, main>>

\* Mutant: a panic leaves `abort` alone.
UnwindOnly(w) ==
    /\ Step(w, "unwind", "panicked")
    /\ UNCHANGED <<tree, shared, interrupt, task, todo, seen, main, faults>>

\* catch_unwind(): the task is never subtracted from `remaining`.
Unwind(w) ==
    /\ Step(w, "unwind", "panicked")
    /\ abort' = TRUE
    /\ UNCHANGED <<tree, pool, tickets, remaining, interrupt, task, todo, seen, main, faults>>

-----------------------------------------------------------------------------

\* Someone asks to stop.
Interrupt ==
    /\ ~interrupt /\ faults < MaxFaults
    /\ interrupt' = TRUE
    /\ faults' = faults + 1
    /\ UNCHANGED <<tree, shared, workers, seen, main>>

Init ==
    /\ pack \in Packs
    /\ read = 0
    /\ rootItems = <<>> /\ childItems = <<>>
    /\ children = {} /\ futureChildOffsets = {} /\ refChildIndices = {}
    /\ pool = {} /\ tickets = 0 /\ remaining = 0 /\ abort = FALSE
    /\ interrupt = FALSE
    /\ pc = [w \in Workers |-> "unborn"]
    /\ task = [w \in Workers |-> 0]
    /\ todo = [w \in Workers |-> {}]
    /\ inspected = {} /\ objects = 0
    /\ main = "read"
    /\ faults = 0

Caller ==
    \/ AddRoot \/ AddChild \/ AddChildById \/ ReadFails
    \/ Traverse \/ TraverseFails \/ Join \/ Check
    \/ \E w \in Workers : Spawn(w)

Worker(w) ==
    \/ CheckAbort(w) \/ CheckInterrupt(w)
    \/ Steal(w) \/ NothingToSteal(w) \/ Idle(w)
    \/ Decode(w) \/ SkipHashing(w) \/ Attach(w) \/ Inspect(w)
    \/ CountChild(w) \/ PushChild(w) \/ TaskDone(w)
    \/ UncountFailed(w) \/ Raise(w) \/ Unwind(w)

Fault == SpawnFails \/ Interrupt \/ \E w \in Workers : TaskFails(w) \/ Panic(w)

Next == Caller \/ Fault \/ \E w \in Workers : Worker(w)

Spec == Init /\ [][Next]_vars

\* The operating system schedules all threads.
FairSpec == Spec /\ WF_vars(Caller) /\ \A w \in Workers : WF_vars(Worker(w))

-----------------------------------------------------------------------------
(* Properties                                                               *)

Outcomes == {"ok", "error", "panic", "missing", "unresolved"}

\* A worker has exclusive access to its item, from taking the task until it is done.
Holding == {"decode", "attach", "hash", "inspect", "children", "push", "failed", "unwind"}

Unseen == {"decode", "attach", "hash", "inspect"}

Busy(w) == pc[w] \in Holding

\* The delta entry n has the entry p as its base.
BaseOf(n, p) ==
    LET e == Entry(n) IN
    \/ HasBaseOffset(e) /\ Entry(p).offset = BaseOffset(e)
    \/ HasBaseId(e) /\ Entry(p).id = e.base

\* All that the tree keeps a child index under: its parent, or what it waits for.
Tagged(tag, S) == {<<tag, x[1], x[2]>> : x \in S}

Kept ==
    Tagged("parent", children) \cup Tagged("offset", futureChildOffsets)
    \cup Tagged("id", refChildIndices)

\* What the unsafe code of resolve.rs and util.rs rests on: get_mut() never gives two
\* threads the same item, because an index is a child of one item only, wherever the
\* tree still keeps it, and an item is never queued, taken or inspected again.
Exclusive ==
    /\ \A v, w \in Workers : v # w /\ Busy(v) /\ Busy(w) => task[v] # task[w]
    /\ \A w \in Workers : pc[w] \in Unseen => task[w] \notin inspected
    /\ \A x, y \in Kept : x[3] = y[3] => x = y

\* traverse() returns items only if the callback has seen every object of the pack.
AllInspected == main = "ok" => inspected = DOMAIN Entries

\* A worker that leaves as `remaining` is 0 leaves no work: nothing is queued and no other
\* worker is at a task that could still add children.
DrainedIsQuiet ==
    (\E w \in Workers : pc[w] = "drained") => pool = {} /\ \A w \in Workers : ~Busy(w)

\* An object is only inspected once its base was: deltas are applied to the object their
\* entry names, by offset or by id, and to no other.
BaseFirst ==
    [][\A n \in inspected' \ inspected :
         Entry(n).kind = "base" \/ \E p \in inspected : BaseOf(n, p)]_vars

\* A pack is only found to lack a base or to leave objects unresolved if that is so: no
\* object is left out whose base was resolved, whatever the order in which threads
\* resolve bases and deltas that wait for an id.
UnresolvedIsTrue ==
    main \in {"missing", "unresolved"} =>
      \A n \in DOMAIN Entries \ inspected :
        /\ Entry(n).kind # "base"
        /\ \A p \in inspected : ~BaseOf(n, p)

\* traverse() returns, also if workers fail, panic or are interrupted while their peers
\* wait for `remaining` to become 0.
TraversalEnds == <>(main \in Outcomes)
=============================================================================
