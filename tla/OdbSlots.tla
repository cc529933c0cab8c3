------------------------------ MODULE OdbSlots ------------------------------
(***************************************************************************)
(* The slot map of gix-odb's dynamic store (store_impls/dynamic).  Handles *)
(* on several threads share one Store.  Each slot of its slot map holds a  *)
(* pack index or a multi-pack index, with the packs that belong to it; the *)
(* current SlotMapIndex says which slots are in use.  Readers take no lock *)
(* to read a slot: they compare the generation of what they looked up with *)
(* that of the slot.  Meanwhile git adds, repacks and removes files.       *)
(*                                                                         *)
(* An index file is identified with its pack; an object is in the packs    *)
(* that Holds says.  The bytes of packs and indices, the offsets in them,  *)
(* delta bases in other packs and the order in which a handle searches its *)
(* indices are left out: a lookup may use any index that has the object.   *)
(* So are collisions of the CRC32 in a marker, and reads that fail other    *)
(* than by finding no file.                                                *)
(***************************************************************************)
EXTENDS Integers, Sequences, FiniteSets, FiniteSetsExt, SequencesExt

CONSTANTS Threads,     \* threads, each with one Handle to the Store
          Never,       \* the threads whose handle has RefreshMode::Never
          Objects,     \* object ids
          Packs,       \* pack files, each with its index
          Holds,       \* [Packs -> SUBSET Objects]
          MidxFiles,   \* the multi-pack indices git writes, in that order
          Covers,      \* [Range(MidxFiles) -> Seq(Packs)]
          BySize,      \* all index files, the biggest first
          NoFile,      \* no multi-pack index, or a slot that is not set
          NumSlots,    \* Store::files.len()
          InitialPacks,\* the packs on disk at first
          InitialLoose,\* the loose objects on disk at first
          MaxChanges,  \* bound: changes on disk
          Methods      \* [Threads -> Seq(SUBSET <<method, object>>)], bound: the calls on its
                       \* handle, each one of a set

VARIABLES
  packs, midx, turn, loose, alternates, changes,   \* on disk, see below
  heap,       \* every SlotMapIndex made so far, the last one is current
  counter,    \* the atomics next_index_to_load and loaded_indices they share
  slot,       \* MutableIndexAndPack::files of each slot
  generation, \* MutableIndexAndPack::generation of each slot
  locked,     \* the slots whose write lock is held over several steps
  write,      \* {t} while t holds Store::write
  cons,       \* locals of consolidate_with_disk_state(), under Store::write
  past,       \* ghost: the slots ever overwritten while in use, and ever emptied
  handle,     \* per thread: its Handle
  th          \* per thread: locals of the call it is in, and its last answer

disk == <<packs, midx, turn, loose, alternates, changes>>
store == <<heap, counter, slot, generation, locked, write, cons, past>>
vars == <<disk, store, handle, th>>

Slots == 0..(NumSlots - 1)
Multi == Range(MidxFiles)
NoPack == NoFile

ASSUME SlotsAssumption == NumSlots \in Nat \ {0}

\* Packs in the order in which their names are listed by the index file.
Names(f) == IF f \in Multi THEN Covers[f] ELSE <<f>>

Covered(m) == IF m = NoFile THEN {} ELSE Range(Covers[m])

\* All multi-pack indices have the same path.
Path(f) == IF f \in Multi THEN "multi-pack-index" ELSE f

Has(f, o) == \E p \in Range(Names(f)) : o \in Holds[p]

\* The pack, by its position, in which an index finds an object.
PosOf(f, o) == CHOOSE i \in DOMAIN Names(f) : o \in Holds[Names(f)[i]]

\* The objects that are on disk.
OnDisk == loose \cup UNION {Holds[p] : p \in packs}

-----------------------------------------------------------------------------
(* OnDiskFile and IndexAndPacks (types.rs)                                  *)

Empty == [file |-> NoFile, index |-> "unloaded", data |-> <<>>]

\* new_single() and new_multi_from_open_file().
NewBundle(f) ==
    [file |-> f,
     index |-> IF f \in Multi THEN "loaded" ELSE "unloaded",
     data |-> [i \in DOMAIN Names(f) |-> "unloaded"]]

IsLoaded(s) == s \in {"loaded", "garbage"}

Disposable(b) ==
    \E s \in {b.index} \cup Range(b.data) : s \in {"garbage", "missing"}

PutBack(s) == CASE s = "garbage" -> "loaded" [] s = "missing" -> "unloaded" [] OTHER -> s

Trash(s) == IF s = "loaded" THEN "garbage" ELSE s

PutBackAll(b) ==
    [b EXCEPT !.index = PutBack(@), !.data = [i \in DOMAIN @ |-> PutBack(@[i])]]

TrashAll(b) ==
    [b EXCEPT !.index = Trash(@), !.data = [i \in DOMAIN @ |-> Trash(@[i])]]

\* load_index(): a multi-pack index forgets its packs even if it was loaded.
LoadIndex(b) ==
    IF b.file \in Multi
    THEN [b EXCEPT !.data = [i \in DOMAIN @ |-> "unloaded"]]
    ELSE [b EXCEPT !.index = IF IsLoaded(@) THEN @
                             ELSE IF b.file \in packs THEN "loaded" ELSE "missing"]

\* load_with_recovery() on a pack.
LoadData(b, i) ==
    [b EXCEPT !.data[i] = IF @ # "unloaded" THEN @
                          ELSE IF Names(b.file)[i] \in packs THEN "loaded" ELSE "missing"]

-----------------------------------------------------------------------------
(* The disk, which git changes: external.  No object is ever lost.          *)

Change == changes < MaxChanges /\ changes' = changes + 1

\* A listing under way sees files that come or go meanwhile, or does not.
Listing(P, m) ==
    cons' = IF \A t \in write : th[t].pc # "list" THEN cons
            ELSE [cons EXCEPT !.must = @ \cap P, !.may = @ \cup P, !.midx = @ \cup {m}]

AddPack(p) ==
    /\ Change /\ p \notin packs
    /\ packs' = packs \cup {p}
    /\ Listing(packs', midx)
    /\ UNCHANGED <<midx, turn, loose, alternates, heap, counter, slot, generation, locked, write, handle, th, past>>

RemovePack(p) ==
    /\ Change /\ p \in packs
    /\ p \notin Covered(midx)
    /\ Holds[p] \subseteq loose \cup UNION {Holds[q] : q \in packs \ {p}}
    /\ packs' = packs \ {p}
    /\ Listing(packs', midx)
    /\ UNCHANGED <<midx, turn, loose, alternates, heap, counter, slot, generation, locked, write, handle, th, past>>

WriteMidx ==
    /\ Change /\ turn < Len(MidxFiles)
    /\ Covered(MidxFiles[turn + 1]) \subseteq packs
    /\ turn' = turn + 1
    /\ midx' = MidxFiles[turn + 1]
    /\ Listing(packs, midx')
    /\ UNCHANGED <<packs, loose, alternates, heap, counter, slot, generation, locked, write, handle, th, past>>

RemoveMidx ==
    /\ Change /\ midx # NoFile
    /\ midx' = NoFile
    /\ Listing(packs, midx')
    /\ UNCHANGED <<packs, turn, loose, alternates, heap, counter, slot, generation, locked, write, handle, th, past>>

\* git prune-packed
PruneLoose(o) ==
    /\ Change /\ o \in loose
    /\ \E p \in packs : o \in Holds[p]
    /\ loose' = loose \ {o}
    /\ UNCHANGED <<packs, midx, turn, alternates, store, handle, th>>

ChangeAlternates ==
    /\ Change
    /\ alternates' = alternates + 1
    /\ UNCHANGED <<packs, midx, turn, loose, store, handle, th>>

Environment ==
    \/ \E p \in Packs : AddPack(p) \/ RemovePack(p)
    \/ \E o \in Objects : PruneLoose(o)
    \/ WriteMidx \/ RemoveMidx \/ ChangeAlternates

-----------------------------------------------------------------------------
(* Calls on a handle (find.rs, prefix.rs, handle.rs)                        *)

NoId == [slot |-> 0, multi |-> FALSE, pos |-> 0, pack |-> NoPack]

NoCall == [pc |-> "idle", op |-> "none", obj |-> NoFile, answer |-> NoFile,
           id |-> NoId, pin |-> Empty, index |-> 0, prev |-> 0, init |-> FALSE,
           after |-> FALSE, todo |-> <<>>,
           known |-> FALSE, stale |-> FALSE]

NoCons == [old |-> 0, must |-> {}, may |-> {}, midx |-> {}, alternates |-> 0, adds |-> <<>>,
           new |-> <<>>, rem |-> <<>>, next |-> 0, checked |-> 0, bump |-> FALSE,
           loaded |-> 0, stable |-> FALSE, slot |-> 0]

Init ==
    /\ packs = InitialPacks /\ midx = NoFile /\ turn = 0
    /\ loose = InitialLoose
    /\ alternates = 1 /\ changes = 0
    /\ heap = <<[slots |-> <<>>, alternates |-> 0, gen |-> 0, counter |-> 1, loading |-> 0]>>
    /\ counter = <<[next |-> 0, loaded |-> 0]>>
    /\ slot = [s \in Slots |-> Empty]
    /\ generation = [s \in Slots |-> 0]
    /\ locked = {} /\ write = {} /\ cons = NoCons
    /\ past = [reused |-> {}, emptied |-> {}]
    /\ handle = [t \in Threads |->
          [gen |-> 0, index |-> 1, loaded |-> 0, alternates |-> 0, entries |-> {},
           stable |-> FALSE, location |-> NoId, raced |-> FALSE, gone |-> {}, calls |-> 0]]
    /\ th = [t \in Threads |-> NoCall]

Current == Len(heap)
Loaded(i) == counter[heap[i].counter].loaded
IsInitialized(i) == heap[i].alternates # 0

Goto(t, l) == th' = [th EXCEPT ![t].pc = l]

\* A call returns; Store::write is released if the thread holds it.
Returned(t, a) ==
    [NoCall EXCEPT !.op = th[t].op, !.obj = th[t].obj, !.known = th[t].known,
                   !.id = th[t].id, !.answer = a]
Return(t, a) == th' = [th EXCEPT ![t] = Returned(t, a)]

\* The next call on a handle.
Calls(t, op, o) ==
    /\ th[t].pc = "idle" /\ handle[t].calls < Len(Methods[t])
    /\ <<op, o>> \in Methods[t][handle[t].calls + 1]

\* An object that stays where the call looks for it: location_by_oid() finds it in packs only,
\* and an object that is not loose stays packed.
Known(op, o) == o \in OnDisk /\ (op = "location_by_oid" => o \notin loose)

Begin(t, op, o, l) ==
    /\ Calls(t, op, o)
    /\ handle' = [handle EXCEPT ![t].calls = @ + 1]
    /\ th' = [th EXCEPT ![t] = [NoCall EXCEPT !.op = op, !.obj = o, !.pc = l, !.known = Known(op, o)]]
    /\ UNCHANGED <<disk, store>>

Find(t, o) == Begin(t, "find", o, "search")
Exists(t, o) == Begin(t, "exists", o, "search")
LocationByOid(t, o) == handle[t].stable /\ Begin(t, "location_by_oid", o, "search")
PackedObjectCount(t) == Begin(t, "packed_object_count", NoFile, "collect")

\* prevent_pack_unload(), which waits for Store::write.
PreventPackUnload(t) ==
    /\ Calls(t, "prevent_pack_unload", NoFile)
    /\ write = {}
    /\ handle' = [handle EXCEPT ![t].calls = @ + 1, ![t].stable = TRUE, ![t].gone = past.emptied]
    /\ UNCHANGED <<disk, store, th>>

\* The snapshot is searched; without a hit, is there a loose object?  An index
\* that has the object is followed by load_pack(), unless the pack is at hand.
Search(t) ==
    /\ th[t].pc = "search"
    /\ LET o == th[t].obj
           hits == {e \in handle[t].entries : Has(e.file, o)}
       IN  \/ /\ hits = {}
              /\ IF th[t].op = "location_by_oid" \/ handle[t].alternates = 0 \/ o \notin loose
                 THEN Goto(t, "refresh")
                 ELSE IF th[t].op = "exists" THEN Return(t, "yes") ELSE Goto(t, "read_loose")
           \/ \E e \in hits :
                LET i == PosOf(e.file, o)
                IN  IF th[t].op = "exists" THEN Return(t, "yes")
                    ELSE th' = [th EXCEPT ![t].id = [slot |-> e.slot, multi |-> e.file \in Multi,
                                                     pos |-> i, pack |-> Names(e.file)[i]],
                                          ![t].pc = IF e.data[i] # NoPack THEN "entry" ELSE "load_pack"]
    /\ UNCHANGED <<disk, store, handle>>

\* The loose object is opened in a second look at the disk.
ReadLoose(t) ==
    /\ th[t].pc = "read_loose"
    /\ Return(t, IF th[t].obj \in loose THEN "yes" ELSE "vanished")
    /\ UNCHANGED <<disk, store, handle>>

\* The entry of a snapshot that came from a slot.
EntryOf(t) == CHOOSE e \in handle[t].entries : e.slot = th[t].id.slot

WithData(t, i, p) ==
    (handle[t].entries \ {EntryOf(t)}) \cup {[EntryOf(t) EXCEPT !.data[i] = p]}

LocationOf(t) == IF th[t].op = "location_by_oid" THEN th[t].id ELSE handle[t].location

\* A pack is at hand in the snapshot: the object is read from it.
Entry(t) ==
    /\ th[t].pc = "entry"
    /\ Return(t, EntryOf(t).data[th[t].id.pos])
    /\ handle' = [handle EXCEPT ![t].location = LocationOf(t)]
    /\ UNCHANGED <<disk, store>>

\* entry_by_location(): the pack a location is in is taken from the snapshot, or
\* put there by its id.
EntryByLocation(t) ==
    /\ Calls(t, "entry_by_location", NoFile) /\ handle[t].location # NoId
    /\ handle' = [handle EXCEPT ![t].calls = @ + 1]
    /\ th' = [th EXCEPT ![t] = [NoCall EXCEPT !.op = "entry_by_location", !.pc = "by_location",
                                              !.id = handle[t].location]]
    /\ UNCHANGED <<disk, store>>

ByLocation(t) ==
    /\ th[t].pc = "by_location"
    /\ IF \A e \in handle[t].entries : e.slot # th[t].id.slot
       THEN Goto(t, "by_id")
       ELSE IF \/ EntryOf(t).file \in Multi /\ ~th[t].id.multi
               \/ th[t].id.pos \notin DOMAIN EntryOf(t).data
            THEN Return(t, "panic")
            ELSE Goto(t, IF EntryOf(t).data[th[t].id.pos] # NoPack THEN "entry" ELSE "load_pack")
    /\ UNCHANGED <<disk, store, handle>>

\* index_by_id() pins the files of a slot before it looks at the generation.
ById(t) ==
    /\ th[t].pc = "by_id"
    /\ th' = [th EXCEPT ![t].pin = slot[th[t].id.slot], ![t].pc = "by_id_check"]
    /\ UNCHANGED <<disk, store, handle>>

\* The lookup structure that a slot's files are turned into for a snapshot.
Lookup(s, b) ==
    [slot |-> s, file |-> b.file,
     data |-> [i \in DOMAIN b.data |-> IF IsLoaded(b.data[i]) THEN Names(b.file)[i] ELSE NoPack]]

ByIdCheck(t) ==
    /\ th[t].pc = "by_id_check"
    /\ LET s == th[t].id.slot
           b == th[t].pin
       IN  IF generation[s] > handle[t].gen \/ b = Empty \/ ~IsLoaded(b.index)
           THEN Return(t, "panic") /\ UNCHANGED handle
           ELSE /\ handle' = [handle EXCEPT ![t].entries = @ \cup {Lookup(s, b)}]
                /\ Goto(t, "by_location")
    /\ UNCHANGED <<disk, store>>

-----------------------------------------------------------------------------
(* load_pack() (load_one.rs)                                                *)

\* Ok(None): the caller refreshes its indices, or relies on the pack.
NoPackThere(t) ==
    IF th[t].op = "entry_by_location" THEN Return(t, "panic") ELSE Goto(t, "refresh")

\* The object is read from the pack, which the snapshot keeps.
\* (raced is a ghost: the slot that was read is not the one that was checked)
GotPack(t, p, raced) ==
    /\ handle' = [handle EXCEPT ![t].entries = WithData(t, th[t].id.pos, p), ![t].raced = @ \/ raced,
                               ![t].location = LocationOf(t)]
    /\ Return(t, p)

LoadPack(t) ==
    /\ th[t].pc = "load_pack"
    /\ IF heap[Current].gen # handle[t].gen THEN NoPackThere(t) ELSE Goto(t, "pin")
    /\ UNCHANGED <<disk, store, handle>>

PinFiles(t) ==
    /\ th[t].pc = "pin"
    /\ th' = [th EXCEPT ![t].pin = slot[th[t].id.slot], ![t].pc = "check"]
    /\ UNCHANGED <<disk, store, handle>>

\* Does a slot hold an index of the kind that an id is for?
OfKind(b, id) == b # Empty /\ (b.file \in Multi <=> id.multi)

\* Mutant: the generation of the slot is not looked at.
TooNewUnchecked(t) == FALSE

\* The slot may have been overwritten since the snapshot was taken.
TooNew(t) == generation[th[t].id.slot] > handle[t].gen

CheckSlot(t) ==
    /\ th[t].pc = "check"
    /\ LET b == th[t].pin
           i == th[t].id.pos
       IN  IF TooNew(t) \/ ~OfKind(b, th[t].id) \/ i \notin DOMAIN b.data
           THEN NoPackThere(t) /\ UNCHANGED handle
           ELSE IF IsLoaded(b.data[i])
                THEN GotPack(t, Names(b.file)[i], FALSE)
                ELSE Goto(t, "load_data") /\ UNCHANGED handle
    /\ UNCHANGED <<disk, store>>

\* Under the slot's lock its files are read again, and the pack is loaded.
LoadLocked(t) ==
    /\ th[t].pc = "load_data"
    /\ LET s == th[t].id.slot
           i == th[t].id.pos
           b == LoadData(slot[s], i)
       IN  /\ s \notin locked
           /\ IF ~OfKind(slot[s], th[t].id)
              THEN NoPackThere(t) /\ UNCHANGED <<slot, handle>>
              ELSE IF i \notin DOMAIN slot[s].data
                   THEN Return(t, "panic") /\ UNCHANGED <<slot, handle>>
                   ELSE /\ slot' = [slot EXCEPT ![s] = b]
                        /\ IF IsLoaded(b.data[i])
                           THEN GotPack(t, Names(b.file)[i], b.file # th[t].pin.file)
                           ELSE NoPackThere(t) /\ UNCHANGED handle
    /\ UNCHANGED <<disk, heap, counter, generation, locked, write, cons, past>>

-----------------------------------------------------------------------------
(* load_one_index() and load_next_index() (load_index.rs)                   *)

\* Is the snapshot of the current index, with all that was loaded of it?
UpToDate(t) == handle[t].gen = heap[Current].gen /\ handle[t].index = Current
                                               /\ handle[t].loaded = Loaded(Current)

\* Nothing more to load, and no refresh: the object is not there.  (stale is a
\* ghost: there was something new, though.)
NothingNew(t) ==
    th' = [th EXCEPT ![t] =
             [Returned(t, IF th[t].op = "packed_object_count" THEN "done" ELSE "miss")
                EXCEPT !.stale = ~UpToDate(t)]]

MayRefresh(t) == t \notin Never /\ th[t].op # "packed_object_count"

\* load_one_index()
LoadOneIndex(t) ==
    /\ th[t].pc = "refresh"
    /\ th' = [th EXCEPT ![t].index = Current, ![t].after = FALSE, ![t].init = ~IsInitialized(Current),
                        ![t].pc = IF ~IsInitialized(Current) THEN "consolidate"
                                  ELSE IF UpToDate(t) THEN "next" ELSE "collect"]
    /\ UNCHANGED <<disk, store, handle>>

\* `previous_state_id`
NextIndex(t) ==
    /\ th[t].pc = "next"
    /\ th' = [th EXCEPT ![t].prev = Loaded(th[t].index), ![t].pc = "register"]
    /\ UNCHANGED <<disk, store, handle>>

\* Mutant: indices being loaded are not counted, nobody waits for them.
LoadingUncounted(t, d) == UNCHANGED heap

\* num_indices_currently_being_loaded
Loading(t, d) == heap' = [heap EXCEPT ![th[t].index].loading = @ + d]

Register(t) ==
    /\ th[t].pc = "register"
    /\ Loading(t, 1)
    /\ Goto(t, "claim")
    /\ UNCHANGED <<disk, counter, slot, generation, locked, write, cons, handle, past>>

\* A position in slot_indices is claimed, or there is none left.
Claim(t) ==
    /\ th[t].pc = "claim"
    /\ LET i == heap[th[t].index]
           c == counter[i.counter]
       IN  IF c.next < Len(i.slots)
           THEN /\ counter' = [counter EXCEPT ![i.counter].next = @ + 1]
                /\ th' = [th EXCEPT ![t].todo = <<i.slots[c.next + 1]>>, ![t].pc = "load_index"]
                /\ UNCHANGED heap
           ELSE /\ Loading(t, -1)
                /\ Goto(t, "wait_loaded")
                /\ UNCHANGED counter
    /\ UNCHANGED <<disk, slot, generation, locked, write, cons, handle, past>>

\* The index in the claimed slot is loaded under the slot's lock, if it is
\* still the one that was meant.
LoadClaimed(t) ==
    /\ th[t].pc = "load_index"
    /\ LET s == th[t].todo[1]
           b == LoadIndex(slot[s])
       IN  /\ s \notin locked
           /\ IF generation[s] > heap[th[t].index].gen \/ slot[s] = Empty
              THEN th' = [th EXCEPT ![t].pc = "skip", ![t].todo = <<>>] /\ UNCHANGED <<slot, locked>>
              ELSE /\ slot' = [slot EXCEPT ![s] = b]
                   /\ locked' = locked \cup {s}
                   /\ Goto(t, "count")
    /\ UNCHANGED <<disk, heap, counter, generation, write, cons, handle, past>>

\* Failed loads count as well, but another index is tried then.
CountLoaded(t) ==
    /\ th[t].pc = "count"
    /\ counter' = [counter EXCEPT ![heap[th[t].index].counter].loaded = @ + 1]
    /\ locked' = locked \ {th[t].todo[1]}
    /\ th' = [th EXCEPT ![t].pc = IF IsLoaded(slot[th[t].todo[1]].index) THEN "loaded" ELSE "skip",
                        ![t].todo = <<>>]
    /\ UNCHANGED <<disk, heap, slot, generation, write, cons, handle, past>>

\* The drop of IncOnNewAndDecOnDrop.
Deregister(t) ==
    /\ th[t].pc \in {"skip", "loaded"}
    /\ Loading(t, -1)
    /\ Goto(t, IF th[t].pc = "skip" THEN "register" ELSE "compare")
    /\ UNCHANGED <<disk, counter, slot, generation, locked, write, cons, handle, past>>

WaitLoaded(t) ==
    /\ th[t].pc = "wait_loaded"
    /\ heap[th[t].index].loading = 0
    /\ Goto(t, "compare")
    /\ UNCHANGED <<disk, store, handle>>

\* Did anything change?  If not, and not even the index is new, the disk is next.
CompareState(t) ==
    /\ th[t].pc = "compare"
    /\ IF th[t].prev # Loaded(th[t].index) \/ (th[t].after /\ th[t].index = Current)
       THEN Goto(t, "collect")
       ELSE IF th[t].index # Current
            THEN th' = [th EXCEPT ![t].index = Current, ![t].pc = "next"]
            ELSE IF MayRefresh(t) THEN Goto(t, "consolidate") ELSE NothingNew(t)
    /\ UNCHANGED <<disk, store, handle>>

-----------------------------------------------------------------------------
(* collect_snapshot()                                                       *)

CollectSnapshot(t) ==
    /\ th[t].pc = "collect"
    /\ th' = [th EXCEPT ![t].index = Current, ![t].pc = "wait_idle"]
    /\ UNCHANGED <<disk, store, handle>>

\* The snapshot is complete with the slots in todo read; what called for it goes
\* on, without Store::write.
Collected(t, todo) ==
    IF todo # <<>>
    THEN th' = [th EXCEPT ![t].todo = todo, ![t].pc = "collect_slot"] /\ UNCHANGED write
    ELSE /\ th' = [th EXCEPT ![t] = [NoCall EXCEPT !.op = th[t].op, !.obj = th[t].obj,
                    !.known = th[t].known,
                    !.pc = IF th[t].op = "packed_object_count" THEN "refresh" ELSE "search"]]
         /\ write' = write \ {t}

\* Wait for indices being loaded, then note the marker.
Marker(t) ==
    /\ th[t].pc = "wait_idle"
    /\ LET i == heap[th[t].index]
       IN  /\ i.loading = 0
           /\ handle' = [handle EXCEPT ![t].gen = i.gen, ![t].index = th[t].index,
                                       ![t].loaded = Loaded(th[t].index),
                                       ![t].alternates = i.alternates, ![t].entries = {}]
           /\ Collected(t, i.slots)
    /\ UNCHANGED <<disk, heap, counter, slot, generation, locked, cons, past>>

\* The slots are read one after the other.
CollectSlot(t) ==
    /\ th[t].pc = "collect_slot"
    /\ LET s == Head(th[t].todo)
       IN  handle' = [handle EXCEPT ![t].entries =
                         @ \cup (IF IsLoaded(slot[s].index) THEN {Lookup(s, slot[s])} ELSE {})]
    /\ Collected(t, Tail(th[t].todo))
    /\ UNCHANGED <<disk, heap, counter, slot, generation, locked, cons, past>>

-----------------------------------------------------------------------------
(* consolidate_with_disk_state(): the slot map is made to match the disk    *)

\* The current index is noted before the lock is taken.
Consolidate(t) ==
    /\ th[t].pc = "consolidate"
    /\ th' = [th EXCEPT ![t].prev = Current, ![t].pc = "lock"]
    /\ UNCHANGED <<disk, store, handle>>

\* Somebody may have been faster; otherwise the files on disk are listed.
LockWrite(t) ==
    /\ th[t].pc = "lock" /\ write = {}
    /\ write' = {t}
    /\ IF th[t].prev # Current \/ (th[t].init /\ IsInitialized(Current))
       THEN Goto(t, "collect") /\ UNCHANGED cons
       ELSE /\ cons' = [NoCons EXCEPT !.old = Current, !.must = packs, !.may = packs,
                                      !.midx = {midx}, !.alternates = alternates]
            /\ Goto(t, "list")
    /\ UNCHANGED <<disk, heap, counter, slot, generation, locked, handle, past>>

\* collect_indices_and_mtime_sorted_by_size(): packs that the multi-pack index
\* covers are left to it.
Listed(P, m) ==
    SelectSeq(BySize, LAMBDA f : f = m \/ f \in P \ Covered(m))

\* idx_by_index_path
ByPath(old) == {i \in DOMAIN old : /\ slot[old[i]] # Empty
                                  /\ \A j \in (i + 1)..Len(old) :
                                       Path(slot[old[j]].file) # Path(slot[old[i]].file)}

\* Mutant: slots are looked up in idx_by_index_path, not removed from it.
LeftAll(old, matched) == {old[k] : k \in ByPath(old)}

\* What is left in idx_by_index_path, the slots whose file is gone.
Left(old, matched) == {old[k] : k \in ByPath(old)} \ matched

\* Files on disk are matched with the slots of the index: those that are as
\* they were are kept, and restored if they were given up.
MatchSlots(t) ==
    /\ th[t].pc = "list"
    /\ \E P \in SUBSET cons.may, m \in cons.midx :
         LET i == heap[cons.old]
             files == Listed(P, m)
             At(f) == {i.slots[k] : k \in {j \in ByPath(i.slots) : Path(slot[i.slots[j]].file) = Path(f)}}
             Same(f) == \E s \in At(f) : slot[s].file = f
             kept == SelectSeq(files, Same)
             added == SelectSeq(files, LAMBDA f : ~Same(f))
             keep == UNION {At(f) : f \in Range(kept)}
             moved == UNION {At(f) : f \in Range(added)}
             put == {s \in keep : Disposable(slot[s])}
         IN  /\ cons.must \subseteq P
             /\ slot' = [s \in Slots |-> IF s \in put THEN PutBackAll(slot[s]) ELSE slot[s]]
             /\ generation' = [s \in Slots |-> IF s \in put THEN i.gen ELSE generation[s]]
             /\ cons' = [cons EXCEPT
                   !.adds = [k \in DOMAIN added |-> [file |-> added[k], from |-> At(added[k])]],
                   !.new = [k \in DOMAIN kept |-> CHOOSE s \in At(kept[k]) : TRUE],
                   !.loaded = Cardinality({s \in keep \cup moved : IsLoaded(slot[s].index)}),
                   !.rem = SetToSeq(Left(i.slots, keep \cup moved)),
                   !.stable = \E u \in Threads : handle[u].stable,
                   !.next = IF i.slots = <<>> THEN 0 ELSE (Max(Range(i.slots)) + 1) % NumSlots,
                   !.must = {}, !.may = {}, !.midx = {}]
    /\ Goto(t, "pick")
    /\ UNCHANGED <<disk, heap, counter, locked, write, handle, past>>

\* The slots that are tried for a file: each one at most once.
Tries == {k \in 0..(NumSlots - 1 - cons.checked) :
            LET s == (cons.next + k) % NumSlots
                a == Head(cons.adds)
            IN  /\ s \notin Range(cons.new) \cup a.from
                /\ \/ slot[s] = Empty
                   \/ Path(slot[s].file) # Path(a.file) /\ ~(cons.stable /\ Disposable(slot[s]))}

\* Unwinding or returning from it gives up Store::write.
Abandon(t, a) == Return(t, a) /\ write' = {} /\ cons' = NoCons

\* try_set_index_slot(): the generation is set first.  There may be no slot left.
PickSlot(t) ==
    /\ th[t].pc = "pick" /\ cons.adds # <<>>
    /\ IF Tries = {}
       THEN Abandon(t, "error") /\ UNCHANGED <<generation, locked, past>>
       ELSE LET s == (cons.next + Min(Tries)) % NumSlots
                bump == slot[s] # Empty
            IN  /\ s \notin locked
                /\ locked' = locked \cup {s}
                /\ generation' = [generation EXCEPT ![s] = heap[cons.old].gen + IF bump THEN 1 ELSE 0]
                /\ cons' = [cons EXCEPT !.slot = s, !.next = (s + 1) % NumSlots,
                                        !.checked = @ + Min(Tries) + 1, !.bump = @ \/ bump]
                /\ past' = [past EXCEPT !.reused = IF bump THEN @ \cup {s} ELSE @]
                /\ Goto(t, "set")
                /\ UNCHANGED write
    /\ UNCHANGED <<disk, heap, counter, slot, handle>>

\* set_slot_to_index()
SetSlot(t) ==
    /\ th[t].pc = "set"
    /\ LET a == Head(cons.adds)
       IN  /\ slot' = [slot EXCEPT ![cons.slot] = NewBundle(a.file)]
           /\ cons' = [cons EXCEPT !.new = Append(@, cons.slot), !.rem = @ \o SetToSeq(a.from),
                                   !.adds = Tail(@)]
    /\ locked' = locked \ {cons.slot}
    /\ Goto(t, "pick")
    /\ UNCHANGED <<disk, heap, counter, generation, write, handle, past>>

NewGen == heap[cons.old].gen + IF cons.bump THEN 1 ELSE 0

\* The new index is published, if there is anything new about it.
Publish(t) ==
    /\ th[t].pc = "pick" /\ cons.adds = <<>>
    /\ LET i == heap[cons.old]
           same == cons.new = i.slots
       IN  IF cons.bump /\ same
           THEN Abandon(t, "assert") /\ UNCHANGED <<heap, counter>>
           ELSE /\ IF same /\ cons.alternates = i.alternates
                   THEN UNCHANGED <<heap, counter>>
                   ELSE /\ heap' = Append(heap, [slots |-> cons.new, alternates |-> cons.alternates,
                                                 gen |-> NewGen, loading |-> 0,
                                                 counter |-> IF same THEN i.counter ELSE Len(counter) + 1])
                        /\ counter' = IF same THEN counter
                                      ELSE Append(counter, [next |-> 0, loaded |-> cons.loaded])
                /\ Goto(t, "remove")
                /\ UNCHANGED <<write, cons>>
    /\ UNCHANGED <<disk, slot, generation, locked, handle, past>>

\* Mutant: slots are emptied although a handle relies on them.
RemoveStable(t) ==
    /\ th[t].pc = "remove" /\ cons.rem # <<>>
    /\ Head(cons.rem) \notin locked
    /\ generation' = [generation EXCEPT ![Head(cons.rem)] = heap[cons.old].gen]
    /\ locked' = locked \cup {Head(cons.rem)}
    /\ Goto(t, "clear")
    /\ UNCHANGED <<disk, heap, counter, slot, write, cons, handle, past>>

\* Files that are gone: they become garbage if handles are stable; otherwise
\* the slot is made empty, its generation set first.
RemoveFiles(t) ==
    /\ th[t].pc = "remove" /\ cons.rem # <<>>
    /\ LET s == Head(cons.rem)
       IN  /\ s \notin locked
           /\ IF cons.stable
              THEN /\ slot' = [slot EXCEPT ![s] = TrashAll(@)]
                   /\ cons' = [cons EXCEPT !.rem = Tail(@)]
                   /\ UNCHANGED <<generation, locked, th>>
              ELSE /\ generation' = [generation EXCEPT ![s] = NewGen]
                   /\ locked' = locked \cup {s}
                   /\ Goto(t, "clear")
                   /\ UNCHANGED <<slot, cons>>
    /\ UNCHANGED <<disk, heap, counter, write, handle, past>>

ClearSlot(t) ==
    /\ th[t].pc = "clear"
    /\ slot' = [slot EXCEPT ![Head(cons.rem)] = Empty]
    /\ locked' = locked \ {Head(cons.rem)}
    /\ past' = [past EXCEPT !.emptied = @ \cup {Head(cons.rem)}]
    /\ cons' = [cons EXCEPT !.rem = Tail(@)]
    /\ Goto(t, "remove")
    /\ UNCHANGED <<disk, heap, counter, generation, write, handle>>

\* `index.state_id()`, which is read before that of the new index.
OldState(t) ==
    /\ th[t].pc = "remove" /\ cons.rem = <<>>
    /\ th' = [th EXCEPT ![t].prev = Loaded(cons.old), ![t].pc = "consolidated"]
    /\ UNCHANGED <<disk, store, handle>>

\* Without a new index there is nothing to return, unless one was loaded just now;
\* otherwise one is loaded (load_new_index), still under the lock.
Consolidated(t) ==
    /\ th[t].pc = "consolidated"
    /\ IF cons.old = Current /\ th[t].prev = Loaded(Current)
       THEN write' = {} /\ NothingNew(t)
       ELSE /\ th' = [th EXCEPT ![t].index = Current, ![t].after = TRUE,
                                ![t].pc = IF th[t].init THEN "collect" ELSE "next"]
            /\ UNCHANGED write
    /\ cons' = NoCons
    /\ UNCHANGED <<disk, heap, counter, slot, generation, locked, handle, past>>

-----------------------------------------------------------------------------
Call(t) ==
    \/ \E o \in Objects : Find(t, o) \/ Exists(t, o) \/ LocationByOid(t, o)
    \/ PackedObjectCount(t) \/ PreventPackUnload(t) \/ EntryByLocation(t)

Step(t) ==
    \/ Search(t) \/ ReadLoose(t) \/ Entry(t) \/ ByLocation(t) \/ ById(t) \/ ByIdCheck(t)
    \/ LoadPack(t) \/ PinFiles(t) \/ CheckSlot(t) \/ LoadLocked(t)
    \/ LoadOneIndex(t) \/ NextIndex(t) \/ Register(t) \/ Claim(t) \/ LoadClaimed(t) \/ CountLoaded(t)
    \/ Deregister(t) \/ WaitLoaded(t) \/ CompareState(t)
    \/ CollectSnapshot(t) \/ Marker(t) \/ CollectSlot(t)
    \/ Consolidate(t) \/ LockWrite(t) \/ MatchSlots(t) \/ PickSlot(t) \/ SetSlot(t) \/ Publish(t)
    \/ RemoveFiles(t) \/ ClearSlot(t) \/ OldState(t) \/ Consolidated(t)

Next == Environment \/ \E t \in Threads : Call(t) \/ Step(t)

Spec == Init /\ [][Next]_vars /\ \A t \in Threads : WF_vars(Step(t))

-----------------------------------------------------------------------------
\* An object is read from the pack that the index named for it, whatever git does to
\* the files meanwhile and however slots are used again: load_pack() compares
\* generations for that.  Two cases are left out, as the code does not cover them:
\* a slot that was overwritten between the check and the slot's lock (load_one.rs:54),
\* and one that was emptied before, whose generation is not raised by the file that is
\* put there next (load_index.rs:574).
RightPack ==
    \A t \in Threads : th[t].op \in {"find", "location_by_oid"} /\ th[t].answer \in Packs =>
        th[t].answer = th[t].id.pack \/ handle[t].raced \/ th[t].id.slot \in past.emptied

\* After prevent_pack_unload(), a location can be used for as long as the handle lives,
\* even if the pack is gone from the disk: entry_by_location() returns the entry, it does
\* not panic and does not read another pack.  Left out: slots that were overwritten while
\* in use, which try_set_index_slot() does as long as they are not garbage yet, and slots
\* emptied before the handle asked for stability.
LocationsStay ==
    \A t \in Threads : th[t].op = "entry_by_location" /\ th[t].pc = "idle" =>
        th[t].answer = th[t].id.pack \/ past.reused # {} \/ th[t].id.slot \in handle[t].gone

\* A lookup reports an object missing that was on disk all the time only if its snapshot was
\* not that of the last state of the store when load_one_index() said that nothing is new, if its
\* index is there and only the pack was gone for a while, or after a slot in use was overwritten.
FoundIfUpToDate ==
    \A t \in Threads : th[t].answer = "miss" =>
        \/ ~th[t].known \/ th[t].stale \/ past.reused # {}
        \/ \E e \in handle[t].entries : Has(e.file, th[t].obj)

\* Between consolidations the slots of the current index each hold a file, and no two of them the
\* same: the files that consolidate_with_disk_state() adds go to free slots, and the slots it
\* empties are not among them (unless a slot in use had to be overwritten).
SlotsOfIndex ==
    write = {} /\ past.reused = {} =>
        LET s == heap[Current].slots
        IN  /\ \A i \in DOMAIN s : slot[s[i]] # Empty
            /\ \A i, j \in DOMAIN s : i # j => Path(slot[s[i]].file) # Path(slot[s[j]].file)

\* Every call on a handle returns: refreshing and retrying ends, and no thread waits for ever for
\* indices that others load, for a slot or for Store::write.
LookupReturns == \A t \in Threads : (th[t].pc # "idle") ~> (th[t].pc = "idle")

\* An object that was on disk all the time is not reported missing ("each worker finds every
\* object", gix-odb/tests/threaded.rs).
ObjectsAreFound == \A t \in Threads : th[t].answer = "miss" => ~th[t].known
=============================================================================
