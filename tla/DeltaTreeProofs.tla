-------------------------- MODULE DeltaTreeProofs ---------------------------
(* Proofs about DeltaTree, for any packs, number of threads and of faults.  *)
EXTENDS DeltaTree, TLAPS

Index == 1..Len(childItems)

\* The items are entries of the pack, each of them once.
VectorInv ==
    /\ pack \in Packs
    /\ read \in 0..NumObjects
    /\ rootItems \in Seq(1..NumObjects) /\ childItems \in Seq(1..NumObjects)
    /\ \A i \in 1..Len(rootItems) : rootItems[i] <= read
    /\ \A i \in Index : childItems[i] <= read
    /\ \A i, j \in 1..Len(rootItems) : rootItems[i] = rootItems[j] => i = j
    /\ \A i, j \in Index : childItems[i] = childItems[j] => i = j
    /\ \A i \in 1..Len(rootItems), j \in Index : rootItems[i] # childItems[j]

\* Offsets increase, so that an offset is that of one item.
OffsetInv == \A m, n \in 1..read : m < n => Entry(m).offset < Entry(n).offset

\* Child indices are in bounds, and kept once.
KeptInv ==
    /\ \A x \in children \cup futureChildOffsets \cup refChildIndices :
         x = <<x[1], x[2]>> /\ x[2] \in Index
    /\ \A x \in children : x[1] \in 1..read
    /\ \A x, y \in Kept : x[3] = y[3] => x = y

TreeInv == VectorInv /\ OffsetInv /\ KeptInv

PCs == Left \cup Holding \cup {"abort", "interrupt", "steal", "idle", "raise"}

Early == Unseen \cup {"failed", "unwind"}

Late == {"children", "push"}

\* While the pack is read, no worker was started.
TypeInv ==
    /\ pc \in [Workers -> PCs]
    /\ task \in [Workers -> Nat]
    /\ \A w \in Workers : Busy(w) => task[w] \in 1..read
    /\ todo \in [Workers -> SUBSET Nat]
    /\ inspected \subseteq 1..read
    /\ pool \subseteq [ticket : Nat, item : 1..read, queue : Workers \cup {Roots}]
    /\ tickets \in Nat
    /\ \A t \in pool : t.ticket <= tickets
    /\ main = "read" => /\ pool = {} /\ inspected = {} /\ remaining = 0
                        /\ \A w \in Workers : pc[w] = "unborn" /\ todo[w] = {}

\* An item is taken into the work by the task for it.
Claimed(n) ==
    \/ n \in inspected
    \/ \E t \in pool : t.item = n
    \/ \E w \in Workers : Busy(w) /\ task[w] = n

\* An item is in one place: there is one task for it, in a queue or with a worker, until
\* it is inspected.  The children still to be pushed are in none, and no item is taken
\* into the work before its parent was inspected.
HoldInv ==
    /\ \A t, u \in pool : t.item = u.item => t = u
    /\ \A t \in pool : t.item \notin inspected
    /\ \A t \in pool, w \in Workers : Busy(w) => task[w] # t.item
    /\ \A v, w \in Workers : v # w /\ Busy(v) /\ Busy(w) => task[v] # task[w]
    /\ \A w \in Workers : pc[w] \in Early => task[w] \notin inspected
    /\ \A w \in Workers : pc[w] \in Late => task[w] \in inspected
    /\ \A w \in Workers : \A c \in todo[w] :
         /\ pc[w] \in Late
         /\ c \in Index /\ <<task[w], c>> \in children
         /\ ~Claimed(childItems[c])
    /\ \A c \in Index : Claimed(childItems[c]) => \E x \in children : x[2] = c /\ x[1] \in inspected

\* The entries of a pack.
LEMMA EntryType ==
    ASSUME VectorInv, NEW n \in 1..NumObjects
    PROVE  /\ Entry(n).offset \in Nat /\ Entry(n).kind \in {"base", "ofs", "ref"}
           /\ Entry(n).kind = "ofs" => Entry(n).base \in Nat
           /\ Entry(n).kind = "ref" => Entry(n).base \in Ids
           /\ Entry(n).id \in Ids
BY PacksAssumption DEF VectorInv, NumObjects, Entry, Entries

LEMMA NumObjectsType == ASSUME pack \in Packs PROVE NumObjects \in Nat
BY PacksAssumption DEF NumObjects, Entries

\* What appending the next entry to a vector does.
LEMMA Appended ==
    ASSUME NEW N \in Nat, NEW n \in 0..(N - 1), NEW s \in Seq(1..N),
           \A i \in 1..Len(s) : s[i] <= n,
           \A i, j \in 1..Len(s) : s[i] = s[j] => i = j
    PROVE  /\ Append(s, n + 1) \in Seq(1..N)
           /\ Len(Append(s, n + 1)) = Len(s) + 1 /\ Len(s) \in Nat
           /\ Append(s, n + 1)[Len(s) + 1] = n + 1
           /\ \A i \in 1..Len(s) : Append(s, n + 1)[i] = s[i]
           /\ \A i \in 1..Len(Append(s, n + 1)) : Append(s, n + 1)[i] <= n + 1
           /\ \A i, j \in 1..Len(Append(s, n + 1)) :
                Append(s, n + 1)[i] = Append(s, n + 1)[j] => i = j
<1> DEFINE t == Append(s, n + 1)
<1>1. n + 1 \in 1..N /\ Len(s) \in Nat
  OBVIOUS
<1>2. t \in Seq(1..N) /\ Len(t) = Len(s) + 1 /\ t[Len(s) + 1] = n + 1
  BY <1>1
<1>3. \A i \in 1..Len(s) : t[i] = s[i] /\ t[i] \in 1..n
  BY <1>1
<1>4. \A i \in 1..Len(t) : i \in 1..Len(s) \/ i = Len(s) + 1
  BY <1>1, <1>2
<1> HIDE DEF t
<1>5. ASSUME NEW i \in 1..Len(t) PROVE t[i] <= n + 1
  <2>1. CASE i \in 1..Len(s)
    BY <1>3, <2>1
  <2>2. CASE i = Len(s) + 1
    BY <1>2, <2>2
  <2> QED
    BY <1>4, <2>1, <2>2
<1>6. ASSUME NEW i \in 1..Len(t), NEW j \in 1..Len(t), t[i] = t[j]
      PROVE  i = j
  <2>1. CASE i \in 1..Len(s) /\ j \in 1..Len(s)
    <3>1. s[i] = s[j]
      BY <1>3, <1>6, <2>1
    <3> QED
      BY <2>1, <3>1
  <2>2. CASE i = Len(s) + 1 /\ j \in 1..Len(s)
    BY <1>2, <1>3, <1>6, <2>2
  <2>3. CASE j = Len(s) + 1 /\ i \in 1..Len(s)
    BY <1>2, <1>3, <1>6, <2>3
  <2> QED
    BY <1>4, <2>1, <2>2, <2>3
<1> QED
  BY ZenonT(60), <1>1, <1>2, <1>3, <1>5, <1>6 DEF t

\* A reader's step that adds an entry.
LEMMA AddedRange ==
    ASSUME VectorInv, Reading, NEW e, Added(e)
    PROVE  /\ NumObjects \in Nat /\ NumObjects' = NumObjects /\ pack' = pack
           /\ read \in 0..(NumObjects - 1) /\ read' = read + 1 /\ read' \in 0..NumObjects
BY NumObjectsType DEF VectorInv, Added, Reading, NumObjects, Entries

LEMMA AddRootVectors == ASSUME VectorInv, AddRoot PROVE VectorInv'
<1>1. /\ NumObjects \in Nat /\ NumObjects' = NumObjects /\ pack' = pack
      /\ read \in 0..(NumObjects - 1) /\ read' = read + 1 /\ read' \in 0..NumObjects
  BY AddedRange DEF AddRoot
<1>2. rootItems' = Append(rootItems, read + 1) /\ childItems' = childItems
  BY DEF AddRoot
<1>3. /\ rootItems' \in Seq(1..NumObjects)
      /\ Len(rootItems') = Len(rootItems) + 1 /\ Len(rootItems) \in Nat
      /\ rootItems'[Len(rootItems) + 1] = read + 1
      /\ \A i \in 1..Len(rootItems) : rootItems'[i] = rootItems[i]
      /\ \A i \in 1..Len(rootItems') : rootItems'[i] <= read'
      /\ \A i, j \in 1..Len(rootItems') : rootItems'[i] = rootItems'[j] => i = j
  BY SMTT(60), ZenonT(60), <1>1, <1>2, Appended DEF VectorInv
<1>4. \A j \in Index : childItems[j] \in 1..NumObjects /\ childItems[j] <= read
  BY <1>1 DEF VectorInv, Index
<1>5. ASSUME NEW i \in 1..Len(rootItems'), NEW j \in Index PROVE rootItems'[i] # childItems[j]
  <2>1. CASE i \in 1..Len(rootItems)
    <3>1. rootItems'[i] = rootItems[i]
      BY <1>3, <2>1
    <3> QED
      BY <2>1, <3>1 DEF VectorInv
  <2>2. CASE i = Len(rootItems) + 1
    BY <1>1, <1>3, <1>4, <2>2
  <2> QED
    BY <1>3, <2>1, <2>2
<1>6. \A j \in Index : childItems[j] <= read'
  BY <1>1, <1>4
<1> QED
  BY ZenonT(60), <1>1, <1>2, <1>3, <1>5, <1>6 DEF VectorInv, Index

LEMMA AddChildVectors ==
    ASSUME VectorInv, Reading, NEW e, Added(e), rootItems' = rootItems,
           childItems' = Append(childItems, read + 1)
    PROVE  VectorInv' /\ Index' = Index \cup {Len(childItems) + 1} /\ Len(childItems) + 1 \notin Index
           /\ childItems'[Len(childItems) + 1] = read + 1
           /\ \A i \in Index : childItems'[i] = childItems[i]
<1>1. /\ NumObjects \in Nat /\ NumObjects' = NumObjects /\ pack' = pack
      /\ read \in 0..(NumObjects - 1) /\ read' = read + 1 /\ read' \in 0..NumObjects
  BY AddedRange
<1>3. /\ childItems' \in Seq(1..NumObjects)
      /\ Len(childItems') = Len(childItems) + 1 /\ Len(childItems) \in Nat
      /\ childItems'[Len(childItems) + 1] = read + 1
      /\ \A i \in 1..Len(childItems) : childItems'[i] = childItems[i]
      /\ \A i \in 1..Len(childItems') : childItems'[i] <= read'
      /\ \A i, j \in 1..Len(childItems') : childItems'[i] = childItems'[j] => i = j
  BY SMTT(60), ZenonT(60), <1>1, Appended DEF VectorInv, Index
<1>4. \A j \in 1..Len(rootItems) : rootItems[j] \in 1..NumObjects /\ rootItems[j] <= read
  BY <1>1 DEF VectorInv
<1>5. ASSUME NEW i \in 1..Len(rootItems), NEW j \in 1..Len(childItems') PROVE rootItems[i] # childItems'[j]
  <2>1. CASE j \in 1..Len(childItems)
    <3>1. childItems'[j] = childItems[j] /\ j \in Index
      BY <1>3, <2>1 DEF Index
    <3> QED
      BY <3>1 DEF VectorInv
  <2>2. CASE j = Len(childItems) + 1
    BY <1>1, <1>3, <1>4, <2>2
  <2> QED
    BY <1>3, <2>1, <2>2
<1>6. \A j \in 1..Len(rootItems) : rootItems[j] <= read'
  BY <1>1, <1>4
<1>7. VectorInv'
  BY ZenonT(60), <1>1, <1>3, <1>5, <1>6 DEF VectorInv, Index
<1>8. Index' = Index \cup {Len(childItems) + 1} /\ Len(childItems) + 1 \notin Index
  BY <1>3 DEF Index
<1> QED
  BY <1>3, <1>7, <1>8 DEF Index

LEMMA AtUnique ==
    ASSUME VectorInv, OffsetInv, NEW o, NEW m \in At(o), NEW n \in At(o)
    PROVE  m = n
<1>1. m \in 1..read /\ n \in 1..read /\ read \in Nat /\ read <= NumObjects /\ NumObjects \in Nat
  BY NumObjectsType DEF VectorInv, At
<1>2. Entry(m).offset = Entry(n).offset /\ Entry(m).offset \in Nat
  BY <1>1, EntryType DEF At
<1>3. ~(m < n) /\ ~(n < m)
  BY <1>1, <1>2 DEF OffsetInv
<1> QED
  BY <1>1, <1>3

LEMMA AddedOffsets ==
    ASSUME VectorInv, OffsetInv, Reading, Added(Entry(read + 1)) PROVE OffsetInv'
<1>1. /\ NumObjects \in Nat /\ NumObjects' = NumObjects /\ pack' = pack
      /\ read \in 0..(NumObjects - 1) /\ read' = read + 1 /\ read' \in 0..NumObjects
  BY AddedRange
<1>2. \A n : Entry(n)' = Entry(n)
  BY <1>1 DEF Entry, Entries
<1>3. SUFFICES ASSUME NEW m \in 1..(read + 1), NEW n \in 1..(read + 1), m < n
               PROVE  Entry(m).offset < Entry(n).offset
  BY <1>1, <1>2 DEF OffsetInv
<1>4. /\ m \in 1..NumObjects /\ n \in 1..NumObjects
      /\ Entry(m).offset \in Nat /\ Entry(n).offset \in Nat
  BY <1>1, EntryType
<1>5. CASE n = read + 1
  <2>1. read \in 1..NumObjects /\ Entry(read).offset \in Nat
    BY <1>1, <1>3, <1>5, EntryType
  <2>2. Entry(read).offset < Entry(n).offset
    BY <1>5, <2>1 DEF Added, Incrementing
  <2>3. m = read \/ Entry(m).offset < Entry(read).offset
    BY <1>1, <1>3, <1>5, <2>1 DEF OffsetInv
  <2> QED
    BY <1>4, <2>1, <2>2, <2>3
<1>6. CASE n # read + 1
  BY <1>1, <1>3, <1>6 DEF OffsetInv
<1> QED
  BY <1>5, <1>6

LEMMA TagNew ==
    ASSUME NEW k, NEW S, NEW T, NEW a, NEW b, \A x \in T : x \in S \/ x = <<a, b>>
    PROVE  \A z \in Tagged(k, T) : z \in Tagged(k, S) \/ z = <<k, a, b>>
BY DEF Tagged

\* A new child index under what it is kept.
LEMMA KeepNew ==
    ASSUME KeptInv, NEW kind, NEW new,
           Index' = Index \cup {Len(childItems) + 1}, Len(childItems) + 1 \notin Index,
           read \in Nat, read' = read + 1,
           \A z \in Kept' : z \in Kept \/ z = <<kind, new, Len(childItems) + 1>>,
           \A x \in (children \cup futureChildOffsets \cup refChildIndices)' :
             x \in children \cup futureChildOffsets \cup refChildIndices
             \/ x = <<new, Len(childItems) + 1>>,
           \A x \in children' : x \in children \/ x[1] \in 1..read'
    PROVE  KeptInv'
<1>1. \A x \in children' : x[1] \in 1..read'
  BY DEF KeptInv
<1>2. \A x \in (children \cup futureChildOffsets \cup refChildIndices)' :
        x = <<x[1], x[2]>> /\ x[2] \in Index'
  BY DEF KeptInv
<1>3. \A x \in Kept : x[3] \in Index
  BY DEF KeptInv, Kept, Tagged
<1>4. \A x, y \in Kept' : x[3] = y[3] => x = y
  BY <1>3 DEF KeptInv
<1> QED
  BY <1>1, <1>2, <1>4 DEF KeptInv

LEMMA AddRootTree == ASSUME TreeInv, AddRoot PROVE TreeInv'
<1>1. VectorInv' /\ OffsetInv'
  BY AddRootVectors, AddedOffsets DEF TreeInv, AddRoot
<1>2. read \in Nat /\ read' = read + 1
  BY AddedRange DEF TreeInv, AddRoot
<1>3. /\ Kept' = Kept /\ children' = children /\ Index' = Index
      /\ futureChildOffsets' = futureChildOffsets /\ refChildIndices' = refChildIndices
  BY DEF AddRoot, Kept, Index
<1>4. KeptInv'
  BY <1>2, <1>3 DEF TreeInv, KeptInv
<1> QED
  BY <1>1, <1>4 DEF TreeInv

LEMMA AddChildByIdTree == ASSUME TreeInv, AddChildById PROVE TreeInv'
<1> DEFINE e == Entry(read + 1)
           base == e.base
           index == Len(childItems) + 1
<1>1. Reading /\ Added(e) /\ rootItems' = rootItems /\ childItems' = Append(childItems, read + 1)
  BY DEF AddChildById
<1>2. VectorInv' /\ OffsetInv' /\ Index' = Index \cup {index} /\ index \notin Index
  BY <1>1, AddChildVectors, AddedOffsets DEF TreeInv
<1>3. read \in Nat /\ read' = read + 1
  BY <1>1, AddedRange DEF TreeInv
<1>4. /\ children' = children /\ futureChildOffsets' = futureChildOffsets
      /\ refChildIndices' = refChildIndices \cup {<<base, index>>}
  BY DEF AddChildById
<1> HIDE DEF base, index
<1>5. \A z \in Tagged("id", refChildIndices') :
        z \in Tagged("id", refChildIndices) \/ z = <<"id", base, index>>
  BY ZenonT(60), <1>4, TagNew
<1>6. \A z \in Kept' : z \in Kept \/ z = <<"id", base, index>>
  BY <1>4, <1>5 DEF Kept
<1>7. KeptInv'
  BY <1>2, <1>3, <1>4, <1>6, KeepNew DEF TreeInv, index
<1> QED
  BY <1>2, <1>7 DEF TreeInv

LEMMA AddChildTree == ASSUME TreeInv, AddChild PROVE TreeInv'
<1> DEFINE e == Entry(read + 1)
           base == BaseOffset(e)
           found == At(base)
           index == Len(childItems) + 1
<1>1. Reading /\ Added(e) /\ rootItems' = rootItems /\ childItems' = Append(childItems, read + 1)
  BY DEF AddChild
<1>2. VectorInv' /\ OffsetInv' /\ Index' = Index \cup {index} /\ index \notin Index
  BY <1>1, AddChildVectors, AddedOffsets DEF TreeInv
<1>3. read \in Nat /\ read' = read + 1
  BY <1>1, AddedRange DEF TreeInv
<1>4. /\ children' = children \cup {<<n, index>> : n \in found}
      /\ futureChildOffsets' = IF found = {}
                               THEN futureChildOffsets \cup {<<base, index>>}
                               ELSE futureChildOffsets
      /\ refChildIndices' = refChildIndices
  BY DEF AddChild
<1> HIDE DEF base, index
<1>5. CASE found = {}
  <2>1. /\ children' = children
        /\ futureChildOffsets' = futureChildOffsets \cup {<<base, index>>}
    BY <1>4, <1>5
  <2>2. \A z \in Kept' : z \in Kept \/ z = <<"offset", base, index>>
    <3>1. \A z \in Tagged("offset", futureChildOffsets') :
           z \in Tagged("offset", futureChildOffsets) \/ z = <<"offset", base, index>>
      BY ZenonT(60), <1>4, <2>1, TagNew
    <3> QED
      BY <1>4, <2>1, <3>1 DEF Kept
  <2> QED
    BY ZenonT(60), <1>2, <1>3, <1>4, <2>1, <2>2, KeepNew DEF TreeInv, index
<1>6. CASE found # {}
  <2>1. PICK n \in found : TRUE
    BY <1>6
  <2>2. found = {n} /\ n \in 1..read
    BY <2>1, AtUnique DEF TreeInv, At
  <2>3. children' = children \cup {<<n, index>>} /\ futureChildOffsets' = futureChildOffsets
    BY <1>4, <1>6, <2>2
  <2>6. \A z \in Kept' : z \in Kept \/ z = <<"parent", n, index>>
    <3>1. \A z \in Tagged("parent", children') :
           z \in Tagged("parent", children) \/ z = <<"parent", n, index>>
      BY ZenonT(60), <1>4, <2>3, TagNew
    <3> QED
      BY <1>4, <2>3, <3>1 DEF Kept
  <2>4. \A x \in children' : x \in children \/ x[1] \in 1..read'
    BY <1>3, <2>2, <2>3
  <2>5. KeptInv'
    BY ZenonT(60), <1>2, <1>3, <1>4, <2>3, <2>4, <2>6, KeepNew DEF TreeInv, index
  <2> QED
    BY <1>2, <2>5 DEF TreeInv
<1> QED
  BY <1>5, <1>6

\* Child indices move from what they wait for to a parent, each to one.
LEMMA KeepMoved ==
    ASSUME KeptInv, UNCHANGED <<childItems, read>>, NEW moved, NEW parent,
           \/ /\ moved = futureChildOffsets
              /\ futureChildOffsets' = {} /\ refChildIndices' = refChildIndices
           \/ /\ moved \subseteq refChildIndices
              /\ futureChildOffsets' = futureChildOffsets
              /\ refChildIndices' = refChildIndices \ moved,
           \A z \in children' : z \in children \/ \E x \in moved : z = <<parent[x], x[2]>>,
           \A x \in moved : parent[x] \in 1..read
    PROVE  KeptInv'
<1> DEFINE Tags(x) == {<<"offset", x[1], x[2]>>, <<"id", x[1], x[2]>>}
<1>1. Index' = Index /\ read' = read
  BY DEF Index
<1>2. moved \subseteq futureChildOffsets \cup refChildIndices
  OBVIOUS
<1>3. \A x \in children' : x[1] \in 1..read'
  BY <1>1 DEF KeptInv
<1>4. \A x \in (children \cup futureChildOffsets \cup refChildIndices)' :
        x = <<x[1], x[2]>> /\ x[2] \in Index'
  BY <1>1, <1>2 DEF KeptInv
<1>5. \A x \in moved : \E k \in Tags(x) : k \in Kept /\ k \notin Kept' /\ k[3] = x[2]
  <2> SUFFICES ASSUME NEW x \in moved PROVE \E k \in Tags(x) : k \in Kept /\ k \notin Kept' /\ k[3] = x[2]
    OBVIOUS
  <2>1. CASE moved = futureChildOffsets /\ futureChildOffsets' = {}
    <3>1. <<"offset", x[1], x[2]>> \in Kept /\ <<"offset", x[1], x[2]>> \notin Kept'
      BY <2>1 DEF Kept, Tagged
    <3> QED
      BY <3>1
  <2>2. CASE moved \subseteq refChildIndices /\ refChildIndices' = refChildIndices \ moved
    <3>1. <<"id", x[1], x[2]>> \in Kept
      BY <2>2 DEF Kept, Tagged
    <3>2. \A y \in refChildIndices' : y = <<y[1], y[2]>> /\ y # x /\ x = <<x[1], x[2]>>
      BY <2>2 DEF KeptInv
    <3>3. <<"id", x[1], x[2]>> \notin Kept'
      BY <3>2 DEF Kept, Tagged
    <3> QED
      BY <3>1, <3>3
  <2> QED
    BY <2>1, <2>2
<1>6. \A k \in Kept' : k \in Kept \/ \E x \in moved : k = <<"parent", parent[x], x[2]>>
  BY DEF Kept, Tagged
<1>7. ASSUME NEW k \in Kept', NEW l \in Kept', k[3] = l[3] PROVE k = l
  <2>1. CASE k \in Kept /\ l \in Kept
    BY <1>7, <2>1 DEF KeptInv
  <2>2. ASSUME NEW x \in moved, NEW z \in Kept, z \in Kept', x[2] = z[3] PROVE FALSE
    BY ZenonT(60), <1>5, <2>2 DEF KeptInv
  <2>3. ASSUME NEW x \in moved, NEW y \in moved, x[2] = y[2] PROVE x = y
    <3>1. PICK i \in Tags(x) : i \in Kept /\ i[3] = x[2]
      BY <1>5
    <3>2. PICK j \in Tags(y) : j \in Kept /\ j[3] = y[2]
      BY <1>5
    <3>3. i = j
      BY <2>3, <3>1, <3>2 DEF KeptInv
    <3>4. x[1] = y[1]
      BY <3>1, <3>2, <3>3
    <3> QED
      BY <1>2, <2>3, <3>4 DEF KeptInv
  <2> QED
    BY <1>6, <1>7, <2>1, <2>2, <2>3
<1> QED
  BY <1>3, <1>4, <1>7 DEF KeptInv

LEMMA VectorFrame ==
    ASSUME VectorInv, OffsetInv, UNCHANGED <<pack, read, rootItems, childItems>>
    PROVE  VectorInv' /\ OffsetInv'
BY DEF VectorInv, OffsetInv, Index, NumObjects, Entries, Entry

LEMMA TreeFrame == ASSUME TreeInv, UNCHANGED tree PROVE TreeInv'
<1>1. VectorInv' /\ OffsetInv'
  BY VectorFrame DEF TreeInv, tree
<1>2. KeptInv'
  BY DEF TreeInv, KeptInv, tree, Kept, Tagged, Index
<1> QED
  BY <1>1, <1>2 DEF TreeInv

LEMMA TraverseTree == ASSUME TreeInv, Traverse PROVE TreeInv'
<1> DEFINE parent == [x \in futureChildOffsets |-> CHOOSE n : n \in At(x[1])]
<1>1. VectorInv' /\ OffsetInv'
  BY VectorFrame DEF TreeInv, Traverse
<1>2. /\ UNCHANGED <<childItems, read, refChildIndices>>
      /\ futureChildOffsets' = {}
      /\ children' = children \cup
           UNION {{<<n, f[2]>> : n \in At(f[1])} : f \in futureChildOffsets}
  BY DEF Traverse
<1>3. \A x \in futureChildOffsets : parent[x] \in At(x[1])
  BY DEF Traverse, BasesAdded
<1>4. \A x \in futureChildOffsets : parent[x] \in 1..read
  BY <1>3 DEF At
<1>5. \A x \in futureChildOffsets : \A n \in At(x[1]) : n = parent[x]
  BY <1>3, AtUnique DEF TreeInv
<1> HIDE DEF parent
<1>6. \A z \in children' : z \in children \/ \E x \in futureChildOffsets : z = <<parent[x], x[2]>>
  BY <1>2, <1>5
<1>7. KeptInv'
  BY ZenonT(60), <1>2, <1>4, <1>6, KeepMoved DEF TreeInv
<1> QED
  BY <1>1, <1>7 DEF TreeInv

LEMMA AttachTree ==
    ASSUME TreeInv, NEW w \in Workers, Attach(w), task[w] \in 1..read PROVE TreeInv'
<1> DEFINE waiting == WaitingFor(Entry(task[w]).id)
           parent == [x \in waiting |-> task[w]]
<1>1. VectorInv' /\ OffsetInv'
  BY VectorFrame DEF TreeInv, Attach
<1>2. /\ UNCHANGED <<childItems, read, futureChildOffsets>>
      /\ refChildIndices' = refChildIndices \ waiting /\ waiting \subseteq refChildIndices
      /\ children' = children \cup {<<task[w], r[2]>> : r \in waiting}
  BY DEF Attach, WaitingFor
<1>3. \A x \in waiting : parent[x] = task[w]
  OBVIOUS
<1> HIDE DEF parent, waiting
<1>4. \A z \in children' : z \in children \/ \E x \in waiting : z = <<parent[x], x[2]>>
  BY <1>2, <1>3
<1>5. KeptInv'
  BY <1>2, <1>3, <1>4, KeepMoved DEF TreeInv
<1> QED
  BY <1>1, <1>5 DEF TreeInv

LEMMA Kinds == Holding = Early \cup Late /\ Early \cap Late = {} /\ Holding \subseteq PCs
BY DEF Holding, Early, Late, Unseen, PCs

\* A worker that has started acts after the pack was read.
LEMMA NotReading ==
    ASSUME TypeInv, NEW w \in Workers, pc[w] # "unborn" PROVE main # "read"
BY ZenonT(60) DEF TypeInv

\* Moves of a worker that take no item, and leave no child behind.
LEMMA MoveHold ==
    ASSUME TypeInv, HoldInv, NEW w \in Workers, NEW to \in PCs,
           pc' = [pc EXCEPT ![w] = to],
           UNCHANGED <<tree, pool, tickets, task, todo, inspected>>,
           main' # "read",
           to \in Early => pc[w] \in Early,
           to \in Late => pc[w] \in Late,
           pc[w] \in Late => to \in Late \/ todo[w] = {}
    PROVE  TypeInv' /\ HoldInv'
<1>1. \A v \in Workers : pc'[v] = IF v = w THEN to ELSE pc[v]
  BY DEF TypeInv
<1>2. \A v \in Workers : Busy(v)' => Busy(v)
  BY <1>1, Kinds DEF Busy
<1>3. \A n : Claimed(n)' => Claimed(n)
  BY <1>2 DEF Claimed
<1>4. read' = read /\ childItems' = childItems /\ children' = children /\ Index' = Index
  BY DEF tree, Index
<1>5. TypeInv'
  BY SMTT(60), <1>1, <1>2, <1>4 DEF TypeInv
<1>6. \A v \in Workers : pc'[v] \in Early => task'[v] \notin inspected'
  BY <1>1 DEF HoldInv
<1>7. \A v \in Workers : pc'[v] \in Late => task'[v] \in inspected'
  BY <1>1 DEF HoldInv
<1>8. \A v \in Workers : \A c \in todo'[v] :
        pc'[v] \in Late /\ c \in Index' /\ <<task'[v], c>> \in children' /\ ~Claimed(childItems[c])'
  BY <1>1, <1>3, <1>4 DEF HoldInv
<1>9. \A c \in Index' : Claimed(childItems[c])' => \E x \in children' : x[2] = c /\ x[1] \in inspected'
  BY ZenonT(60), <1>3, <1>4 DEF HoldInv
<1> QED
  BY <1>2, <1>4, <1>5, <1>6, <1>7, <1>8, <1>9 DEF HoldInv

\* A task moves from a queue to a worker.
LEMMA StealHold ==
    ASSUME TypeInv, HoldInv, NEW w \in Workers, Steal(w) PROVE TypeInv' /\ HoldInv'
<1>1. PICK t \in pool : pool' = pool \ {t} /\ task' = [task EXCEPT ![w] = t.item]
  BY ZenonT(60) DEF Steal, Available, Newest, Oldest, Queue
<1>2. /\ pc[w] = "steal" /\ pc' = [pc EXCEPT ![w] = "decode"]
      /\ UNCHANGED <<tree, tickets, todo, inspected, main>>
  BY DEF Steal, Step, seen
<1>3. /\ \A v \in Workers : pc'[v] = IF v = w THEN "decode" ELSE pc[v]
      /\ \A v \in Workers : task'[v] = IF v = w THEN t.item ELSE task[v]
  BY <1>1, <1>2 DEF TypeInv
<1>4. "decode" \in Early /\ "decode" \in PCs /\ "steal" \notin Early \cup Late /\ "steal" \notin Holding
  BY DEF Early, Late, Unseen, PCs, Holding
<1>5. \A v \in Workers : Busy(v)' <=> v = w \/ Busy(v)
  BY <1>2, <1>3, <1>4, Kinds DEF Busy
<1>6. ~Busy(w) /\ main # "read"
  BY <1>2, <1>4, NotReading DEF Busy
<1>7. t.item \in 1..read /\ t.item \in Nat
  BY DEF TypeInv
<1>8. read' = read /\ childItems' = childItems /\ children' = children /\ Index' = Index
  BY <1>2 DEF tree, Index
<1>9. TypeInv'
  BY <1>1, <1>2, <1>3, <1>4, <1>5, <1>7, <1>8, <1>6 DEF TypeInv
<1>10. \A n : Claimed(n)' => Claimed(n)
  BY <1>1, <1>2, <1>3, <1>5 DEF Claimed
<1>11. \A u \in pool' : u \in pool /\ u.item # t.item
  BY ZenonT(60), <1>1 DEF HoldInv
<1>12. \A u \in pool', v \in Workers : Busy(v)' => task'[v] # u.item
  BY <1>3, <1>5, <1>11 DEF HoldInv
<1>13. \A u, v \in Workers : u # v /\ Busy(u)' /\ Busy(v)' => task'[u] # task'[v]
  BY SMTT(60), <1>3, <1>5 DEF HoldInv
<1>14. \A v \in Workers : pc'[v] \in Early => task'[v] \notin inspected'
  BY <1>2, <1>3 DEF HoldInv
<1>15. \A v \in Workers : pc'[v] \in Late => task'[v] \in inspected'
  BY <1>2, <1>3, <1>4, Kinds DEF HoldInv
<1>16. todo[w] = {}
  <2>1. \A c \in todo[w] : FALSE
    BY ZenonT(60), <1>2, <1>4 DEF HoldInv
  <2> QED
    BY SMTT(60), <2>1
<1>17. \A v \in Workers : \A c \in todo'[v] :
        pc'[v] \in Late /\ c \in Index' /\ <<task'[v], c>> \in children' /\ ~Claimed(childItems[c])'
  BY ZenonT(60), <1>2, <1>3, <1>8, <1>10, <1>16 DEF HoldInv
<1>18. \A c \in Index' : Claimed(childItems[c])' => \E x \in children' : x[2] = c /\ x[1] \in inspected'
  BY ZenonT(60), <1>2, <1>8, <1>10 DEF HoldInv
<1>19. /\ \A u, v \in pool' : u.item = v.item => u = v
       /\ \A u \in pool' : u.item \notin inspected'
  BY ZenonT(60), <1>2, <1>11 DEF HoldInv
<1> QED
  BY <1>9, <1>12, <1>13, <1>14, <1>15, <1>17, <1>18, <1>19 DEF HoldInv

\* Deltas that wait for the object become its children before it is inspected.
LEMMA AttachHold ==
    ASSUME TypeInv, HoldInv, NEW w \in Workers, Attach(w) PROVE TypeInv' /\ HoldInv'
<1>1. /\ pc[w] = "hash" /\ pc' = [pc EXCEPT ![w] = "inspect"]
      /\ UNCHANGED <<read, childItems, pool, tickets, todo, task, inspected, main>>
      /\ children \subseteq children'
  BY ZenonT(60) DEF Attach, Step, shared, seen
<1>2. \A v \in Workers : pc'[v] = IF v = w THEN "inspect" ELSE pc[v]
  BY <1>1 DEF TypeInv
<1>3. {"hash", "inspect"} \subseteq Early /\ {"hash", "inspect"} \cap Late = {} /\ "inspect" \in PCs
  BY DEF Early, Late, Unseen, PCs, Holding
<1>4. \A v \in Workers : Busy(v)' <=> Busy(v)
  BY <1>1, <1>2, <1>3, Kinds DEF Busy
<1>5. \A n : Claimed(n)' <=> Claimed(n)
  BY <1>1, <1>4 DEF Claimed
<1>6. Index' = Index /\ main # "read"
  BY <1>1, NotReading DEF Index
<1>7. TypeInv'
  BY <1>1, <1>2, <1>3, <1>4, <1>6 DEF TypeInv
<1>8. \A v \in Workers : (pc'[v] \in Early <=> pc[v] \in Early) /\ (pc'[v] \in Late <=> pc[v] \in Late)
  BY ZenonT(60), <1>1, <1>2, <1>3
<1>9. \A v \in Workers : \A c \in todo'[v] :
        pc'[v] \in Late /\ c \in Index' /\ <<task'[v], c>> \in children' /\ ~Claimed(childItems[c])'
  BY SMTT(60), <1>1, <1>5, <1>6, <1>8 DEF HoldInv
<1>10. \A c \in Index' : Claimed(childItems[c])' => \E x \in children' : x[2] = c /\ x[1] \in inspected'
  BY <1>1, <1>5, <1>6 DEF HoldInv
<1> QED
  BY ZenonT(60), <1>1, <1>4, <1>7, <1>8, <1>9, <1>10 DEF HoldInv

LEMMA OneParent ==
    ASSUME KeptInv, NEW p, NEW q, NEW c, <<p, c>> \in children, <<q, c>> \in children
    PROVE  p = q
<1> DEFINE x == <<p, c>>
           y == <<q, c>>
<1>1. x[1] = p /\ x[2] = c /\ y[1] = q /\ y[2] = c
  OBVIOUS
<1>2. <<"parent", x[1], x[2]>> \in Kept /\ <<"parent", y[1], y[2]>> \in Kept
  BY DEF Kept, Tagged
<1>3. <<"parent", p, c>> \in Kept /\ <<"parent", q, c>> \in Kept
  BY ZenonT(60), <1>1, <1>2
<1> QED
  BY <1>3 DEF KeptInv

\* Once an item is inspected its children are to be pushed, which nobody knew before.
LEMMA InspectHold ==
    ASSUME TreeInv, TypeInv, HoldInv, NEW w \in Workers, Inspect(w) PROVE TypeInv' /\ HoldInv'
<1> DEFINE p == task[w]
<1>1. /\ pc[w] = "inspect" /\ pc' = [pc EXCEPT ![w] = "children"]
      /\ inspected' = inspected \cup {p}
      /\ todo' = [todo EXCEPT ![w] = ChildrenOf(p)]
      /\ UNCHANGED <<tree, pool, tickets, task, main>>
  BY DEF Inspect, Step, shared
<1>2. /\ \A v \in Workers : pc'[v] = IF v = w THEN "children" ELSE pc[v]
      /\ \A v \in Workers : todo'[v] = IF v = w THEN ChildrenOf(p) ELSE todo[v]
  BY <1>1 DEF TypeInv
<1>3. /\ "inspect" \in Early /\ "inspect" \notin Late /\ "children" \in Late /\ "children" \notin Early
      /\ "children" \in PCs
  BY DEF Early, Late, Unseen, PCs, Holding
<1>4. Busy(w) /\ \A v \in Workers : Busy(v)' <=> Busy(v)
  BY <1>1, <1>2, <1>3, Kinds DEF Busy
<1>5. Claimed(p) /\ \A n : Claimed(n)' <=> Claimed(n)
  BY <1>1, <1>4 DEF Claimed
<1>6. /\ read' = read /\ childItems' = childItems /\ children' = children /\ Index' = Index
      /\ main # "read"
  BY <1>1, NotReading DEF Index, tree
<1>7. p \notin inspected /\ p \in 1..read
  BY <1>1, <1>3, <1>4 DEF HoldInv, TypeInv
<1>8. DOMAIN childItems = Index /\ Index \subseteq Nat
  BY DEF TreeInv, VectorInv, Index
<1>9. \A c \in ChildrenOf(p) : c \in Index /\ <<p, c>> \in children
  BY SMTT(60), <1>8 DEF ChildrenOf
<1>10. TypeInv'
  <2>1. ChildrenOf(p) \subseteq Nat
    BY ZenonT(60), <1>8, <1>9
  <2>2. todo' \in [Workers -> SUBSET Nat]
    BY <1>1, <2>1 DEF TypeInv
  <2> QED
    BY ZenonT(60), <1>1, <1>2, <1>3, <1>4, <1>6, <1>7, <2>2 DEF TypeInv
<1>11. ASSUME NEW c \in ChildrenOf(p), Claimed(childItems[c]) PROVE FALSE
  <2>1. PICK x \in children : x[2] = c /\ x[1] \in inspected
    BY ZenonT(60), <1>9, <1>11 DEF HoldInv
  <2>2. x = <<x[1], c>>
    BY <2>1 DEF TreeInv, KeptInv
  <2>4. x[1] = p
    BY ZenonT(60), <1>9, <2>1, <2>2, OneParent DEF TreeInv
  <2> QED
    BY SMTT(60), <1>7, <2>1, <2>4
<1>12. \A t \in pool : t.item # p
  BY <1>4 DEF HoldInv
<1>13. \A v \in Workers : pc'[v] \in Early => task'[v] \notin inspected'
  BY SMTT(60), <1>1, <1>2, <1>3, <1>4, Kinds DEF HoldInv, Busy
<1>14. \A v \in Workers : pc'[v] \in Late => task'[v] \in inspected'
  BY ZenonT(60), <1>1, <1>2 DEF HoldInv
<1>15. \A v \in Workers : \A c \in todo'[v] :
        pc'[v] \in Late /\ c \in Index' /\ <<task'[v], c>> \in children' /\ ~Claimed(childItems[c])'
  <2> SUFFICES ASSUME NEW v \in Workers, NEW c \in todo'[v]
               PROVE  pc'[v] \in Late /\ c \in Index /\ <<task[v], c>> \in children /\ ~Claimed(childItems[c])
    BY ZenonT(60), <1>1, <1>5, <1>6
  <2>1. CASE v = w
    BY ZenonT(60), <1>2, <1>3, <1>9, <1>11, <2>1
  <2>2. CASE v # w
    BY ZenonT(60), <1>2, <2>2 DEF HoldInv
  <2> QED
    BY ZenonT(60), <2>1, <2>2
<1>16. \A c \in Index' : Claimed(childItems[c])' => \E x \in children' : x[2] = c /\ x[1] \in inspected'
  <2> SUFFICES ASSUME NEW c \in Index, Claimed(childItems[c])
               PROVE  \E x \in children : x[2] = c /\ x[1] \in inspected'
    BY ZenonT(60), <1>5, <1>6
  <2>1. PICK x \in children : x[2] = c /\ x[1] \in inspected
    BY ZenonT(60) DEF HoldInv
  <2> QED
    BY ZenonT(60), <1>1, <2>1
<1> QED
  BY ZenonT(60), <1>1, <1>4, <1>10, <1>12, <1>13, <1>14, <1>15, <1>16 DEF HoldInv

\* A child gets its task from the worker that inspected its parent.
LEMMA PushHold ==
    ASSUME TreeInv, TypeInv, HoldInv, NEW w \in Workers, PushChild(w) PROVE TypeInv' /\ HoldInv'
<1>1. PICK c \in todo[w] :
        /\ pool' = pool \cup {[ticket |-> tickets + 1, item |-> childItems[c], queue |-> w]}
        /\ todo' = [todo EXCEPT ![w] = @ \ {c}]
  BY ZenonT(60) DEF PushChild
<1> DEFINE t == [ticket |-> tickets + 1, item |-> childItems[c], queue |-> w]
<1>2. /\ pc[w] = "push" /\ pc' = [pc EXCEPT ![w] = "children"]
      /\ UNCHANGED <<tree, task, inspected, main>> /\ tickets' = tickets + 1
  BY DEF PushChild, Step, seen
<1>3. /\ \A v \in Workers : pc'[v] = IF v = w THEN "children" ELSE pc[v]
      /\ \A v \in Workers : todo'[v] = IF v = w THEN todo[w] \ {c} ELSE todo[v]
  BY <1>1, <1>2 DEF TypeInv
<1>4. {"children", "push"} \subseteq Late /\ {"children", "push"} \cap Early = {} /\ "children" \in PCs
  BY DEF Early, Late, Unseen, PCs, Holding
<1>5. Busy(w) /\ \A v \in Workers : Busy(v)' <=> Busy(v)
  BY <1>2, <1>3, <1>4, Kinds DEF Busy
<1>6. /\ c \in Index /\ <<task[w], c>> \in children /\ ~Claimed(childItems[c])
      /\ task[w] \in inspected
  BY <1>2, <1>4 DEF HoldInv
<1>7. /\ read' = read /\ childItems' = childItems /\ children' = children /\ Index' = Index
      /\ main # "read"
  BY <1>2, NotReading DEF Index, tree
<1>8. \A i, j \in Index : childItems[i] = childItems[j] => i = j
  BY DEF TreeInv, VectorInv
<1>9. childItems[c] \in 1..read
  BY SMTT(60), <1>6, NumObjectsType DEF TreeInv, VectorInv, Index
<1>10. t.ticket = tickets + 1 /\ t.item = childItems[c] /\ t.queue = w
  BY ZenonT(60)
<1>11. t \in [ticket : Nat, item : 1..read, queue : Workers \cup {Roots}]
  BY <1>9 DEF TypeInv
<1> HIDE DEF t
<1>12. pool' = pool \cup {t}
  BY ZenonT(60), <1>1 DEF t
<1>13. TypeInv'
  <2>1. todo' \in [Workers -> SUBSET Nat]
    BY <1>1 DEF TypeInv
  <2>2. \A u \in pool' : u.ticket <= tickets'
    BY <1>2, <1>10, <1>12 DEF TypeInv
  <2>3. pool' \subseteq [ticket : Nat, item : 1..read, queue : Workers \cup {Roots}]
    BY <1>11, <1>12 DEF TypeInv
  <2>4. pc' \in [Workers -> PCs] /\ tickets' \in Nat
    BY <1>2, <1>4 DEF TypeInv
  <2>5. \A v \in Workers : Busy(v)' => task'[v] \in 1..read
    BY <1>2, <1>5 DEF TypeInv
  <2> QED
    BY ZenonT(60), <1>2, <1>7, <2>1, <2>2, <2>3, <2>4, <2>5 DEF TypeInv
<1>14. \A n : Claimed(n)' <=> Claimed(n) \/ n = childItems[c]
  BY <1>2, <1>5, <1>10, <1>12 DEF Claimed
<1>15. \A u \in pool : u.item # t.item
  BY <1>6, <1>10 DEF Claimed
<1>16. t.item \notin inspected /\ \A v \in Workers : Busy(v) => task[v] # t.item
  BY <1>6, <1>10 DEF Claimed
<1>17. \A v \in Workers : (pc'[v] \in Early <=> pc[v] \in Early) /\ (pc'[v] \in Late <=> pc[v] \in Late)
  BY <1>2, <1>3, <1>4
<1>18. ASSUME NEW v \in Workers, NEW d \in todo'[v] PROVE d \in todo[v] /\ d # c
  <2>1. CASE v = w
    BY <1>3, <1>18, <2>1
  <2>2. CASE v # w
    <3>1. d \in todo[v] /\ pc[v] \in Late /\ <<task[v], d>> \in children
      BY <1>3, <1>18, <2>2 DEF HoldInv
    <3>2. task[v] # task[w]
      BY ZenonT(60), <1>5, <2>2, <3>1, Kinds DEF HoldInv, Busy
    <3> QED
      BY ZenonT(60), <1>6, <3>1, <3>2, OneParent DEF TreeInv
  <2> QED
    BY <2>1, <2>2
<1>19. \A v \in Workers : \A d \in todo'[v] :
        pc'[v] \in Late /\ d \in Index' /\ <<task'[v], d>> \in children' /\ ~Claimed(childItems[d])'
  BY SMTT(60), ZenonT(60), <1>2, <1>6, <1>7, <1>8, <1>14, <1>17, <1>18 DEF HoldInv
<1>20. \A d \in Index' : Claimed(childItems[d])' => \E x \in children' : x[2] = d /\ x[1] \in inspected'
  <2> SUFFICES ASSUME NEW d \in Index, Claimed(childItems[d])'
               PROVE  \E x \in children : x[2] = d /\ x[1] \in inspected
    BY <1>2, <1>7
  <2>1. CASE Claimed(childItems[d])
    BY <2>1 DEF HoldInv
  <2>2. CASE childItems[d] = childItems[c]
    <3>1. d = c
      BY ZenonT(60), <1>6, <1>8, <2>2
    <3> QED
      BY <1>6, <3>1
  <2> QED
    BY <1>7, <1>14, <2>1, <2>2
<1>21. /\ \A u, v \in pool' : u.item = v.item => u = v
       /\ \A u \in pool' : u.item \notin inspected'
       /\ \A u \in pool', v \in Workers : Busy(v)' => task'[v] # u.item
  BY ZenonT(60), <1>2, <1>5, <1>12, <1>15, <1>16 DEF HoldInv
<1> QED
  BY ZenonT(60), <1>2, <1>5, <1>13, <1>17, <1>19, <1>20, <1>21 DEF HoldInv

\* While the pack is read there is no work, so that the tree may change.
LEMMA ReadHold ==
    ASSUME TypeInv, main = "read", UNCHANGED <<shared, workers, seen>>, read' \in Nat
    PROVE  TypeInv' /\ HoldInv'
<1>1. /\ pool = {} /\ inspected = {} /\ remaining = 0
      /\ \A w \in Workers : pc[w] = "unborn" /\ todo[w] = {}
  BY DEF TypeInv
<1>2. pool' = {} /\ inspected' = {} /\ pc' = pc /\ todo' = todo /\ task' = task /\ remaining' = 0
      /\ tickets' = tickets
  BY <1>1 DEF shared, workers, seen
<1>3. "unborn" \notin Early \cup Late /\ "unborn" \notin Holding
  BY DEF Early, Late, Unseen, Holding
<1>4. \A w \in Workers : ~Busy(w)'
  BY <1>1, <1>2, <1>3 DEF Busy
<1>5. TypeInv'
  BY <1>1, <1>2, <1>4 DEF TypeInv
<1>6. \A n : ~Claimed(n)'
  BY ZenonT(60), <1>2, <1>4 DEF Claimed
<1> QED
  BY <1>1, <1>2, <1>3, <1>4, <1>5, <1>6 DEF HoldInv

\* The first tasks are for the roots.
LEMMA TraverseHold ==
    ASSUME TreeInv, TypeInv, Traverse PROVE TypeInv' /\ HoldInv'
<1>1. /\ main = "read" /\ main' # "read" /\ tickets' = Len(rootItems)
      /\ UNCHANGED <<read, childItems, workers, inspected>>
      /\ pool' = {[ticket |-> i, item |-> rootItems[i], queue |-> Roots] : i \in DOMAIN rootItems}
  BY ZenonT(60) DEF Traverse, seen
<1>2. inspected = {} /\ \A w \in Workers : pc[w] = "unborn" /\ todo[w] = {}
  BY <1>1 DEF TypeInv
<1>3. "unborn" \notin Early \cup Late /\ "unborn" \notin Holding
  BY DEF Early, Late, Unseen, Holding
<1>4. pc' = pc /\ todo' = todo /\ task' = task /\ inspected' = {}
  BY <1>1, <1>2 DEF workers
<1>5. \A w \in Workers : ~Busy(w)'
  BY <1>2, <1>3, <1>4 DEF Busy
<1>6. /\ DOMAIN rootItems = 1..Len(rootItems) /\ Len(rootItems) \in Nat
      /\ \A i \in DOMAIN rootItems : rootItems[i] \in 1..read
  BY NumObjectsType DEF TreeInv, VectorInv
<1>7. \A t \in pool' : /\ t.ticket \in 1..Len(rootItems) /\ t.item = rootItems[t.ticket]
                       /\ t = [ticket |-> t.ticket, item |-> t.item, queue |-> Roots]
  BY <1>1, <1>6
<1>8. pool' \subseteq [ticket : Nat, item : 1..read, queue : Workers \cup {Roots}]
  BY SMTT(60), ZenonT(60), <1>1, <1>6
<1>9. TypeInv'
  BY <1>1, <1>2, <1>4, <1>5, <1>6, <1>7, <1>8 DEF TypeInv
<1>10. \A t, u \in pool' : t.item = u.item => t = u
  <2> SUFFICES ASSUME NEW t \in pool', NEW u \in pool', t.item = u.item PROVE t = u
    OBVIOUS
  <2>1. t.ticket = u.ticket
    BY <1>7 DEF TreeInv, VectorInv
  <2> QED
    BY <1>7, <2>1
<1>11. \A c \in Index' : ~Claimed(childItems[c])'
  <2> SUFFICES ASSUME NEW c \in Index, Claimed(childItems[c])' PROVE FALSE
    BY ZenonT(60), <1>1 DEF Index
  <2>1. PICK t \in pool' : t.item = childItems[c]
    BY <1>1, <1>4, <1>5 DEF Claimed
  <2> QED
    BY <1>7, <2>1 DEF TreeInv, VectorInv
<1> QED
  BY ZenonT(60), <1>2, <1>3, <1>4, <1>5, <1>9, <1>10, <1>11 DEF HoldInv

Inv == TreeInv /\ TypeInv /\ HoldInv

LEMMA InitInv == Init => Inv
<1> SUFFICES ASSUME Init PROVE Inv
  OBVIOUS
<1>1. VectorInv /\ OffsetInv
  BY NumObjectsType DEF Init, VectorInv, OffsetInv, Index
<1>2. KeptInv
  BY DEF Init, KeptInv, Kept, Tagged
<1>3. "unborn" \in PCs /\ "unborn" \notin Holding /\ "unborn" \notin Early \cup Late
  BY DEF PCs, Left, Holding, Early, Late, Unseen
<1>4. \A w \in Workers : ~Busy(w)
  BY <1>3 DEF Init, Busy
<1>5. TypeInv
  BY SMTT(60), <1>3, <1>4 DEF Init, TypeInv
<1>6. HoldInv
  BY <1>3, <1>4 DEF Init, HoldInv, Claimed, Index
<1> QED
  BY <1>1, <1>2, <1>5, <1>6 DEF Inv, TreeInv

LEMMA CallerInv == ASSUME Inv, Caller PROVE Inv'
<1> USE DEF Inv
<1>1. CASE AddRoot
  <2>1. /\ main = "read" /\ UNCHANGED <<shared, workers, seen>> /\ read' \in Nat
    BY SMTT(60), <1>1, AddedRange DEF AddRoot, Added, Reading, TreeInv
  <2> QED
    BY <1>1, <2>1, AddRootTree, ReadHold
<1>2. CASE AddChild
  <2>1. /\ main = "read" /\ UNCHANGED <<shared, workers, seen>> /\ read' \in Nat
    BY <1>2, AddedRange DEF AddChild, Added, Reading, TreeInv
  <2> QED
    BY SMTT(60), <1>2, <2>1, AddChildTree, ReadHold
<1>3. CASE AddChildById
  <2>1. /\ main = "read" /\ UNCHANGED <<shared, workers, seen>> /\ read' \in Nat
    BY <1>3, AddedRange DEF AddChildById, Added, Reading, TreeInv
  <2> QED
    BY <1>3, <2>1, AddChildByIdTree, ReadHold
<1>4. CASE ReadFails \/ TraverseFails
  <2>1. /\ main = "read" /\ UNCHANGED <<tree, shared, workers, seen>>
    BY <1>4 DEF ReadFails, TraverseFails, Reading
  <2>2. read' \in Nat
    BY <2>1 DEF TreeInv, VectorInv, tree
  <2> QED
    BY <2>1, <2>2, TreeFrame, ReadHold
<1>5. CASE Traverse
  BY <1>5, TraverseTree, TraverseHold
<1>6. CASE Join \/ Check
  <2>1. UNCHANGED <<tree, shared, workers, seen>> /\ main' # "read"
    BY <1>6 DEF Join, Check
  <2>2. TreeInv'
    BY <2>1, TreeFrame
  <2>3. TypeInv'
    BY SMTT(60), <2>1 DEF TypeInv, Busy, tree, shared, workers, seen
  <2>4. HoldInv'
    BY ZenonT(60), <2>1 DEF HoldInv, Claimed, Busy, Index, tree, shared, workers, seen
  <2> QED
    BY <2>2, <2>3, <2>4
<1>7. CASE \E w \in Workers : Spawn(w)
  <2>1. PICK w \in Workers : Spawn(w)
    BY <1>7
  <2>2. /\ pc' = [pc EXCEPT ![w] = "abort"] /\ pc[w] = "unborn" /\ main' # "read"
        /\ UNCHANGED <<tree, pool, tickets, task, todo, inspected>>
    BY <2>1 DEF Spawn, shared, seen
  <2>3. "abort" \in PCs /\ {"abort", "unborn"} \cap (Early \cup Late) = {}
    BY SMTT(60) DEF PCs, Early, Late, Unseen
  <2> QED
    BY ZenonT(60), <2>2, <2>3, TreeFrame, MoveHold
<1> QED
  BY SMTT(60), <1>1, <1>2, <1>3, <1>4, <1>5, <1>6, <1>7 DEF Caller

\* Steps of a worker after which it holds what it held before, or nothing.
LEMMA MoveInv ==
    ASSUME Inv, NEW w \in Workers,
           \/ CheckAbort(w) \/ CheckInterrupt(w) \/ NothingToSteal(w) \/ Idle(w) \/ Decode(w)
           \/ SkipHashing(w) \/ CountChild(w) \/ TaskDone(w) \/ UncountFailed(w) \/ Raise(w)
           \/ Unwind(w) \/ TaskFails(w) \/ Panic(w)
    PROVE  Inv'
<1> USE DEF Inv
<1>1. /\ UNCHANGED <<tree, pool, tickets, task, todo, inspected, main>> /\ pc[w] # "unborn"
  BY ZenonT(60) DEF CheckAbort, CheckInterrupt, NothingToSteal, Idle, Decode, SkipHashing, CountChild,
         TaskDone, UncountFailed, Raise, Unwind, TaskFails, Panic, Step, shared, seen
<1>2. main' # "read"
  BY SMTT(60), <1>1, NotReading
<1>3. \E to \in PCs :
        /\ pc' = [pc EXCEPT ![w] = to]
        /\ to \in Early => pc[w] \in Early
        /\ to \in Late => pc[w] \in Late
        /\ pc[w] \in Late => to \in Late \/ todo[w] = {}
  <2>1. CASE CheckAbort(w)
    BY ZenonT(60), <2>1 DEF CheckAbort, Step, PCs, Left, Holding, Early, Late, Unseen
  <2>2. CASE CheckInterrupt(w)
    BY ZenonT(60), <2>2 DEF CheckInterrupt, Step, PCs, Left, Holding, Early, Late, Unseen
  <2>3. CASE NothingToSteal(w)
    BY ZenonT(60), <2>3 DEF NothingToSteal, Step, PCs, Left, Holding, Early, Late, Unseen
  <2>4. CASE Idle(w)
    BY ZenonT(60), <2>4 DEF Idle, Step, PCs, Left, Holding, Early, Late, Unseen
  <2>5. CASE Decode(w)
    BY ZenonT(60), <2>5 DEF Decode, Step, PCs, Left, Holding, Early, Late, Unseen
  <2>6. CASE SkipHashing(w)
    BY ZenonT(60), <2>6 DEF SkipHashing, Step, PCs, Left, Holding, Early, Late, Unseen
  <2>7. CASE CountChild(w)
    BY ZenonT(60), <2>7 DEF CountChild, Step, PCs, Left, Holding, Early, Late, Unseen
  <2>8. CASE TaskDone(w)
    BY ZenonT(60), <2>8 DEF TaskDone, Step, PCs, Left, Holding, Early, Late, Unseen
  <2>9. CASE UncountFailed(w)
    BY ZenonT(60), <2>9 DEF UncountFailed, Step, PCs, Left, Holding, Early, Late, Unseen
  <2>10. CASE Raise(w)
    BY ZenonT(60), <2>10 DEF Raise, Step, PCs, Left, Holding, Early, Late, Unseen
  <2>11. CASE Unwind(w)
    BY SMTT(60), <2>11 DEF Unwind, Step, PCs, Left, Holding, Early, Late, Unseen
  <2>12. CASE TaskFails(w)
    BY ZenonT(60), <2>12 DEF TaskFails, Step, PCs, Left, Holding, Early, Late, Unseen
  <2>13. CASE Panic(w)
    BY ZenonT(60), <2>13 DEF Panic, Step, PCs, Left, Holding, Early, Late, Unseen
  <2> QED
    BY ZenonT(60), <2>1, <2>2, <2>3, <2>4, <2>5, <2>6, <2>7, <2>8, <2>9, <2>10, <2>11, <2>12, <2>13
<1> QED
  BY ZenonT(60), <1>1, <1>2, <1>3, TreeFrame, MoveHold

LEMMA WorkerInv == ASSUME Inv, NEW w \in Workers, Worker(w) PROVE Inv'
<1> USE DEF Inv
<1>1. CASE Steal(w)
  <2>1. UNCHANGED tree
    BY <1>1 DEF Steal
  <2> QED
    BY <1>1, <2>1, TreeFrame, StealHold
<1>2. CASE Attach(w)
  <2>1. task[w] \in 1..read
    BY <1>2 DEF Attach, Step, TypeInv, Busy, Holding
  <2> QED
    BY ZenonT(60), <1>2, <2>1, AttachTree, AttachHold
<1>3. CASE Inspect(w)
  <2>1. UNCHANGED tree
    BY <1>3 DEF Inspect
  <2> QED
    BY <1>3, <2>1, TreeFrame, InspectHold
<1>4. CASE PushChild(w)
  <2>1. UNCHANGED tree
    BY <1>4 DEF PushChild
  <2> QED
    BY <1>4, <2>1, TreeFrame, PushHold
<1> QED
  BY <1>1, <1>2, <1>3, <1>4, MoveInv DEF Worker

LEMMA IdleInv ==
    ASSUME Inv, UNCHANGED <<tree, pool, tickets, remaining, workers, inspected>>,
           main' = "read" => main = "read"
    PROVE  Inv'
<1>1. TreeInv'
  BY SMTT(60), TreeFrame DEF Inv
<1>2. TypeInv'
  BY ZenonT(60) DEF Inv, TypeInv, Busy, tree, workers
<1>3. HoldInv'
  BY DEF Inv, HoldInv, Claimed, Busy, Index, tree, workers
<1> QED
  BY <1>1, <1>2, <1>3 DEF Inv

LEMMA FaultInv == ASSUME Inv, Fault PROVE Inv'
<1>1. CASE SpawnFails \/ Interrupt
  BY <1>1, IdleInv DEF SpawnFails, Interrupt, shared, seen
<1>2. CASE \E w \in Workers : TaskFails(w) \/ Panic(w)
  BY <1>2, MoveInv
<1> QED
  BY <1>1, <1>2 DEF Fault

LEMMA NextInv == Inv /\ [Next]_vars => Inv'
<1> SUFFICES ASSUME Inv, [Next]_vars PROVE Inv'
  OBVIOUS
<1>1. CASE UNCHANGED vars
  BY <1>1, IdleInv DEF vars, shared, seen
<1> QED
  BY <1>1, CallerInv, FaultInv, WorkerInv DEF Next

\* Exclusive holds for every pack, however many threads resolve it: the uniqueness that
\* the unsafe get_mut() of the items relies on, see HoldInv.
THEOREM ExclusiveAccess == Spec => []Exclusive
<1>1. Inv => Exclusive
  BY DEF Inv, TreeInv, KeptInv, HoldInv, Exclusive, Early
<1> QED
  BY <1>1, InitInv, NextInv, PTL DEF Spec
=============================================================================
