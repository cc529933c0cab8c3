---------------------------- MODULE MCDeltaTree -----------------------------
EXTENDS DeltaTree

CONSTANTS a, b, c, d   \* object ids; no entry is d

MCIds == {a, b, c, d}

Base(o, i) == [offset |-> o, kind |-> "base", id |-> i]
Ofs(o, f, i) == [offset |-> o, kind |-> "ofs", base |-> f, id |-> i]
Ref(o, f, i) == [offset |-> o, kind |-> "ref", base |-> f, id |-> i]

\* Bases, and deltas of any entry and of none.
Kinds(o, i) ==
    {Base(o, i)} \cup {Ofs(o, f, i) : f \in 0..2} \cup {Ref(o, f, i) : f \in MCIds}

Triples == {<<x, y, z>> : x \in Kinds(1, a), y \in Kinds(2, b), z \in Kinds(3, c)}

\* The same object twice, deltas that wait for it, and chains of them.
Twice ==
    {<<Base(1, a), y, Ref(3, a, b), z>> : y \in {Base(2, a), Ofs(2, 1, a)},
                                          z \in {Ref(4, a, c), Ofs(4, 3, c), Base(4, c)}}

\* Offsets that do not increase, and no entries.
Odd == {<<Base(2, a), Base(2, b)>>, <<Base(4, a)>>, <<>>}

Of(readers, set) == [reader : readers, entries : set, end : {5}]

MCPacks ==
    Of({"stream", "offsets"}, Triples) \cup Of({"stream"}, Twice) \cup Of({"stream"}, Odd)
    \cup [reader : {"offsets"}, entries : {<<Base(5, a)>>}, end : {5}]
=============================================================================
