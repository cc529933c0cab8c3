----------------------------- MODULE MCOdbSlots -----------------------------
(***************************************************************************)
(* Up to two objects in up to three packs, and a multi-pack index of some  *)
(* of them.                                                                *)
(***************************************************************************)
EXTENDS OdbSlots

CONSTANTS o1, o2,  \* objects
          A, B, C, \* packs
          m,       \* a multi-pack index
          t1, t2   \* threads

\* o1 is in packs A and C, o2 nowhere; the multi-pack index is of A and another pack, or of
\* A alone.
MCHolds == (A :> {o1}) @@ (B :> {}) @@ (C :> {o1})
MCMidxFiles == <<m>>
MCCovers == m :> <<A, C>>
LookupCovers == m :> <<A, B>>
OneCovers == m :> <<A>>
MCBySize == <<m, C, A, B>>

\* One thread keeps a location and uses it after a refresh of its own, or after loading all
\* indices; the other one reads an object that is loose at first.
MCMethods ==
    (t1 :> <<{<<"prevent_pack_unload", NoFile>>}, {<<"location_by_oid", o1>>},
             {<<"exists", o2>>, <<"packed_object_count", NoFile>>},
             {<<"entry_by_location", NoFile>>}>>)
    @@ (t2 :> <<{<<"find", o1>>}>>)

\* One thread uses a location after a refresh, the other one reads an object that is loose
\* at first.
ReturnsMethods ==
    (t1 :> <<{<<"prevent_pack_unload", NoFile>>}, {<<"location_by_oid", o1>>}, {<<"exists", o2>>},
             {<<"entry_by_location", NoFile>>}>>)
    @@ (t2 :> <<{<<"find", o1>>}>>)

\* Both threads read the same object, in the pack whose index is the last one to be loaded.
LookupHolds == (A :> {}) @@ (B :> {o1}) @@ (C :> {o1})
LookupMethods == [t \in {t1, t2} |-> <<{<<"find", o1>>}>>]
=============================================================================
