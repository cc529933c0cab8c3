------------------------------ MODULE RefStore ------------------------------
(***************************************************************************)
(* What the transactions of gix_ref::file::Store promise to each other,    *)
(* without files: a table of references and exclusive claims on them.  A   *)
(* claim is made against the value that a reference has at that moment,    *)
(* and may be applied, a few at a time, or dropped; nothing but applying   *)
(* the claim on a reference changes it.  Each edit of a transaction is     *)
(* thus a compare-and-swap, whose comparison is still true when the value  *)
(* is swapped; a transaction as a whole is not atomic, as the              *)
(* documentation of commit() says.                                         *)
(***************************************************************************)
CONSTANTS Procs, Names, Values

VARIABLES value,    \* the value of each reference
          claims    \* edits that were checked, and not yet applied or dropped

vars == <<value, claims>>

Claims == [proc : Procs, name : Names, was : Values, new : Values]

Init == value \in [Names -> Values] /\ claims = {}

\* A transaction locks a reference and finds it as it should be.
Claim(p, n, new) ==
    /\ \A c \in claims : c.name # n
    /\ claims' = claims \cup {[proc |-> p, name |-> n, was |-> value[n], new |-> new]}
    /\ UNCHANGED value

\* Some claims of a process become visible.
Apply(p, applied) ==
    /\ applied # {}
    /\ applied \subseteq {c \in claims : c.proc = p}
    /\ value' = [n \in Names |-> IF \E c \in applied : c.name = n
                                 THEN (CHOOSE c \in applied : c.name = n).new
                                 ELSE value[n]]
    /\ claims' = claims \ applied

\* The transaction is rolled back, or fails on the way.
Drop(p) ==
    /\ claims' = {c \in claims : c.proc # p}
    /\ UNCHANGED value

Next == \E p \in Procs :
    \/ \E n \in Names, new \in Values : Claim(p, n, new)
    \/ \E applied \in SUBSET claims : Apply(p, applied)
    \/ Drop(p)

Spec == Init /\ [][Next]_vars

TypeOK == value \in [Names -> Values] /\ claims \subseteq Claims

\* No two claims are on the same reference, and what a claim was made against
\* is what the reference still holds: the comparison of a compare-and-swap is
\* as good at the time of the swap as it was when it was made.
ClaimsHold ==
    /\ \A c, d \in claims : c.name = d.name => c = d
    /\ \A c \in claims : value[c.name] = c.was
=============================================================================
