-------------------------- MODULE MCRefTransaction --------------------------
(***************************************************************************)
(* Instances of RefTransaction for TLC: two branches, a symbolic HEAD, and *)
(* the kinds of transactions gix itself makes.                             *)
(***************************************************************************)
EXTENDS RefTransaction, TLC

CONSTANTS a, b, HEAD,   \* refs/heads/a, refs/heads/b, and HEAD
          v1, v2        \* object ids

ProcSymmetry == Permutations(Procs)

Expect(is, target) == [is |-> is, target |-> target]
Edit(name, new, expected, deref) ==
    [name |-> name, new |-> new, expected |-> expected, deref |-> deref, only |-> FALSE,
     ancestors |-> {}]
Update(name, new, expected) == Edit(name, new, expected, FALSE)
Delete(name, expected) == Edit(name, NoRef, expected, FALSE)
Transaction(m, es) == [mode |-> m, edits |-> es]

\* A symbolic HEAD on branch a, which is at v1; branch b does not exist.
OnBranchA == [n \in Names |-> CASE n = HEAD -> a [] n = a -> v1 [] OTHER -> NoRef]

MCPackable == {a, b}
MCPrivate == {HEAD}
MCOids == {v1, v2}
MCAutoLog == {HEAD, a, b}

\* Loose references only.
CyclicStores == {OnBranchA, [OnBranchA EXCEPT ![HEAD] = b, ![b] = HEAD]}
NothingPacked == {[n \in MCPackable |-> NoRef]}

LooseRequests ==
    {Transaction("DeletionsOnly", es) : es \in {
        <<Edit(HEAD, v2, Expect("MustExistAndMatch", v1), TRUE)>>,        \* git commit
        <<Update(HEAD, b, Expect("Any", NoRef))>>,                        \* git switch
        <<Delete(a, Expect("MustExistAndMatch", v1)),
          Update(b, v2, Expect("MustNotExist", NoRef))>>,                 \* rename a to b
        <<Update(b, v1, Expect("ExistingMustMatch", v2)),
          Delete(a, Expect("Any", NoRef))>>,
        <<Edit(HEAD, NoRef, Expect("MustExist", NoRef), TRUE)>>,
        <<Edit(HEAD, v2, Expect("Any", NoRef), TRUE),
          Update(a, v2, Expect("Any", NoRef))>>}}                         \* a twice?

\* Stores with a packed-refs file: branch a packed only, or also loose and newer.
PackedStores == {[n \in MCPackable |-> IF n = a THEN v1 ELSE NoRef]}
MixedStores == {OnBranchA, [OnBranchA EXCEPT ![a] = NoRef], [OnBranchA EXCEPT ![a] = v2]}

\* Transactions that write packed-refs, and ones that do not concern it.
PackedRequests == {
    Transaction("RemoveLooseSource", <<Update(a, v2, Expect("MustExist", NoRef))>>),
    Transaction("DeletionsAndUpdates",
                <<Delete(a, Expect("ExistingMustMatch", v1)),
                  Update(b, v1, Expect("Any", NoRef))>>),
    Transaction("RemoveLooseSource",
                <<Edit(HEAD, v1, Expect("Any", NoRef), TRUE)>>),
    Transaction("DeletionsOnly", <<Update(HEAD, b, Expect("MustExistAndMatch", a))>>)}

\* Two deletions of different packed references.
BothPacked == {[n \in MCPackable |-> v1]}
HeadOnly == {[OnBranchA EXCEPT ![a] = NoRef]}
DeletingRequests ==
    {Transaction("DeletionsOnly", <<Delete(n, Expect("Any", NoRef))>>) : n \in MCPackable}

\* A detached HEAD is updated along with references that go to packed-refs.
DetachedHead == {[OnBranchA EXCEPT ![HEAD] = v1]}
PrivateRequests == {
    Transaction("RemoveLooseSource", <<Update(HEAD, v2, Expect("Any", NoRef))>>)}

\* Transactions that want two references in opposite orders, packed-refs before
\* or after one of them, and that read packed-refs before they lock it.
CrossingRequests == {
    Transaction("DeletionsOnly", <<Update(a, v2, Expect("MustExist", NoRef))>>),
    Transaction("DeletionsOnly", <<Delete(a, Expect("Any", NoRef)),
                                   Update(b, v2, Expect("Any", NoRef))>>),
    Transaction("RemoveLooseSource", <<Update(b, v1, Expect("Any", NoRef)),
                                       Update(a, v1, Expect("Any", NoRef))>>)}
=============================================================================
