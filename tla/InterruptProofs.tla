-------------------------- MODULE InterruptProofs ---------------------------
(***************************************************************************)
(* Proofs about Interrupt, for any number of threads, signals and calls.   *)
(* Registration and the handling of signals have an invariant each: no     *)
(* step changes the variables of both, but for the reset in deregister().  *)
(***************************************************************************)
EXTENDS Interrupt, FiniteSetTheorems, TLAPS

PCs == {"run", "init", "install", "remove", "reinstate"}
Locked == {"install", "remove", "reinstate"}

\* The threads that are counted and have no Deregister instance yet.
Pending == {t \in Threads : pc[t] \in {"init", "install"}}

RegTypes ==
    /\ count \in Nat /\ tokens \in Nat /\ inits \in Nat /\ failed \in BOOLEAN
    /\ hooks \in {{}, Sigs} /\ defaults \subseteq Sigs /\ touched \subseteq Sigs
    /\ installed \in [Sigs -> SUBSET {"interrupt", "default"}]
    /\ pc \in [Threads -> PCs] /\ prev \in [Threads -> Nat] /\ left \in [Threads -> SUBSET Sigs]

\* The steps that need the lock are those of its holder.
HolderInv ==
    /\ holder \in Threads \cup {NoThread}
    /\ \A t \in Threads : pc[t] \in Locked <=> holder = t

\* Every call that is counted has an instance, is under way, or has failed.
CountInv ==
    /\ tokens + Cardinality(Pending) <= count
    /\ ~failed => count = tokens + Cardinality(Pending)

\* Someone who has seen the counter at zero is on the way to install the hooks.
Expected == count = 0 \/ \E t \in Threads : pc[t] = "init" /\ prev[t] = 0

\* What is registered, by the step that the holder of the lock has reached.
HookInv ==
    /\ \A s \in Sigs : /\ installed[s] # {} => s \in touched
                       /\ "default" \in installed[s] => s \in defaults
    /\ ~failed =>
         /\ holder = NoThread /\ hooks # {} => count > 0 /\ \A s \in Sigs : installed[s] = {"interrupt"}
         /\ holder = NoThread /\ hooks = {} => Expected /\ \A s \in touched : installed[s] = {"default"}
         /\ \A t \in Threads :
              /\ pc[t] = "install" =>
                   hooks = {} /\ \A s \in Sigs \ left[t] : "interrupt" \in installed[s]
              /\ pc[t] = "remove" =>
                   /\ hooks = Sigs /\ Expected
                   /\ \A s \in Sigs : installed[s] = IF s \in left[t] THEN {"interrupt"} ELSE {}
              /\ pc[t] = "reinstate" =>
                   /\ hooks = {} /\ Expected
                   /\ \A s \in Sigs : installed[s] = IF s \in left[t] THEN {} ELSE {"default"}

RegInv == RegTypes /\ HolderInv /\ CountInv /\ HookInv

\* Counting the threads whose calls are under way.
LEMMA PendingFinite == IsFiniteSet(Pending) /\ Cardinality(Pending) \in Nat
<1>1. Pending \in SUBSET Threads
  BY DEF Pending
<1> QED
  BY <1>1, ThreadsAssumption, FS_Subset, FS_CardinalityType

LEMMA PendingSome ==
    ASSUME NEW t \in Pending PROVE Cardinality(Pending) > 0
BY PendingFinite, FS_EmptySet

\* A step of one thread adds it to the pending ones, or removes it from them.
LEMMA PendingStep ==
    ASSUME RegTypes, NEW t \in Threads, NEW to \in PCs, pc' = [pc EXCEPT ![t] = to]
    PROVE  Pending' = IF to \in {"init", "install"} THEN Pending \cup {t} ELSE Pending \ {t}
<1>1. \A u \in Threads : pc'[u] = IF u = t THEN to ELSE pc[u]
  BY DEF RegTypes
<1>2. \A u : u \in Pending' <=> u \in Threads /\ pc'[u] \in {"init", "install"}
  BY DEF Pending
<1>3. \A u : u \in Pending <=> u \in Threads /\ pc[u] \in {"init", "install"}
  BY DEF Pending
<1>4. CASE to \in {"init", "install"}
  BY <1>1, <1>2, <1>3, <1>4
<1>5. CASE to \notin {"init", "install"}
  BY <1>1, <1>2, <1>3, <1>5
<1> QED
  BY <1>4, <1>5

\* How many of them there are after such a step.
LEMMA PendingCount ==
    ASSUME RegTypes, NEW t \in Threads, NEW to \in PCs, pc' = [pc EXCEPT ![t] = to]
    PROVE  /\ Cardinality(Pending) \in Nat /\ Cardinality(Pending') \in Nat
           /\ t \in Pending <=> pc[t] \in {"init", "install"}
           /\ t \in Pending => Cardinality(Pending) > 0
           /\ t \in Pending /\ to \in {"init", "install"} => Cardinality(Pending') = Cardinality(Pending)
           /\ t \notin Pending /\ to \in {"init", "install"} => Cardinality(Pending') = Cardinality(Pending) + 1
           /\ t \in Pending /\ to \notin {"init", "install"} => Cardinality(Pending') = Cardinality(Pending) - 1
           /\ t \notin Pending /\ to \notin {"init", "install"} => Cardinality(Pending') = Cardinality(Pending)
<1>1. t \in Pending <=> pc[t] \in {"init", "install"}
  BY DEF Pending
<1>2. /\ Cardinality(Pending \cup {t}) = IF t \in Pending THEN Cardinality(Pending) ELSE Cardinality(Pending) + 1
      /\ Cardinality(Pending \ {t}) = IF t \in Pending THEN Cardinality(Pending) - 1 ELSE Cardinality(Pending)
  BY PendingFinite, FS_AddElement, FS_RemoveElement
<1>3. t \in Pending => Cardinality(Pending) > 0
  BY PendingSome
<1>4. CASE to \in {"init", "install"}
  <2>1. Pending' = Pending \cup {t}
    BY <1>4, PendingStep
  <2>2. Cardinality(Pending') = IF t \in Pending THEN Cardinality(Pending) ELSE Cardinality(Pending) + 1
    BY <1>2, <2>1
  <2> QED
    BY <1>1, <1>3, <1>4, <2>2, PendingFinite
<1>5. CASE to \notin {"init", "install"}
  <2>1. Pending' = Pending \ {t}
    BY <1>5, PendingStep
  <2>2. Cardinality(Pending') = IF t \in Pending THEN Cardinality(Pending) - 1 ELSE Cardinality(Pending)
    BY <1>2, <2>1
  <2> QED
    BY <1>1, <1>3, <1>5, <2>2, PendingFinite
<1> QED
  BY <1>4, <1>5

\* A call of init_handler() is counted first.
LEMMA InitHandlerReg ==
    ASSUME RegInv, NEW t \in Threads, InitHandler(t) PROVE RegInv'
<1>1. /\ pc[t] = "run" /\ pc' = [pc EXCEPT ![t] = "init"] /\ prev' = [prev EXCEPT ![t] = count]
      /\ count' = count + 1 /\ inits' = inits + 1
      /\ UNCHANGED <<holder, hooks, defaults, installed, touched, left, tokens, failed>>
  BY DEF InitHandler, At, Goto, Counted
<1>2. RegTypes' /\ HolderInv'
  BY <1>1 DEF RegInv, RegTypes, HolderInv, PCs, Locked
<1>3. CountInv'
  <2>1. t \notin Pending /\ RegTypes /\ "init" \in PCs
    BY <1>1 DEF Pending, RegInv, PCs
  <2>2. Cardinality(Pending') = Cardinality(Pending) + 1 /\ Cardinality(Pending) \in Nat
    BY <1>1, <2>1, PendingCount
  <2> QED
    BY <1>1, <2>2 DEF RegInv, RegTypes, CountInv
<1>4. Expected => Expected'
  BY <1>1 DEF Expected, RegInv, RegTypes
<1>5. HookInv'
  BY <1>1, <1>4 DEF RegInv, RegTypes, HookInv
<1> QED
  BY <1>2, <1>3, <1>5 DEF RegInv
\* With the lock: the thread that was first installs the hooks, the others are done.
LEMMA InitLockReg ==
    ASSUME RegInv, NEW t \in Threads, InitLock(t) PROVE RegInv'
<1>1. /\ pc[t] = "init" /\ holder = NoThread
      /\ UNCHANGED <<count, hooks, defaults, installed, touched, prev, failed, inits>>
  BY DEF InitLock, At
<1>2. t \in Pending /\ RegTypes /\ "install" \in PCs /\ "run" \in PCs
  BY <1>1 DEF Pending, RegInv, PCs
<1>3. CASE Installs(t)
  <2>1. /\ hooks = {} /\ prev[t] = 0 /\ holder' = t /\ left' = [left EXCEPT ![t] = Sigs]
        /\ pc' = [pc EXCEPT ![t] = "install"] /\ tokens' = tokens
    BY <1>3 DEF InitLock, Installs, Goto
  <2>2. RegTypes' /\ HolderInv'
    BY <1>1, <2>1, ThreadsAssumption DEF RegInv, RegTypes, HolderInv, PCs, Locked
  <2>3. Cardinality(Pending') = Cardinality(Pending)
    BY <1>2, <2>1, PendingCount
  <2>4. CountInv'
    BY <1>1, <2>1, <2>3 DEF RegInv, CountInv
  <2>5. \A u \in Threads : pc'[u] \in Locked => u = t
    BY <2>1, <2>2 DEF HolderInv
  <2>6. HookInv'
    BY <1>1, <2>1, <2>5, ThreadsAssumption DEF RegInv, RegTypes, HookInv, Locked
  <2> QED
    BY <2>2, <2>4, <2>6 DEF RegInv
<1>4. CASE ~Installs(t)
  <2>1. /\ tokens' = tokens + 1 /\ holder' = holder /\ left' = left
        /\ pc' = [pc EXCEPT ![t] = "run"]
    BY <1>4 DEF InitLock, Goto
  <2>2. RegTypes' /\ HolderInv'
    BY <1>1, <2>1, ThreadsAssumption DEF RegInv, RegTypes, HolderInv, PCs, Locked
  <2>3. Cardinality(Pending') = Cardinality(Pending) - 1 /\ Cardinality(Pending) \in Nat
    BY <1>2, <2>1, PendingCount
  <2>4. CountInv'
    BY <1>1, <2>1, <2>3 DEF RegInv, RegTypes, CountInv
  <2>5. Expected /\ hooks = {} => Expected'
    BY <1>1, <1>4, <2>1 DEF Expected, RegInv, RegTypes, Installs
  <2>6. \A u \in Threads : pc'[u] \notin Locked
    BY <1>1, <2>1, <2>2, ThreadsAssumption DEF HolderInv
  <2>7. HookInv'
    BY <1>1, <2>1, <2>5, <2>6 DEF RegInv, RegTypes, HookInv, Locked
  <2> QED
    BY <2>2, <2>4, <2>7 DEF RegInv
<1> QED
  BY <1>3, <1>4

\* The hooks are installed one after the other, by the holder of the lock.
LEMMA InstallReg ==
    ASSUME RegInv, NEW t \in Threads, Install(t) PROVE RegInv'
<1>1. PICK s \in left[t] :
        /\ installed' = [installed EXCEPT ![s] = @ \cup {"interrupt"}] /\ touched' = touched \cup {s}
        /\ left' = [left EXCEPT ![t] = @ \ {s}]
  BY DEF Install, Register
<1>2. /\ pc[t] = "install" /\ holder = t /\ s \in Sigs
      /\ UNCHANGED <<count, holder, hooks, defaults, pc, prev, tokens, failed, inits>>
  BY <1>1 DEF Install, At, RegInv, RegTypes, HolderInv, Locked
<1>3. RegTypes' /\ HolderInv' /\ CountInv'
  BY <1>1, <1>2 DEF RegInv, RegTypes, HolderInv, CountInv, Pending
<1>4. \A u \in Threads : pc[u] \in Locked => u = t
  BY <1>2 DEF RegInv, HolderInv
<1>5. HookInv'
  BY <1>1, <1>2, <1>4, ThreadsAssumption DEF RegInv, RegTypes, HookInv, Locked
<1> QED
  BY <1>3, <1>5 DEF RegInv

\* A failure ends what can be said of the hooks; the count stays too high.
LEMMA FailsReg ==
    ASSUME RegInv, NEW t \in Threads, InstallFails(t) \/ ReinstateFails(t) PROVE RegInv'
<1>1. /\ pc[t] \in Locked /\ failed' = TRUE /\ holder' = NoThread
      /\ left' = [left EXCEPT ![t] = {}] /\ pc' = [pc EXCEPT ![t] = "run"]
      /\ UNCHANGED <<count, hooks, defaults, installed, touched, prev, tokens, inits>>
  BY DEF InstallFails, ReinstateFails, At, Goto, Locked
<1>2. RegTypes' /\ HolderInv'
  BY <1>1, ThreadsAssumption DEF RegInv, RegTypes, HolderInv, PCs, Locked
<1>3. RegTypes /\ "run" \in PCs
  BY DEF RegInv, PCs
<1>4. pc' = [pc EXCEPT ![t] = "run"]
  BY <1>1
<1>5. /\ Cardinality(Pending) \in Nat
      /\ t \in Pending => Cardinality(Pending') = Cardinality(Pending) - 1
      /\ t \notin Pending => Cardinality(Pending') = Cardinality(Pending)
  BY <1>3, <1>4, PendingCount
<1>6. CountInv' /\ HookInv'
  BY <1>1, <1>5 DEF RegInv, RegTypes, CountInv, HookInv
<1> QED
  BY <1>2, <1>6 DEF RegInv

\* The hooks are all there; default behaviour is no longer emulated.
LEMMA InstalledReg ==
    ASSUME RegInv, NEW t \in Threads, Installed(t) PROVE RegInv'
<1>1. /\ pc[t] = "install" /\ left[t] = {} /\ holder = t
      /\ installed' = [s \in Sigs |-> IF s \in defaults THEN installed[s] \ {"default"} ELSE installed[s]]
      /\ defaults' = {} /\ hooks' = Sigs /\ holder' = NoThread /\ tokens' = tokens + 1
      /\ pc' = [pc EXCEPT ![t] = "run"]
      /\ UNCHANGED <<count, touched, prev, left, failed, inits>>
  BY DEF Installed, WithoutDefaults, At, Goto, RegInv, HolderInv, Locked
<1>2. t \in Pending /\ RegTypes /\ "run" \in PCs
  BY <1>1 DEF Pending, RegInv, PCs
<1>3. RegTypes' /\ HolderInv'
  BY <1>1, ThreadsAssumption DEF RegInv, RegTypes, HolderInv, PCs, Locked
<1>4. /\ Cardinality(Pending') = Cardinality(Pending) - 1 /\ Cardinality(Pending) \in Nat
      /\ Cardinality(Pending) > 0
  BY <1>1, <1>2, PendingCount
<1>5. CountInv' /\ count > 0
  BY <1>1, <1>4 DEF RegInv, RegTypes, CountInv
<1>6. \A u \in Threads : pc'[u] \notin Locked
  BY <1>1, <1>3, ThreadsAssumption DEF HolderInv
<1>7. ASSUME ~failed, NEW s \in Sigs PROVE installed'[s] = {"interrupt"}
  <2>1. "interrupt" \in installed[s] /\ ("default" \in installed[s] => s \in defaults)
    BY <1>1, <1>7 DEF RegInv, HookInv
  <2>2. installed[s] \subseteq {"interrupt", "default"}
    BY DEF RegInv, RegTypes
  <2> QED
    BY <1>1, <2>1, <2>2
<1>8. \A s \in Sigs : /\ installed'[s] # {} => s \in touched
                      /\ "default" \notin installed'[s]
  BY <1>1 DEF RegInv, HookInv
<1>9. HookInv'
  BY <1>1, <1>5, <1>6, <1>7, <1>8, SigsAssumption DEF RegInv, RegTypes, HookInv, Locked
<1> QED
  BY <1>3, <1>5, <1>9 DEF RegInv

\* The last instance takes the lock to remove the hooks; the others only count.
LEMMA DeregisterReg ==
    ASSUME RegInv, NEW t \in Threads, NEW toggle \in BOOLEAN, Deregister(t, toggle) PROVE RegInv'
<1>1. /\ pc[t] = "run" /\ tokens > 0 /\ holder = NoThread
      /\ tokens' = tokens - 1 /\ count' = count - 1
      /\ UNCHANGED <<hooks, defaults, installed, touched, prev, failed, inits>>
  BY DEF Deregister, At
<1>2. t \notin Pending /\ RegTypes /\ "remove" \in PCs
  BY <1>1 DEF Pending, RegInv, PCs
<1>3. count > 0 /\ count \in Nat /\ Cardinality(Pending) \in Nat
  BY <1>1, <1>2, PendingFinite DEF RegInv, CountInv, RegTypes
<1>4. CASE IsLast
  <2>1. /\ count = 1 /\ hooks # {} /\ holder' = t /\ left' = [left EXCEPT ![t] = hooks]
        /\ pc' = [pc EXCEPT ![t] = "remove"]
    BY <1>3, <1>4 DEF Deregister, IsLast, Goto
  <2>2. RegTypes' /\ HolderInv'
    BY <1>1, <1>3, <2>1, ThreadsAssumption DEF RegInv, RegTypes, HolderInv, PCs, Locked
  <2>3. Cardinality(Pending') = Cardinality(Pending)
    BY <1>2, <2>1, PendingCount
  <2>4. CountInv'
    BY <1>1, <1>3, <2>3 DEF RegInv, RegTypes, CountInv
  <2>5. \A u \in Threads : pc'[u] \in Locked => u = t
    BY <2>1, <2>2 DEF HolderInv
  <2>6. Expected' /\ hooks = Sigs
    BY <1>1, <2>1 DEF Expected, RegInv, RegTypes
  <2>7. HookInv'
    BY <1>1, <2>1, <2>5, <2>6, ThreadsAssumption DEF RegInv, RegTypes, HookInv, Locked
  <2> QED
    BY <2>2, <2>4, <2>7 DEF RegInv
<1>5. CASE ~IsLast
  <2>1. UNCHANGED <<holder, left, pc>> /\ (hooks # {} => count > 1)
    BY <1>3, <1>5 DEF Deregister, IsLast
  <2>2. RegTypes' /\ HolderInv' /\ CountInv'
    BY <1>1, <1>3, <2>1 DEF RegInv, RegTypes, HolderInv, CountInv, Pending
  <2>3. Expected => Expected'
    BY <1>1, <1>3, <2>1 DEF Expected
  <2>4. HookInv'
    BY <1>1, <1>3, <2>1, <2>3, ThreadsAssumption DEF RegInv, RegTypes, HolderInv, HookInv, Locked
  <2> QED
    BY <2>2, <2>4 DEF RegInv
<1> QED
  BY <1>4, <1>5

\* The holder of the lock removes the hooks, empties the list of them ...
LEMMA RemoveHookReg ==
    ASSUME RegInv, NEW t \in Threads, RemoveHook(t) PROVE RegInv'
<1>1. PICK s \in left[t] : /\ installed' = [installed EXCEPT ![s] = @ \ {"interrupt"}]
                           /\ left' = [left EXCEPT ![t] = @ \ {s}]
  BY DEF RemoveHook
<1>2. /\ pc[t] = "remove" /\ holder = t /\ s \in Sigs
      /\ UNCHANGED <<count, holder, hooks, defaults, touched, pc, prev, tokens, failed, inits>>
  BY <1>1 DEF RemoveHook, At, RegInv, RegTypes, HolderInv, Locked
<1>3. RegTypes' /\ HolderInv' /\ CountInv' /\ (Expected => Expected')
  BY <1>1, <1>2 DEF RegInv, RegTypes, HolderInv, CountInv, Pending, Expected
<1>4. \A u \in Threads : pc[u] \in Locked => u = t
  BY <1>2 DEF RegInv, HolderInv
<1>5. \A r \in Sigs : installed'[r] = IF r = s THEN installed[s] \ {"interrupt"} ELSE installed[r]
  BY <1>1 DEF RegInv, RegTypes
<1>6. \A r \in Sigs : installed'[r] # {} => installed[r] # {}
  BY <1>5
<1>7. \A r \in Sigs : "default" \in installed'[r] => "default" \in installed[r]
  BY <1>5
<1>8. ASSUME ~failed, NEW r \in Sigs
      PROVE  installed'[r] = IF r \in left'[t] THEN {"interrupt"} ELSE {}
  <2>1. installed[r] = IF r \in left[t] THEN {"interrupt"} ELSE {}
    BY <1>2, <1>8 DEF RegInv, HookInv
  <2>2. left'[t] = left[t] \ {s}
    BY <1>1 DEF RegInv, RegTypes
  <2> QED
    BY <1>1, <1>5, <2>1, <2>2
<1>9. HookInv'
  BY <1>2, <1>3, <1>4, <1>6, <1>7, <1>8, ThreadsAssumption DEF RegInv, RegTypes, HookInv, Locked
<1> QED
  BY <1>3, <1>9 DEF RegInv

LEMMA DrainReg ==
    ASSUME RegInv, NEW t \in Threads, Drain(t) PROVE RegInv'
<1>1. /\ pc[t] = "remove" /\ left[t] = {} /\ holder = t
      /\ left' = [left EXCEPT ![t] = hooks] /\ hooks' = {} /\ pc' = [pc EXCEPT ![t] = "reinstate"]
      /\ UNCHANGED <<count, holder, defaults, installed, touched, prev, tokens, failed, inits>>
  BY DEF Drain, At, Goto, RegInv, HolderInv, Locked
<1>2. t \notin Pending /\ RegTypes /\ "reinstate" \in PCs
  BY <1>1 DEF Pending, RegInv, PCs
<1>3. RegTypes' /\ HolderInv'
  BY <1>1 DEF RegInv, RegTypes, HolderInv, PCs, Locked
<1>4. Cardinality(Pending') = Cardinality(Pending)
  BY <1>1, <1>2, PendingCount
<1>5. CountInv' /\ (Expected => Expected')
  BY <1>1, <1>4 DEF RegInv, RegTypes, CountInv, Expected
<1>6. \A u \in Threads : pc'[u] \in Locked => u = t
  BY <1>1, <1>3 DEF HolderInv
<1>7. HookInv'
  BY <1>1, <1>5, <1>6, ThreadsAssumption DEF RegInv, RegTypes, HookInv, Locked
<1> QED
  BY <1>3, <1>5, <1>7 DEF RegInv

\* ... and reinstates the default behaviour.
LEMMA ReinstateReg ==
    ASSUME RegInv, NEW t \in Threads, Reinstate(t) PROVE RegInv'
<1>1. PICK s \in left[t] :
        /\ installed' = [installed EXCEPT ![s] = @ \cup {"default"}] /\ touched' = touched \cup {s}
        /\ defaults' = defaults \cup {s} /\ left' = [left EXCEPT ![t] = @ \ {s}]
  BY DEF Reinstate, Register
<1>2. /\ pc[t] = "reinstate" /\ holder = t /\ s \in Sigs
      /\ UNCHANGED <<count, holder, hooks, pc, prev, tokens, failed, inits>>
  BY <1>1 DEF Reinstate, At, RegInv, RegTypes, HolderInv, Locked
<1>3. RegTypes' /\ HolderInv' /\ CountInv' /\ (Expected => Expected')
  BY <1>1, <1>2 DEF RegInv, RegTypes, HolderInv, CountInv, Pending, Expected
<1>4. \A u \in Threads : pc[u] \in Locked => u = t
  BY <1>2 DEF RegInv, HolderInv
<1>5. \A r \in Sigs : installed'[r] = IF r = s THEN installed[s] \cup {"default"} ELSE installed[r]
  BY <1>1 DEF RegInv, RegTypes
<1>6. \A r \in Sigs : /\ installed'[r] # {} => r \in touched'
                      /\ "default" \in installed'[r] => r \in defaults'
  BY <1>1, <1>5 DEF RegInv, HookInv
<1>7. ASSUME ~failed, NEW r \in Sigs
      PROVE  installed'[r] = IF r \in left'[t] THEN {} ELSE {"default"}
  <2>1. installed[r] = IF r \in left[t] THEN {} ELSE {"default"}
    BY <1>2, <1>7 DEF RegInv, HookInv
  <2>2. left'[t] = left[t] \ {s}
    BY <1>1 DEF RegInv, RegTypes
  <2> QED
    BY <1>1, <1>5, <2>1, <2>2
<1>8. HookInv'
  BY <1>2, <1>3, <1>4, <1>6, <1>7, ThreadsAssumption DEF RegInv, RegTypes, HookInv, Locked
<1> QED
  BY <1>3, <1>8 DEF RegInv

LEMMA ReinstatedReg ==
    ASSUME RegInv, NEW t \in Threads, Reinstated(t) PROVE RegInv'
<1>1. /\ pc[t] = "reinstate" /\ left[t] = {} /\ holder = t
      /\ holder' = NoThread /\ pc' = [pc EXCEPT ![t] = "run"]
      /\ UNCHANGED <<count, hooks, defaults, installed, touched, prev, left, tokens, failed, inits>>
  BY DEF Reinstated, At, Goto, RegInv, HolderInv, Locked
<1>2. t \notin Pending /\ RegTypes /\ "run" \in PCs
  BY <1>1 DEF Pending, RegInv, PCs
<1>3. RegTypes' /\ HolderInv'
  BY <1>1, ThreadsAssumption DEF RegInv, RegTypes, HolderInv, PCs, Locked
<1>4. Cardinality(Pending') = Cardinality(Pending)
  BY <1>1, <1>2, PendingCount
<1>5. CountInv' /\ (Expected => Expected')
  BY <1>1, <1>4 DEF RegInv, RegTypes, CountInv, Expected
<1>6. \A u \in Threads : pc'[u] \notin Locked
  BY <1>1, <1>3, ThreadsAssumption DEF HolderInv
<1>7. HookInv'
  BY <1>1, <1>5, <1>6 DEF RegInv, RegTypes, HookInv, Locked
<1> QED
  BY <1>3, <1>5, <1>7 DEF RegInv

-----------------------------------------------------------------------------

RegStep(t) ==
    \/ InitHandler(t) \/ InitLock(t) \/ Install(t) \/ InstallFails(t) \/ Installed(t)
    \/ \E do_reset \in BOOLEAN : Deregister(t, do_reset)
    \/ RemoveHook(t) \/ Drain(t) \/ Reinstate(t) \/ ReinstateFails(t) \/ Reinstated(t)

LEMMA InitReg == Init => RegInv
<1> SUFFICES ASSUME Init PROVE RegInv
  OBVIOUS
<1>1. /\ RegTypes /\ HolderInv
  BY ThreadsAssumption DEF Init, RegTypes, HolderInv, PCs, Locked
<1>2. Pending = {}
  BY DEF Init, Pending
<1>3. CountInv
  BY <1>2, FS_EmptySet DEF Init, CountInv
<1>4. HookInv
  BY DEF Init, HookInv, Expected
<1> QED
  BY <1>1, <1>3, <1>4 DEF RegInv

LEMMA NextReg == RegInv /\ [Next]_vars => RegInv'
<1> SUFFICES ASSUME RegInv, [Next]_vars PROVE RegInv'
  OBVIOUS
<1>1. CASE \E t \in Threads : RegStep(t)
  BY <1>1, InitHandlerReg, InitLockReg, InstallReg, FailsReg, InstalledReg, DeregisterReg, RemoveHookReg,
     DrainReg, ReinstateReg, ReinstatedReg DEF RegStep
<1>2. CASE UNCHANGED <<registration, threads>>
  BY <1>2 DEF RegInv, RegTypes, HolderInv, CountInv, HookInv, Pending, Expected, registration, threads
<1>3. UNCHANGED <<registration, threads>> \/ \E t \in Threads : RegStep(t)
  BY DEF Next, RegStep, vars, Signal, InAction, Check, Zero, Add, SetTriggered, Trigger, Reset
<1> QED
  BY <1>1, <1>2, <1>3

\* However calls of init_handler() and deregister() overlap, the hooks that are
\* installed once they are over match the instances that are left.
THEOREM HooksMatch == Spec => []HooksMatchInstances
<1>1. RegInv => HooksMatchInstances
  <2> SUFFICES ASSUME RegInv, Quiet, ~failed
               PROVE  /\ count = tokens
                      /\ tokens > 0 => hooks = Sigs /\ \A s \in Sigs : installed[s] = {"interrupt"}
                      /\ tokens = 0 => hooks = {} /\ \A s \in touched : installed[s] = {"default"}
    BY DEF HooksMatchInstances
  <2>1. Pending = {} /\ holder = NoThread
    BY DEF Quiet, Pending, RegInv, HolderInv, Locked
  <2>2. count = tokens /\ count \in Nat
    BY <2>1, FS_EmptySet DEF RegInv, CountInv, RegTypes
  <2>3. Expected => count = 0
    BY DEF Expected, Quiet
  <2> QED
    BY <2>1, <2>2, <2>3 DEF RegInv, HookInv, RegTypes
<1> QED
  BY <1>1, InitReg, NextReg, PTL DEF Spec

-----------------------------------------------------------------------------
(* Handling of signals                                                      *)

\* The threads whose handler has yet to count its signal.
Counting == {t \in Threads : action[t] \in {"check", "zero", "add"}}

SigTypes ==
    /\ triggered \in BOOLEAN /\ overlap \in BOOLEAN /\ alive \in BOOLEAN
    /\ interrupts \in Nat /\ received \in Nat /\ episode \in Nat
    /\ action \in [Threads -> {"none", "check", "zero", "add", "trigger"}]

\* No signal is counted twice.
ReceivedInv == interrupts + Cardinality(Counting) <= received

\* As long as signals are handled one after the other the counter is at least
\* their number since the last reset(), but for the one that is being handled.
InTurn ==
    /\ \A t, u \in Handling : t = u
    /\ Handling = {} => episode <= interrupts /\ (~triggered => episode = 0)
    /\ \A t \in Threads :
         /\ action[t] = "check" => episode <= interrupts + 1 /\ (~triggered => episode = 1)
         /\ action[t] = "zero" => episode = 1
         /\ action[t] = "add" => episode <= interrupts + 1
         /\ action[t] = "trigger" => episode <= interrupts

EpisodeInv ==
    /\ alive => interrupts <= Grace
    /\ ~overlap => InTurn

SigInv == SigTypes /\ ReceivedInv /\ EpisodeInv

LEMMA CountingFinite == IsFiniteSet(Counting) /\ Cardinality(Counting) \in Nat
<1>1. Counting \in SUBSET Threads
  BY DEF Counting
<1> QED
  BY <1>1, ThreadsAssumption, FS_Subset, FS_CardinalityType

\* A thread enters its handler, has counted, or does something else.
LEMMA CountingMore ==
    ASSUME SigTypes, NEW t \in Threads, action[t] = "none", action' = [action EXCEPT ![t] = "check"]
    PROVE  Cardinality(Counting') = Cardinality(Counting) + 1
<1>1. t \notin Counting /\ Counting' = Counting \cup {t}
  BY DEF SigTypes, Counting
<1>2. Cardinality(Counting \cup {t}) = Cardinality(Counting) + 1
  BY <1>1, CountingFinite, FS_AddElement
<1> QED
  BY <1>1, <1>2

LEMMA CountingLess ==
    ASSUME SigTypes, NEW t \in Threads, action[t] = "add", action' = [action EXCEPT ![t] = "trigger"]
    PROVE  Cardinality(Counting') = Cardinality(Counting) - 1 /\ Cardinality(Counting) > 0
<1>1. t \in Counting /\ Counting' = Counting \ {t}
  BY DEF SigTypes, Counting
<1>2. Cardinality(Counting \ {t}) = Cardinality(Counting) - 1
  BY <1>1, CountingFinite, FS_RemoveElement
<1>3. Cardinality(Counting) # 0
  BY <1>1, CountingFinite, FS_EmptySet
<1> QED
  BY <1>1, <1>2, <1>3, CountingFinite

LEMMA CountingSame ==
    ASSUME SigTypes, NEW t \in Threads, NEW to,
           action' = [action EXCEPT ![t] = to],
           action[t] \in {"check", "zero", "add"} <=> to \in {"check", "zero", "add"}
    PROVE  Counting' = Counting
BY DEF SigTypes, Counting

\* A signal is handled, or ends the process.
LEMMA SignalSig ==
    ASSUME SigInv, NEW t \in Threads, NEW s \in Sigs, Signal(t, s) PROVE SigInv'
<1>1. /\ alive /\ action[t] = "none" /\ received' = received + 1 /\ alive' \in BOOLEAN
      /\ UNCHANGED <<triggered, interrupts>>
  BY DEF Signal, Runs
<1>2. CASE alive' /\ "interrupt" \in installed[s]
  <2>1. /\ action' = [action EXCEPT ![t] = "check"] /\ episode' = episode + 1
        /\ overlap' = (overlap \/ Handling # {})
    BY <1>2 DEF Signal
  <2>2. SigTypes'
    BY <1>1, <2>1 DEF SigInv, SigTypes
  <2>3. ReceivedInv'
    <3>1. Cardinality(Counting') = Cardinality(Counting) + 1
      BY <1>1, <2>1, CountingMore DEF SigInv
    <3> QED
      BY <1>1, <3>1, CountingFinite DEF SigInv, SigTypes, ReceivedInv
  <2>4. EpisodeInv'
    <3>1. alive' => interrupts' <= Grace
      BY <1>1 DEF SigInv, EpisodeInv, InTurn
    <3> SUFFICES ASSUME ~overlap' PROVE InTurn'
      BY <3>1 DEF EpisodeInv
    <3>2. ~overlap /\ Handling = {} /\ episode <= interrupts /\ (~triggered => episode = 0)
      BY <2>1 DEF SigInv, EpisodeInv, InTurn
    <3>3. \A u \in Threads : action'[u] = IF u = t THEN "check" ELSE "none"
      BY <2>1, <3>2 DEF SigInv, SigTypes, Handling
    <3>4. Handling' = {t}
      BY <3>3 DEF Handling
    <3>5. episode' <= interrupts' + 1 /\ (~triggered' => episode' = 1)
      BY <1>1, <2>1, <3>2 DEF SigInv, SigTypes
    <3> QED
      BY <3>3, <3>4, <3>5 DEF InTurn
  <2> QED
    BY <2>2, <2>3, <2>4 DEF SigInv
<1>3. CASE ~(alive' /\ "interrupt" \in installed[s])
  <2>1. UNCHANGED <<action, episode, overlap>>
    BY <1>3 DEF Signal
  <2> QED
    BY <1>1, <2>1, CountingFinite DEF SigInv, SigTypes, ReceivedInv, EpisodeInv, InTurn, Counting, Handling
<1> QED
  BY <1>2, <1>3

\* The counter is looked at and perhaps set back ...
LEMMA CheckSig ==
    ASSUME SigInv, NEW t \in Threads, Check(t) \/ Zero(t) PROVE SigInv'
<1>1. CASE Check(t)
  <2>1. /\ action[t] = "check" /\ action' = [action EXCEPT ![t] = IF triggered THEN "add" ELSE "zero"]
        /\ UNCHANGED <<triggered, interrupts, alive, received, episode, overlap>>
    BY <1>1 DEF Check, InAction, Then
  <2>2. SigTypes'
    BY <2>1 DEF SigInv, SigTypes
  <2>3. Counting' = Counting
    BY <2>1, CountingSame DEF SigInv
  <2>4. EpisodeInv'
    BY <2>1 DEF SigInv, SigTypes, EpisodeInv, InTurn, Handling
  <2> QED
    BY <2>1, <2>2, <2>3, <2>4 DEF SigInv, ReceivedInv
<1>2. CASE Zero(t)
  <2>1. /\ action[t] = "zero" /\ action' = [action EXCEPT ![t] = "add"] /\ interrupts' = 0
        /\ UNCHANGED <<triggered, alive, received, episode, overlap>>
    BY <1>2 DEF Zero, InAction, Then
  <2>2. SigTypes'
    BY <2>1 DEF SigInv, SigTypes
  <2>3. Counting' = Counting
    BY <2>1, CountingSame DEF SigInv
  <2>4. EpisodeInv'
    <3>1. alive' => interrupts' <= Grace
      BY <2>1, GraceAssumption
    <3> SUFFICES ASSUME ~overlap' PROVE InTurn'
      BY <3>1 DEF EpisodeInv
    <3>2. ~overlap /\ episode = 1 /\ \A u \in Threads : u # t => action[u] = "none"
      BY <2>1 DEF SigInv, SigTypes, EpisodeInv, InTurn, Handling
    <3>3. \A u \in Threads : action'[u] = IF u = t THEN "add" ELSE "none"
      BY <2>1, <3>2 DEF SigInv, SigTypes, Handling
    <3>4. Handling' = {t}
      BY <3>3 DEF Handling
    <3> QED
      BY <2>1, <3>2, <3>3, <3>4 DEF InTurn
  <2> QED
    BY <2>1, <2>2, <2>3, <2>4, CountingFinite DEF SigInv, SigTypes, ReceivedInv
<1> QED
  BY <1>1, <1>2

\* ... and counts the signal, unless that one was the last.
LEMMA AddSig ==
    ASSUME SigInv, NEW t \in Threads, Add(t) PROVE SigInv'
<1>1. /\ alive /\ action[t] = "add" /\ action' = [action EXCEPT ![t] = "trigger"]
      /\ interrupts' = interrupts + 1 /\ alive' \in BOOLEAN /\ (alive' => interrupts # Grace)
      /\ UNCHANGED <<triggered, received, episode, overlap>>
  BY DEF Add, InAction, Then, IsTerminal
<1>2. SigTypes'
  BY <1>1 DEF SigInv, SigTypes
<1>3. ReceivedInv'
  <2>1. Cardinality(Counting') = Cardinality(Counting) - 1
    BY <1>1, CountingLess DEF SigInv
  <2> QED
    BY <1>1, <2>1, CountingFinite DEF SigInv, SigTypes, ReceivedInv
<1>4. EpisodeInv'
  <2>1. alive' => interrupts' <= Grace
    <3>1. interrupts \in Nat /\ interrupts <= Grace
      BY <1>1 DEF SigInv, SigTypes, EpisodeInv
    <3> QED
      BY <1>1, <3>1, GraceAssumption
  <2> SUFFICES ASSUME ~overlap' PROVE InTurn'
    BY <2>1 DEF EpisodeInv
  <2>2. ~overlap /\ episode <= interrupts + 1 /\ \A u \in Threads : u # t => action[u] = "none"
    BY <1>1 DEF SigInv, SigTypes, EpisodeInv, InTurn, Handling
  <2>3. \A u \in Threads : action'[u] = IF u = t THEN "trigger" ELSE "none"
    BY <1>1, <2>2 DEF SigInv, SigTypes
  <2>4. Handling' = {t}
    BY <2>3 DEF Handling
  <2> QED
    BY <1>1, <2>2, <2>3, <2>4 DEF InTurn
<1> QED
  BY <1>2, <1>3, <1>4 DEF SigInv

LEMMA SetTriggeredSig ==
    ASSUME SigInv, NEW t \in Threads, SetTriggered(t) PROVE SigInv'
<1>1. /\ action[t] = "trigger" /\ action' = [action EXCEPT ![t] = "none"] /\ triggered' = TRUE
      /\ UNCHANGED <<interrupts, alive, received, episode, overlap>>
  BY DEF SetTriggered, InAction, Then
<1>2. SigTypes'
  BY <1>1 DEF SigInv, SigTypes
<1>3. Counting' = Counting
  BY <1>1, CountingSame DEF SigInv
<1>4. EpisodeInv'
  <2> SUFFICES ASSUME ~overlap' PROVE InTurn'
    BY <1>1 DEF SigInv, EpisodeInv
  <2>2. ~overlap /\ episode <= interrupts /\ \A u \in Threads : u # t => action[u] = "none"
    BY <1>1 DEF SigInv, SigTypes, EpisodeInv, InTurn, Handling
  <2>3. \A u \in Threads : action'[u] = "none"
    BY <1>1, <2>2 DEF SigInv, SigTypes
  <2>4. Handling' = {}
    BY <2>3 DEF Handling
  <2> QED
    BY <1>1, <2>2, <2>3, <2>4 DEF InTurn
<1> QED
  BY <1>1, <1>2, <1>3, <1>4 DEF SigInv, ReceivedInv

\* reset() starts a new episode, trigger() leaves the counter alone.
LEMMA ResetSig ==
    ASSUME SigInv, NEW do_reset \in BOOLEAN, ResetIf(do_reset) PROVE SigInv'
<1>1. UNCHANGED <<action, alive, interrupts, received>>
  BY DEF ResetIf
<1>2. SigTypes' /\ ReceivedInv'
  BY <1>1 DEF ResetIf, SigInv, SigTypes, ReceivedInv, Counting
<1>3. EpisodeInv'
  BY <1>1 DEF ResetIf, SigInv, SigTypes, EpisodeInv, InTurn, Handling
<1> QED
  BY <1>2, <1>3 DEF SigInv

LEMMA UnchangedSig == ASSUME SigInv, UNCHANGED signal PROVE SigInv'
BY DEF signal, SigInv, SigTypes, ReceivedInv, Counting, EpisodeInv, InTurn, Handling

LEMMA TriggerSig == ASSUME SigInv, NEW t \in Threads, Trigger(t) PROVE SigInv'
BY DEF Trigger, SigInv, SigTypes, ReceivedInv, Counting, EpisodeInv, InTurn, Handling

LEMMA InitSig == Init => SigInv
<1> SUFFICES ASSUME Init PROVE SigInv
  OBVIOUS
<1>1. SigTypes
  BY DEF Init, SigTypes
<1>2. Counting = {} /\ Handling = {}
  BY DEF Init, Counting, Handling
<1>3. ReceivedInv
  BY <1>2, FS_EmptySet DEF Init, ReceivedInv
<1>4. EpisodeInv
  BY <1>2, GraceAssumption DEF Init, EpisodeInv, InTurn
<1> QED
  BY <1>1, <1>3, <1>4 DEF SigInv

LEMMA NextSig == SigInv /\ [Next]_vars => SigInv'
<1> SUFFICES ASSUME SigInv, [Next]_vars PROVE SigInv'
  OBVIOUS
<1>1. CASE UNCHANGED vars
  BY <1>1, UnchangedSig DEF vars
<1>2. CASE Next
  <2> PICK t \in Threads :
        \/ InitHandler(t) \/ InitLock(t) \/ Install(t) \/ InstallFails(t) \/ Installed(t)
        \/ RemoveHook(t) \/ Drain(t) \/ Reinstate(t) \/ ReinstateFails(t) \/ Reinstated(t)
        \/ \E do_reset \in BOOLEAN : Deregister(t, do_reset)
        \/ \E s \in Sigs : Signal(t, s)
        \/ Check(t) \/ Zero(t) \/ Add(t) \/ SetTriggered(t) \/ Trigger(t) \/ Reset(t)
    BY <1>2 DEF Next
  <2>1. CASE InitHandler(t) \/ InitLock(t) \/ Install(t) \/ InstallFails(t) \/ Installed(t)
    <3>1. UNCHANGED signal
      BY <2>1, Zenon DEF InitHandler, InitLock, Install, InstallFails, Installed
    <3> QED
      BY <3>1, UnchangedSig
  <2>2. CASE RemoveHook(t) \/ Drain(t) \/ Reinstate(t) \/ ReinstateFails(t) \/ Reinstated(t)
    <3>1. UNCHANGED signal
      BY <2>2, Zenon DEF RemoveHook, Drain, Reinstate, ReinstateFails, Reinstated
    <3> QED
      BY <3>1, UnchangedSig
  <2>3. CASE \E do_reset \in BOOLEAN : Deregister(t, do_reset)
    <3>1. (\E do_reset \in BOOLEAN : ResetIf(do_reset)) \/ UNCHANGED signal
      BY <2>3, Zenon DEF Deregister
    <3> QED
      BY <3>1, ResetSig, UnchangedSig
  <2>4. CASE Reset(t)
    BY <2>4, ResetSig DEF Reset
  <2> QED
    BY <2>1, <2>2, <2>3, <2>4, SignalSig, CheckSig, AddSig, SetTriggeredSig, TriggerSig
<1> QED
  BY <1>1, <1>2

\* The process ends by a handler only at the signal that follows grace_count
\* others, for every number of threads and however their handlers interleave.
THEOREM EndsInTime == Spec => NeverEarly
<1>1. SigInv /\ [Next]_vars
        => [\A t \in Threads : action[t] = "add" /\ action'[t] = "trigger" /\ ~alive' => received > Grace]_vars
  <2> SUFFICES ASSUME SigInv, [Next]_vars, NEW t \in Threads,
                      action[t] = "add", action'[t] = "trigger", ~alive'
               PROVE  received > Grace
    OBVIOUS
  <2>1. Next
    BY DEF vars, signal
  <2>2. PICK u \in Threads : Add(u)
    <3>1. PICK u \in Threads :
          \/ Add(u) \/ Check(u) \/ Zero(u) \/ SetTriggered(u) \/ \E s \in Sigs : Signal(u, s)
          \/ action' = action
      <4>1. \A u \in Threads, do_reset \in BOOLEAN : Deregister(u, do_reset) => action' = action
        BY Zenon DEF Deregister, ResetIf, signal
      <4>2. \A u \in Threads :
                InitHandler(u) \/ InitLock(u) \/ Install(u) \/ InstallFails(u) \/ Installed(u)
                    => action' = action
        BY Zenon DEF InitHandler, InitLock, Install, InstallFails, Installed, signal
      <4>3. \A u \in Threads :
                (\/ RemoveHook(u) \/ Drain(u) \/ Reinstate(u) \/ ReinstateFails(u) \/ Reinstated(u)
                 \/ Trigger(u) \/ Reset(u))
                    => action' = action
        BY Zenon DEF RemoveHook, Drain, Reinstate, ReinstateFails, Reinstated, Trigger, Reset, ResetIf, signal
      <4>4. PICK v \in Threads :
              \/ InitHandler(v) \/ InitLock(v) \/ Install(v) \/ InstallFails(v) \/ Installed(v)
              \/ \E do_reset \in BOOLEAN : Deregister(v, do_reset)
              \/ RemoveHook(v) \/ Drain(v) \/ Reinstate(v) \/ ReinstateFails(v) \/ Reinstated(v)
              \/ \E s \in Sigs : Signal(v, s)
              \/ Check(v) \/ Zero(v) \/ Add(v) \/ SetTriggered(v)
              \/ Trigger(v) \/ Reset(v)
        BY <2>1 DEF Next
      <4> QED
        BY <4>1, <4>2, <4>3, <4>4
    <3>2. ~Check(u) /\ ~Zero(u) /\ ~SetTriggered(u)
      BY DEF SigInv, SigTypes, Check, Zero, SetTriggered, Then
    <3>3. ASSUME NEW s \in Sigs PROVE ~Signal(u, s)
      BY DEF SigInv, SigTypes, Signal
    <3> QED
      BY <3>1, <3>2, <3>3
  <2>3. alive /\ action[u] = "add" /\ interrupts = Grace
    BY <2>2 DEF Add, InAction, IsTerminal
  <2>4. Cardinality(Counting) > 0
    <3>1. u \in Counting
      BY <2>3 DEF Counting
    <3> QED
      BY <3>1, CountingFinite, FS_EmptySet
  <2> QED
    BY <2>3, <2>4, CountingFinite, GraceAssumption DEF SigInv, SigTypes, ReceivedInv
<1> QED
  BY <1>1, InitSig, NextSig, PTL DEF Spec, NeverEarly

\* After more than grace_count signals that were handled in turn the process has
\* ended, for every number of threads, signals, instances and resets.
THEOREM EndsAtLimit == Spec => []GraceIsLimit
<1>1. SigInv => GraceIsLimit
  BY GraceAssumption DEF SigInv, SigTypes, EpisodeInv, InTurn, GraceIsLimit
<1> QED
  BY <1>1, InitSig, NextSig, PTL DEF Spec

=============================================================================
