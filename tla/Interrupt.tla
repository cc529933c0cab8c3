----------------------------- MODULE Interrupt ------------------------------
(***************************************************************************)
(* The process-wide interrupt handler of gix::interrupt.  Threads install  *)
(* it with init_handler() and give it up with Deregister::deregister(); a  *)
(* counter tells who is the first and who is the last one.  A signal       *)
(* interrupts a thread, sets IS_INTERRUPTED, and ends the process once     *)
(* `grace_count` of them were received before.                             *)
(***************************************************************************)
EXTENDS Naturals, FiniteSets

CONSTANTS
    Threads,
    Sigs,           \* TERM_SIGNALS and SIGHUP
    Grace,          \* grace_count
    NoThread,
    MaxInits, MaxSignals    \* bounds

ASSUME GraceAssumption == Grace \in Nat
ASSUME ThreadsAssumption == IsFiniteSet(Threads) /\ NoThread \notin Threads
ASSUME SigsAssumption == Sigs # {}

VARIABLES
    count,          \* DEREGISTER_COUNT
    holder,         \* the thread that has locked REGISTERED_HOOKS
    hooks,          \* the signals in REGISTERED_HOOKS
    defaults,       \* the signals in DEFAULT_BEHAVIOUR_HOOKS
    installed,      \* signal -> actions that signal_hook runs for it
    touched,        \* signals whose system default signal_hook has replaced
    triggered,      \* IS_INTERRUPTED
    interrupts,     \* INTERRUPT_COUNT
    alive,          \* does the process run?
    pc, prev, left, \* thread -> its step, its count, and the signals it still has to do
    tokens,         \* number of Deregister instances
    action,         \* thread -> step of the signal handler that interrupts it
    failed,         \* has signal_hook failed to register an action?
    inits, received, \* number of calls of init_handler(), and of signals
    episode,        \* number of signals since the last reset()
    overlap         \* was one of them handled while another one was?

registration == <<count, holder, hooks, defaults, installed, touched>>
threads == <<pc, prev, left, tokens, failed, inits>>
signal == <<triggered, interrupts, alive, action, received, episode, overlap>>
vars == <<registration, threads, signal>>

Init ==
    /\ count = 0 /\ holder = NoThread /\ hooks = {} /\ defaults = {}
    /\ installed = [s \in Sigs |-> {}] /\ touched = {}
    /\ triggered = FALSE /\ interrupts = 0 /\ alive = TRUE
    /\ pc = [t \in Threads |-> "run"] /\ prev = [t \in Threads |-> 0]
    /\ left = [t \in Threads |-> {}] /\ tokens = 0
    /\ action = [t \in Threads |-> "none"]
    /\ failed = FALSE /\ inits = 0 /\ received = 0 /\ episode = 0 /\ overlap = FALSE

\* Threads that are in a signal handler.
Handling == {t \in Threads : action[t] # "none"}

Runs(t) == alive /\ action[t] = "none"
At(t, step) == Runs(t) /\ pc[t] = step
Goto(t, step) == pc' = [pc EXCEPT ![t] = step]

-----------------------------------------------------------------------------
(* init_handler()                                                           *)

Counted == count + 1

InitHandler(t) ==
    /\ At(t, "run") /\ inits < MaxInits
    /\ prev' = [prev EXCEPT ![t] = count]
    /\ count' = Counted /\ inits' = inits + 1
    /\ Goto(t, "init")
    /\ UNCHANGED <<holder, hooks, defaults, installed, touched, left, tokens, failed, signal>>

\* The first one installs the hooks, if there are none.
Installs(t) == prev[t] = 0 /\ hooks = {}

\* With the lock of REGISTERED_HOOKS: all others return and unlock it.
InitLock(t) ==
    /\ At(t, "init") /\ holder = NoThread
    /\ \/ /\ Installs(t)
          /\ holder' = t /\ left' = [left EXCEPT ![t] = Sigs]
          /\ Goto(t, "install") /\ UNCHANGED tokens
       \/ /\ ~Installs(t)
          /\ tokens' = tokens + 1
          /\ Goto(t, "run") /\ UNCHANGED <<holder, left>>
    /\ UNCHANGED <<count, hooks, defaults, installed, touched, prev, failed, inits, signal>>

\* signal_hook::low_level::register()
Register(s, what) ==
    /\ installed' = [installed EXCEPT ![s] = @ \cup {what}]
    /\ touched' = touched \cup {s}

Install(t) ==
    /\ At(t, "install")
    /\ \E s \in left[t] :
         /\ Register(s, "interrupt")
         /\ left' = [left EXCEPT ![t] = @ \ {s}]
    /\ UNCHANGED <<count, holder, hooks, defaults, pc, prev, tokens, failed, inits, signal>>

\* A failure is returned: no Deregister, the counter stays as it is.
InstallFails(t) ==
    /\ At(t, "install") /\ left[t] # {}
    /\ failed' = TRUE /\ holder' = NoThread
    /\ left' = [left EXCEPT ![t] = {}] /\ Goto(t, "run")
    /\ UNCHANGED <<count, hooks, defaults, installed, touched, prev, tokens, inits, signal>>

\* The default behaviour is no longer emulated.
WithoutDefaults ==
    [s \in Sigs |-> IF s \in defaults THEN installed[s] \ {"default"} ELSE installed[s]]

Installed(t) ==
    /\ At(t, "install") /\ left[t] = {}
    /\ installed' = WithoutDefaults
    /\ defaults' = {} /\ hooks' = Sigs
    /\ holder' = NoThread /\ tokens' = tokens + 1
    /\ Goto(t, "run")
    /\ UNCHANGED <<count, touched, prev, left, failed, inits, signal>>

-----------------------------------------------------------------------------
(* Deregister::deregister()                                                 *)

\* reset()
ResetIf(toggle) ==
    /\ triggered' = (triggered /\ ~toggle)
    /\ episode' = IF toggle THEN 0 ELSE episode
    /\ overlap' = IF toggle THEN Handling # {} ELSE overlap
    /\ UNCHANGED <<interrupts, alive, action, received>>

\* Mutant: whoever comes first removes the hooks.
IsLastAlways == hooks # {}

\* Is this the last instance, and is there something to remove?
IsLast == count <= 1 /\ hooks # {}

\* With the lock of REGISTERED_HOOKS, which only the last instance keeps for
\* another step.
Deregister(t, do_reset) ==
    /\ At(t, "run") /\ tokens > 0 /\ holder = NoThread
    /\ tokens' = tokens - 1 /\ count' = count - 1
    /\ \/ /\ IsLast
          /\ holder' = t /\ left' = [left EXCEPT ![t] = hooks]
          /\ ResetIf(do_reset) /\ Goto(t, "remove")
       \/ /\ ~IsLast
          /\ UNCHANGED <<holder, left, pc, signal>>
    /\ UNCHANGED <<hooks, defaults, installed, touched, prev, failed, inits>>

\* signal_hook::low_level::unregister(), one hook after the other ...
RemoveHook(t) ==
    /\ At(t, "remove")
    /\ \E s \in left[t] :
         /\ installed' = [installed EXCEPT ![s] = @ \ {"interrupt"}]
         /\ left' = [left EXCEPT ![t] = @ \ {s}]
    /\ UNCHANGED <<count, holder, hooks, defaults, touched, pc, prev, tokens, failed, inits, signal>>

\* ... and their default behaviour in their place.
Drain(t) ==
    /\ At(t, "remove") /\ left[t] = {}
    /\ left' = [left EXCEPT ![t] = hooks] /\ hooks' = {}
    /\ Goto(t, "reinstate")
    /\ UNCHANGED <<count, holder, defaults, installed, touched, prev, tokens, failed, inits, signal>>

Reinstate(t) ==
    /\ At(t, "reinstate")
    /\ \E s \in left[t] :
         /\ Register(s, "default")
         /\ defaults' = defaults \cup {s}
         /\ left' = [left EXCEPT ![t] = @ \ {s}]
    /\ UNCHANGED <<count, holder, hooks, pc, prev, tokens, failed, inits, signal>>

ReinstateFails(t) ==
    /\ At(t, "reinstate") /\ left[t] # {}
    /\ failed' = TRUE /\ holder' = NoThread
    /\ left' = [left EXCEPT ![t] = {}] /\ Goto(t, "run")
    /\ UNCHANGED <<count, hooks, defaults, installed, touched, prev, tokens, inits, signal>>

Reinstated(t) ==
    /\ At(t, "reinstate") /\ left[t] = {}
    /\ holder' = NoThread /\ Goto(t, "run")
    /\ UNCHANGED <<count, hooks, defaults, installed, touched, prev, left, tokens, failed, inits,
                   signal>>

-----------------------------------------------------------------------------
(* Signals                                                                  *)

\* A signal interrupts a thread and runs the actions for it, or does what the
\* system does by default if nobody has ever registered any.
Signal(t, s) ==
    /\ Runs(t) /\ received < MaxSignals
    /\ received' = received + 1
    /\ alive' = (s \in touched /\ "default" \notin installed[s])
    /\ IF alive' /\ "interrupt" \in installed[s]
       THEN /\ action' = [action EXCEPT ![t] = "check"]
            /\ episode' = episode + 1
            /\ overlap' = (overlap \/ Handling # {})
       ELSE UNCHANGED <<action, episode, overlap>>
    /\ UNCHANGED <<registration, threads, triggered, interrupts>>

InAction(t, step) == alive /\ action[t] = step /\ UNCHANGED <<registration, threads, received, episode, overlap>>
Then(t, step) == action' = [action EXCEPT ![t] = step]

\* The counter is set back if this is the first one ...
Check(t) ==
    /\ InAction(t, "check")
    /\ Then(t, IF triggered THEN "add" ELSE "zero")
    /\ UNCHANGED <<triggered, interrupts, alive>>

Zero(t) ==
    /\ InAction(t, "zero")
    /\ interrupts' = 0 /\ Then(t, "add")
    /\ UNCHANGED <<triggered, alive>>

\* Mutant: counting starts at one.
IsTerminalEarly(msg_idx) == msg_idx + 1 >= Grace

\* Mutant: counting starts at one, too late.
IsTerminalLate(msg_idx) == msg_idx = Grace + 1

IsTerminal(msg_idx) == msg_idx = Grace

\* ... and decides if it is the last one.
Add(t) ==
    /\ InAction(t, "add")
    /\ interrupts' = interrupts + 1
    /\ alive' = ~IsTerminal(interrupts)
    /\ Then(t, "trigger")
    /\ UNCHANGED triggered

SetTriggered(t) ==
    /\ InAction(t, "trigger")
    /\ triggered' = TRUE /\ Then(t, "none")
    /\ UNCHANGED <<interrupts, alive>>

\* The application calls trigger() and reset().
Trigger(t) ==
    /\ At(t, "run")
    /\ triggered' = TRUE
    /\ UNCHANGED <<registration, threads, interrupts, alive, action, received, episode, overlap>>

Reset(t) ==
    /\ At(t, "run")
    /\ ResetIf(TRUE)
    /\ UNCHANGED <<registration, threads>>

-----------------------------------------------------------------------------

Next ==
    \E t \in Threads :
        \/ InitHandler(t) \/ InitLock(t) \/ Install(t) \/ InstallFails(t) \/ Installed(t)
        \/ \E do_reset \in BOOLEAN : Deregister(t, do_reset)
        \/ RemoveHook(t) \/ Drain(t) \/ Reinstate(t) \/ ReinstateFails(t) \/ Reinstated(t)
        \/ \E s \in Sigs : Signal(t, s)
        \/ Check(t) \/ Zero(t) \/ Add(t) \/ SetTriggered(t)
        \/ Trigger(t) \/ Reset(t)

Spec == Init /\ [][Next]_vars

-----------------------------------------------------------------------------
(* Properties                                                               *)

\* Type correctness.
TypeOK ==
    /\ count \in 0..MaxInits /\ tokens \in 0..count
    /\ holder \in Threads \cup {NoThread}
    /\ hooks \in {{}, Sigs} /\ defaults \subseteq Sigs /\ touched \subseteq Sigs
    /\ installed \in [Sigs -> SUBSET {"interrupt", "default"}]
    /\ triggered \in BOOLEAN /\ alive \in BOOLEAN /\ failed \in BOOLEAN
    /\ interrupts \in 0..MaxSignals
    /\ pc \in [Threads -> {"run", "init", "install", "remove", "reinstate"}]
    /\ prev \in [Threads -> 0..MaxInits] /\ left \in [Threads -> SUBSET Sigs]
    /\ action \in [Threads -> {"none", "check", "zero", "add", "trigger"}]
    /\ inits \in 0..MaxInits /\ received \in 0..MaxSignals /\ episode \in 0..received
    /\ overlap \in BOOLEAN

Quiet == alive /\ \A t \in Threads : pc[t] = "run"

\* However calls of init_handler() and deregister() overlap, once they are over
\* the interrupt handler is the only action for every signal as long as there is
\* an instance to deregister, and the default behaviour is reinstated once there
\* is none, provided that signal_hook has not failed.
HooksMatchInstances ==
    Quiet /\ ~failed =>
        /\ count = tokens
        /\ tokens > 0 => hooks = Sigs /\ \A s \in Sigs : installed[s] = {"interrupt"}
        /\ tokens = 0 => hooks = {} /\ \A s \in touched : installed[s] = {"default"}

\* An interrupt handler does not end the process before it has received
\* grace_count signals, whichever of them were handled at the same time.
NeverEarly ==
    [][\A t \in Threads : action[t] = "add" /\ action'[t] = "trigger" /\ ~alive' => received > Grace]_vars

\* "Use `grace_count` to determine how often the termination signal can be
\* received before it's terminal": if more were received since the last reset()
\* the process has ended, provided that they were handled one after the other.
\* Two that overlap may both count as the first one.
GraceIsLimit == alive /\ Handling = {} /\ ~overlap => episode <= Grace
=============================================================================
