--------------------------------- MODULE Engine ---------------------------------
(***************************************************************************)
(* tools/latency/async_engine.py: calls of AsyncEngine.run_with_retry in   *)
(* one event loop, sharing a semaphore and the CircuitBreaker of one key.  *)
(* The breaker's sections under its lock hold no await, so each is one     *)
(* step.  Times are counted from now: how long ago a failure was, how long *)
(* the breaker stays open, how long a call has until wait_for cancels it.  *)
(***************************************************************************)
EXTENDS Naturals, Sequences, FiniteSets, Listing

CONSTANTS
  Client,      \* the calls
  Slots,       \* max_concurrent
  Retries,     \* max_retries
  TripAfter,   \* failure_threshold
  WindowLen,   \* window_s
  OpenLen,     \* cooldown_s
  TimeLimit    \* timeout_s

ASSUME EngineAssumption ==
  /\ IsFiniteSet(Client)
  /\ {Slots, TripAfter, TimeLimit} \subseteq Nat \ {0}
  /\ {Retries, WindowLen, OpenLen} \subseteq Nat

VARIABLES
  permits,   \* the semaphore's value
  ages,      \* _failures: how long ago each was
  openFor,   \* what is left until _open_until
  run        \* the locals of each call

engineVars == <<permits, ages, openFor, run>>

EngineInit ==
  /\ permits = Slots
  /\ ages = <<>> /\ openFor = 0
  /\ run = [c \in Client |-> [pc |-> "new", keyed |-> FALSE, retries |-> 0, time |-> 0]]

-----------------------------------------------------------------------------
Is(c, pc) == run[c].pc = pc

\* With or without a key; gather's calls are not retried.
Begin(c) ==
  /\ Is(c, "new")
  /\ \E keyed \in BOOLEAN, n \in 0..Retries :
       run' = [run EXCEPT ![c] = [pc |-> "waiting", keyed |-> keyed, retries |-> n, time |-> 0]]
  /\ UNCHANGED <<permits, ages, openFor>>

Acquire(c) ==
  /\ Is(c, "waiting") /\ permits > 0
  /\ permits' = permits - 1
  /\ run' = [run EXCEPT ![c].pc = "entering", ![c].time = TimeLimit]
  /\ UNCHANGED <<ages, openFor>>

\* Mutated form: a call that is cancelled keeps its permit.
KeptByCancelled(how) == IF how = "cancelled" THEN permits ELSE permits + 1

\* The async with releases, however it is left.
Released(how) == permits + 1

\* run has raised, a TimeoutError included: back off and try again, or raise.
Raised(c, how) ==
  /\ permits' = Released(how)
  /\ LET n == run[c].retries - 1
     IN  run' = [run EXCEPT ![c] = IF run[c].retries > 0
                                   THEN [run[c] EXCEPT !.pc = "sleeping", !.retries = n, !.time = 0]
                                   ELSE [run[c] EXCEPT !.pc = "ended", !.time = 0]]

\* Mutated form: old failures are kept.
KeptAges(seq) == seq

Pruned(seq) == Kept(seq, {i \in DOMAIN seq : seq[i] < WindowLen})

\* CircuitBreaker.call up to its await: the old failures are forgotten now, and
\* not again when this call fails.
Admit(c) ==
  /\ Is(c, "entering") /\ (run[c].keyed => openFor = 0)
  /\ run' = [run EXCEPT ![c].pc = "running"]
  /\ ages' = IF run[c].keyed THEN Pruned(ages) ELSE ages
  /\ UNCHANGED <<permits, openFor>>

\* RuntimeError, circuit open.
Refuse(c) ==
  /\ Is(c, "entering") /\ run[c].keyed /\ openFor > 0
  /\ Raised(c, "refused")
  /\ UNCHANGED <<ages, openFor>>

Succeed(c) ==
  /\ Is(c, "running")
  /\ permits' = Released("succeeded")
  /\ run' = [run EXCEPT ![c].pc = "ended", ![c].time = 0]
  /\ ages' = IF run[c].keyed THEN <<>> ELSE ages
  /\ UNCHANGED openFor

Fail(c) ==
  /\ Is(c, "running")
  /\ Raised(c, "failed")
  /\ IF run[c].keyed
     THEN /\ ages' = Append(ages, 0)
          /\ openFor' = IF Len(ages) + 1 >= TripAfter THEN OpenLen ELSE openFor
     ELSE UNCHANGED <<ages, openFor>>

\* wait_for's timeout: CancelledError is no Exception, the breaker records
\* nothing.
Cancel(c) ==
  /\ run[c].pc \in {"entering", "running"} /\ run[c].time = 0
  /\ Raised(c, "cancelled")
  /\ UNCHANGED <<ages, openFor>>

WakeUp(c) ==
  /\ Is(c, "sleeping")
  /\ run' = [run EXCEPT ![c].pc = "waiting"]
  /\ UNCHANGED <<permits, ages, openFor>>

\* The loop is not blocked: a timeout that is due fires before time goes on.
\* Ages beyond any test are not told apart.
Pass ==
  /\ \A c \in Client : run[c].pc \in {"entering", "running"} => run[c].time > 0
  /\ ages' = [i \in DOMAIN ages |->
       IF ages[i] < WindowLen + TimeLimit THEN ages[i] + 1 ELSE ages[i]]
  /\ openFor' = IF openFor > 0 THEN openFor - 1 ELSE 0
  /\ run' = [c \in Client |-> IF run[c].time > 0 THEN [run[c] EXCEPT !.time = @ - 1] ELSE run[c]]
  /\ UNCHANGED permits

-----------------------------------------------------------------------------
ClientStep(c) == Admit(c) \/ Refuse(c) \/ Cancel(c) \/ WakeUp(c)

EngineNext ==
  \/ \E c \in Client : Begin(c) \/ Acquire(c) \/ ClientStep(c) \/ Succeed(c) \/ Fail(c)
  \/ Pass

EngineSpec == EngineInit /\ [][EngineNext]_engineVars

\* The loop goes round, time passes, and the semaphore serves its waiters in
\* turn.  What is awaited need not end: wait_for sees to that.
EngineFairSpec ==
  /\ EngineSpec
  /\ \A c \in Client : WF_engineVars(ClientStep(c)) /\ SF_engineVars(Acquire(c))
  /\ WF_engineVars(Pass)

-----------------------------------------------------------------------------
\* The breaker opens for failure_threshold failures that are recent: none older
\* than the window and the time a call may take, whichever calls overlap.  (A
\* failure is weighed against the window when the call that trips the breaker
\* begins, not when it fails.)
TripsOnRecent ==
  [][openFor' > openFor =>
       Cardinality({i \in DOMAIN ages' : ages'[i] < WindowLen + TimeLimit}) >= TripAfter]_engineVars

\* Every call ends, with a value or an exception: whatever fails, hangs or is
\* refused in between, no retry waits for a permit that never comes back.
RetriesEnd == \A c \in Client : Is(c, "waiting") ~> Is(c, "ended")
=============================================================================
