-------------------------------- MODULE Gateway --------------------------------
(***************************************************************************)
(* tools/router/gateway_adapters.py: calls through a FallbackGateway, the  *)
(* gateway of the default mode (build_gateway, "auto").  Every send runs   *)
(* asend in an event loop of its own thread (asyncio.run); each wrapped    *)
(* gateway guards its asend with one asyncio.Lock and, inside it, with a   *)
(* counter under a threading.Lock.  An asyncio.Lock is made for one loop:  *)
(* its test and its setting are two steps for another thread, it binds     *)
(* itself to the loop of the first caller that has to wait, it raises      *)
(* RuntimeError for a waiter of another loop, and a release in another     *)
(* thread does not wake a waiter whose loop is already asleep.             *)
(***************************************************************************)
EXTENDS Naturals, Sequences, FiniteSets

CONSTANTS
  Call,        \* the calls of send, each in a thread and a loop of its own
  None,        \* no loop
  Chain,       \* the number of wrapped gateways
  MaxTries,    \* bound: the endpoints a gateway goes through
  MaxInFlight  \* max_in_flight

ASSUME GatewayAssumption ==
  /\ IsFiniteSet(Call) /\ None \notin Call
  /\ {Chain, MaxTries, MaxInFlight} \subseteq Nat \ {0}

VARIABLES
  locked,    \* asyncio.Lock._locked of each gateway
  waiters,   \* asyncio.Lock._waiters, first to last
  loop,      \* asyncio.Lock._loop: the call whose loop it is
  woken,     \* the waiters whose future is done
  inFlight,  \* _in_flight of each gateway
  call       \* the locals of each call

gatewayVars == <<locked, waiters, loop, woken, inFlight, call>>

Wrapped == 1..Chain
ProgramPoint == {"idle", "entering", "taking", "queueing", "waiting", "asleep", "guarding",
                 "posting", "leaving", "ended"}

GatewayTypeOK ==
  /\ locked \in [Wrapped -> BOOLEAN]
  /\ waiters \in [Wrapped -> Seq(Call)]
  /\ loop \in [Wrapped -> Call \union {None}]
  /\ woken \subseteq Call
  /\ inFlight \in [Wrapped -> Nat]
  /\ call \in [Call -> [pc : ProgramPoint, at : Wrapped, tries : Nat,
                        outcome : {"none", "text", "error", "raised"}]]

GatewayInit ==
  /\ locked = [g \in Wrapped |-> FALSE]
  /\ waiters = [g \in Wrapped |-> <<>>]
  /\ loop = [g \in Wrapped |-> None]
  /\ woken = {}
  /\ inFlight = [g \in Wrapped |-> 0]
  /\ call = [c \in Call |-> [pc |-> "idle", at |-> 1, tries |-> 0, outcome |-> "none"]]

-----------------------------------------------------------------------------
At(c, pc) == call[c].pc = pc
Goto(c, pc) == call' = [call EXCEPT ![c].pc = pc]
End(c, outcome) == call' = [call EXCEPT ![c].pc = "ended", ![c].outcome = outcome]

\* router_fn calls send, send runs asyncio.run(asend).
Send(c) ==
  /\ At(c, "idle")
  /\ Goto(c, "entering")
  /\ UNCHANGED <<locked, waiters, loop, woken, inFlight>>

\* Lock.acquire tests the lock; a free lock nobody waits for needs no loop.
Enter(c) ==
  LET g == call[c].at IN
  /\ At(c, "entering")
  /\ Goto(c, IF ~locked[g] /\ waiters[g] = <<>> THEN "taking" ELSE "queueing")
  /\ UNCHANGED <<locked, waiters, loop, woken, inFlight>>

Take(c) ==
  /\ At(c, "taking")
  /\ locked' = [locked EXCEPT ![call[c].at] = TRUE]
  /\ Goto(c, "guarding")
  /\ UNCHANGED <<waiters, loop, woken, inFlight>>

\* The first waiter binds the lock to its loop, for good; for a waiter of any
\* other loop the lock raises RuntimeError, which asend does not catch.
Queue(c) ==
  LET g == call[c].at IN
  /\ At(c, "queueing")
  /\ IF loop[g] \in {None, c}
     THEN /\ loop' = [loop EXCEPT ![g] = c]
          /\ waiters' = [waiters EXCEPT ![g] = Append(@, c)]
          /\ Goto(c, "waiting")
     ELSE /\ End(c, "raised")
          /\ UNCHANGED <<loop, waiters>>
  /\ UNCHANGED <<locked, woken, inFlight>>

\* The waiter's loop has nothing left to do and sleeps in its selector.
FallAsleep(c) ==
  /\ At(c, "waiting") /\ c \notin woken
  /\ Goto(c, "asleep")
  /\ UNCHANGED <<locked, waiters, loop, woken, inFlight>>

\* The waiter's loop was still awake when its future was set.
Resume(c) ==
  LET g == call[c].at IN
  /\ At(c, "waiting") /\ c \in woken
  /\ woken' = woken \ {c}
  /\ waiters' = [waiters EXCEPT ![g] = SelectSeq(@, LAMBDA w : w # c)]
  /\ locked' = [locked EXCEPT ![g] = TRUE]
  /\ Goto(c, "guarding")
  /\ UNCHANGED <<loop, inFlight>>

\* The test and the count are one step under the threading.Lock; a gateway
\* that is busy fails with GatewayError.
Guard(c) ==
  LET g == call[c].at IN
  /\ At(c, "guarding")
  /\ IF inFlight[g] < MaxInFlight
     THEN /\ inFlight' = [inFlight EXCEPT ![g] = @ + 1]
          /\ \E n \in 1..MaxTries :
               call' = [call EXCEPT ![c].pc = "posting", ![c].tries = n]
     ELSE /\ call' = [call EXCEPT ![c].pc = "leaving", ![c].outcome = "error"]
          /\ UNCHANGED inFlight
  /\ UNCHANGED <<locked, waiters, loop, woken>>

\* One endpoint failed and it was not the key (401): the next one.
NextEndpoint(c) ==
  /\ At(c, "posting") /\ call[c].tries > 1
  /\ call' = [call EXCEPT ![c].tries = @ - 1]
  /\ UNCHANGED <<locked, waiters, loop, woken, inFlight>>

\* Mutated form: the finally clause is only reached by an answer.
CountedDown(g, outcome) == IF outcome = "text" THEN inFlight[g] - 1 ELSE inFlight[g]

CountAfter(g, outcome) == inFlight[g] - 1

\* The worker or the server answered, or the last endpoint failed, or the key
\* was refused; the counter goes down in any case.
PostEnds(c) ==
  LET g == call[c].at IN
  /\ At(c, "posting")
  /\ \E outcome \in {"text", "error"} :
       /\ call' = [call EXCEPT ![c].pc = "leaving", ![c].tries = 0, ![c].outcome = outcome]
       /\ inFlight' = [inFlight EXCEPT ![g] = CountAfter(g, outcome)]
  /\ UNCHANGED <<locked, waiters, loop, woken>>

\* Mutated form: the chain starts over.
FirstAgain(g) == 1

NextGateway(g) == g + 1

\* Lock.release by the async with, then what FallbackGateway.asend makes of it:
\* an answer is returned, a GatewayError moves on.  A lock another thread has
\* released meanwhile raises RuntimeError instead.
Leave(c) ==
  LET g == call[c].at IN
  /\ At(c, "leaving")
  /\ IF locked[g]
     THEN /\ locked' = [locked EXCEPT ![g] = FALSE]
          /\ woken' = woken \union {w \in Call : waiters[g] # <<>> /\ w = Head(waiters[g])}
          /\ IF call[c].outcome = "error" /\ g < Chain
             THEN call' = [call EXCEPT ![c].pc = "entering", ![c].at = NextGateway(g),
                                       ![c].outcome = "none"]
             ELSE End(c, call[c].outcome)
     ELSE /\ End(c, "raised")
          /\ UNCHANGED <<locked, woken>>
  /\ UNCHANGED <<waiters, loop, inFlight>>

-----------------------------------------------------------------------------
CallStep(c) ==
  \/ Enter(c) \/ Take(c) \/ Queue(c) \/ FallAsleep(c) \/ Resume(c)
  \/ Guard(c) \/ NextEndpoint(c) \/ PostEnds(c) \/ Leave(c)

GatewayNext == \E c \in Call : Send(c) \/ CallStep(c)

GatewaySpec == GatewayInit /\ [][GatewayNext]_gatewayVars

\* The threads are scheduled and a post ends: _drain kills a worker that hangs
\* and urlopen has a timeout.
GatewayFairSpec == GatewaySpec /\ \A c \in Call : WF_gatewayVars(CallStep(c))

-----------------------------------------------------------------------------
Posting(g) == {c \in Call : At(c, "posting") /\ call[c].at = g}

\* No more than max_in_flight calls are with a gateway at a time, although its
\* asyncio.Lock lets two threads through; and the counter is exact, so that a
\* failing call does not use up the gateway.
InFlightIsExact ==
  \A g \in Wrapped :
    /\ inFlight[g] = Cardinality(Posting(g))
    /\ inFlight[g] <= MaxInFlight

\* Every call comes to an end, except one that has fallen asleep waiting.
EndsUnlessAsleep == \A c \in Call : At(c, "entering") ~> (At(c, "ended") \/ At(c, "asleep"))

\* FallbackGateway promises that "J5 keeps dispatching" and that "each wrapped
\* gateway still serializes itself": a call that has to wait is served.
EverySendReturns == \A c \in Call : At(c, "entering") ~> At(c, "ended")
=============================================================================
