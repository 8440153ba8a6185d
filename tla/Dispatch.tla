------------------------------- MODULE Dispatch -------------------------------
(***************************************************************************)
(* The routing function of tools/harness/integration.py, called by several *)
(* threads at once (chat turns, desktop jobs) for several projects.  All   *)
(* share one HealthTracker and one answer cache; each project has its own  *)
(* circuit breakers.  Every object guards its own state with its own lock, *)
(* so each call on one of them is a step, and nothing protects the steps   *)
(* of a dispatch from those of another.                                    *)
(*                                                                         *)
(* The gateway is what the code sees of it: send returns, raises           *)
(* GatewayError with or without a status, or raises something else.  The   *)
(* reputation scores (feedback.record) are left out: only the router's     *)
(* pick reads them, and a request brings its candidates with it.           *)
(***************************************************************************)
EXTENDS Naturals, Sequences, FiniteSets, SequencesExt, Listing

CONSTANTS
  Thread,        \* the threads that call router_fn
  Project,       \* the projects, each with its ProjectState
  Model,         \* MODELS, the registry
  Session,       \* worker session ids
  Frontier,      \* tiers.frontier_models of each project's configuration, a sequence
  Request,       \* the calls made, see RequestType
  None,          \* no model, no entry, no status, never
  Q429, Q500, Q401, QStreak,  \* the thresholds of the tracker
  Ttl,           \* quarantine_ttl_s
  Fault,         \* what a GatewayError may report, see DispatchAssumption
  Trip, Window, Cooldown,     \* the thresholds of CircuitBreaker
  MaxCalls,      \* bound: the calls made
  MaxTime        \* bound: the clock

Tier == {"free", "frontier"}

\* model is the model_id a request is pinned to, or None; prompt stands for the
\* prompt and its task type; chain is what _candidate_models returns for a free
\* request that is not pinned.  Some names may be missing from the registry.
RequestType(r) ==
  /\ DOMAIN r = {"project", "model", "prompt", "tier", "chain", "session"}
  /\ r.project \in Project
  /\ r.tier \in Tier
  /\ r.session \in Session \cup {None}
  /\ IsInjective(r.chain)

ASSUME DispatchAssumption ==
  /\ None \notin Model \cup Session \cup Thread
  /\ \A r \in Request : RequestType(r)
  /\ {Q429, Q500, Q401, QStreak, Trip, Window, Cooldown} \subseteq Nat \ {0}
  /\ Ttl \in Nat \ {0}
  /\ Fault \subseteq [code : {429, 500, 502, 401, None}, retry : Nat]
  /\ {MaxCalls, MaxTime} \subseteq Nat

\* Mutated form: the question alone.
PromptKey(r) == <<None, r.prompt>>

\* _cache_key: one cache for all projects, sessions and tiers.
CacheKey(r) == <<r.model, r.prompt>>

Key == {CacheKey(r) : r \in Request}

VARIABLES
  now,       \* the clock
  calls,     \* how many calls were made
  health,    \* HealthTracker._health
  breaker,   \* the SyncCircuitBreaker of each project and model
  cache,     \* MultiTierCache: the result kept under each key, or None
  pc,        \* where each thread is, see ProgramPoint
  req,       \* the request it works on
  todo,      \* the candidates it has not tried yet
  local,     \* its other local variables, see Fresh
  answer,    \* what its last call returned, None while it runs
  failed     \* history: every error charged to a breaker

vars == <<now, calls, health, breaker, cache, pc, req, todo, local, answer, failed>>

\* "unquarantined", "cleared", "sending": past is_quarantined, in_retry_after
\* and the breaker; "erring" and
\* "charging": before tracker and breaker are told of an error; "crediting"
\* and "storing": the tracker, then the breaker, know of the success.
ProgramPoint == {"idle", "choosing", "unquarantined", "cleared", "sending", "erring", "charging",
                 "answered", "crediting", "storing"}

Candidate(t) == Head(todo[t])

\* stamp: the time read on entry to record_failure or record_success; code and
\* retry: the GatewayError being accounted for.  The others are history: the
\* failures of the candidate when is_quarantined and in_retry_after let it
\* pass, the errors charged to any breaker when its own was found closed.
Fresh == [unquarantined |-> 0, cleared |-> 0, closed |-> 0,
          stamp |-> 0, code |-> None, retry |-> 0]

Discard(t) == local' = [local EXCEPT ![t] = Fresh]

Goto(t, label) == pc' = [pc EXCEPT ![t] = label]

Result(r, m, s) ==
  [ok |-> TRUE, model |-> m, session |-> s, tier |-> r.tier, note |-> r.note]
Failure == [ok |-> FALSE]

\* Times are 0 for None.
Healthy == [streak |-> 0, n429 |-> 0, n500 |-> 0, n401 |-> 0,
            until |-> 0, retryUntil |-> 0, failures |-> 0]

Quarantined(m) == now < health[m].until
InRetryAfter(m) == now < health[m].retryUntil

\* Mutated form: one breaker per model, whatever the project.
ModelKey(p, m) == <<CHOOSE q \in Project : TRUE, m>>

BreakerKey(p, m) == <<p, m>>

BreakerOf(t) == breaker[BreakerKey(req[t].project, Candidate(t))]

Init ==
  /\ now = 0
  /\ calls = 0
  /\ health = [m \in Model |-> Healthy]
  /\ breaker = [b \in Project \X Model |-> [failures |-> <<>>, openUntil |-> 0]]
  /\ cache = [k \in Key |-> None]
  /\ pc = [t \in Thread |-> "idle"]
  /\ req = [t \in Thread |-> None]
  /\ todo = [t \in Thread |-> <<>>]
  /\ local = [t \in Thread |-> Fresh]
  /\ answer = [t \in Thread |-> None]
  /\ failed = <<>>

-----------------------------------------------------------------------------
\* The tier a call is served at: a frontier request falls back, with a note,
\* when no frontier model is configured.
Resolved(r) ==
  [project |-> r.project, model |-> r.model, key |-> CacheKey(r), session |-> r.session,
   tier |-> IF Frontier[r.project] = <<>> THEN "free" ELSE r.tier,
   note |-> r.tier = "frontier" /\ Frontier[r.project] = <<>>]

Candidates(r) ==
  IF r.model # None THEN <<r.model>>
  ELSE IF r.tier = "frontier" /\ Frontier[r.project] # <<>> THEN Frontier[r.project]
  ELSE r.chain

Unregistered(r) ==
  r.tier = "frontier" /\ ~(Range(Frontier[r.project]) \subseteq Model)

\* router_fn up to its candidate loop: an unregistered frontier model ends the
\* call, a cached result is returned as it is.
Call(t, r) ==
  /\ pc[t] = "idle"
  /\ calls < MaxCalls
  /\ calls' = calls + 1
  /\ req' = [req EXCEPT ![t] = Resolved(r)]
  /\ \/ /\ Unregistered(r)
        /\ answer' = [answer EXCEPT ![t] = Failure]
        /\ UNCHANGED <<pc, todo>>
     \/ /\ ~Unregistered(r)
        /\ cache[CacheKey(r)] # None
        /\ answer' = [answer EXCEPT ![t] = cache[CacheKey(r)]]
        /\ UNCHANGED <<pc, todo>>
     \/ /\ ~Unregistered(r)
        /\ cache[CacheKey(r)] = None
        /\ answer' = [answer EXCEPT ![t] = None]
        /\ todo' = [todo EXCEPT ![t] = Candidates(r)]
        /\ Goto(t, "choosing")
  /\ UNCHANGED <<now, health, breaker, cache, local, failed>>

\* The loop is left without an answer.
GiveUp(t) ==
  /\ pc[t] = "choosing"
  /\ todo[t] = <<>>
  /\ answer' = [answer EXCEPT ![t] = Failure]
  /\ Goto(t, "idle")
  /\ UNCHANGED <<now, calls, health, breaker, cache, req, todo, local, failed>>

\* Mutated form: the quarantine is not looked at.
Registered(m) == m \in Model

\* The registry knows the model and is_quarantined is false.
Unquarantined(m) == m \in Model /\ ~Quarantined(m)

\* On to the next candidate.
Refuse(t) ==
  /\ todo' = [todo EXCEPT ![t] = Tail(@)]
  /\ Discard(t)
  /\ Goto(t, "choosing")

CheckQuarantine(t) ==
  /\ pc[t] = "choosing"
  /\ todo[t] # <<>>
  /\ \/ /\ Unquarantined(Candidate(t))
        /\ local' = [local EXCEPT ![t].unquarantined = health[Candidate(t)].failures]
        /\ Goto(t, "unquarantined")
        /\ UNCHANGED todo
     \/ /\ ~Unquarantined(Candidate(t))
        /\ Refuse(t)
  /\ UNCHANGED <<now, calls, health, breaker, cache, req, answer, failed>>

\* in_retry_after asks for the tracker's lock anew.
CheckRetryAfter(t) ==
  /\ pc[t] = "unquarantined"
  /\ \/ /\ ~InRetryAfter(Candidate(t))
        /\ local' = [local EXCEPT ![t].cleared = health[Candidate(t)].failures]
        /\ Goto(t, "cleared")
        /\ UNCHANGED todo
     \/ /\ InRetryAfter(Candidate(t))
        /\ Refuse(t)
  /\ UNCHANGED <<now, calls, health, breaker, cache, req, answer, failed>>

CheckBreaker(t) ==
  /\ pc[t] = "cleared"
  /\ \/ /\ now >= BreakerOf(t).openUntil
        /\ local' = [local EXCEPT ![t].closed = Len(failed)]
        /\ Goto(t, "sending")
        /\ UNCHANGED todo
     \/ /\ now < BreakerOf(t).openUntil
        /\ Refuse(t)
  /\ UNCHANGED <<now, calls, health, breaker, cache, req, answer, failed>>

-----------------------------------------------------------------------------
\* The time is read before the lock is asked for.
ReadClock(t) == local' = [local EXCEPT ![t] = [Fresh EXCEPT !.stamp = now]]

\* adapter.send returns, and record_success is entered.
Respond(t) ==
  /\ pc[t] = "sending"
  /\ ReadClock(t)
  /\ Goto(t, "answered")
  /\ UNCHANGED <<now, calls, health, breaker, cache, req, todo, answer, failed>>

\* adapter.send raises GatewayError, and record_failure is entered.
RaiseGatewayError(t, f) ==
  /\ pc[t] = "sending"
  /\ local' = [local EXCEPT ![t] = [Fresh EXCEPT !.stamp = now, !.code = f.code, !.retry = f.retry]]
  /\ Goto(t, "erring")
  /\ UNCHANGED <<now, calls, health, breaker, cache, req, todo, answer, failed>>

\* Any other exception leaves router_fn; nobody is told.
RaiseOther(t) ==
  /\ pc[t] = "sending"
  /\ answer' = [answer EXCEPT ![t] = Failure]
  /\ todo' = [todo EXCEPT ![t] = <<>>]
  /\ Discard(t)
  /\ Goto(t, "idle")
  /\ UNCHANGED <<now, calls, health, breaker, cache, req, failed>>

\* _maybe_quarantine, at the time ts.
QuarantineEnd(h, ts) ==
  IF h.n500 >= Q500 THEN ts + 2 * Ttl
  ELSE IF h.n401 >= Q401 THEN ts + 3 * Ttl
  ELSE IF h.n429 >= Q429 \/ h.streak >= QStreak THEN ts + Ttl
  ELSE h.until

Hit(c, code) == IF c = code THEN 1 ELSE 0

\* record_failure, up to the quarantine.
Counted(h, st) ==
  [h EXCEPT !.streak = @ + 1,
            !.n429 = @ + Hit(st.code, 429),
            !.n500 = @ + Hit(st.code, 500),
            !.n401 = @ + Hit(st.code, 401),
            !.retryUntil = IF st.retry > 0 THEN st.stamp + st.retry ELSE @,
            !.failures = @ + 1]

TrackFailure(t) ==
  /\ pc[t] = "erring"
  /\ LET h == Counted(health[Candidate(t)], local[t])
     IN  health' = [health EXCEPT ![Candidate(t)] =
                      [h EXCEPT !.until = QuarantineEnd(h, local[t].stamp)]]
  /\ ReadClock(t)
  /\ Goto(t, "charging")
  /\ UNCHANGED <<now, calls, breaker, cache, req, todo, answer, failed>>

\* The failures still in the window at the time ts.
Recent(fs, ts) == Kept(fs, {i \in DOMAIN fs : ts < fs[i] + Window})

\* SyncCircuitBreaker.record_failure, and on to the next candidate.
ChargeBreaker(t) ==
  /\ pc[t] = "charging"
  /\ LET b  == BreakerKey(req[t].project, Candidate(t))
         fs == Append(Recent(breaker[b].failures, local[t].stamp), local[t].stamp)
     IN  breaker' = [breaker EXCEPT ![b] =
           [failures |-> fs,
            openUntil |-> IF Len(fs) >= Trip THEN local[t].stamp + Cooldown ELSE @.openUntil]]
  /\ failed' = Append(failed, [project |-> req[t].project, model |-> Candidate(t),
                               ts |-> local[t].stamp])
  /\ Refuse(t)
  /\ UNCHANGED <<now, calls, health, cache, req, answer>>

\* Mutated form: a success ends any quarantine.
Absolved(h, ts) == [h EXCEPT !.streak = 0, !.until = 0]

\* record_success: the streak ends, and so does a quarantine that has expired.
Relieved(h, ts) ==
  [h EXCEPT !.streak = 0, !.until = IF ts >= @ THEN 0 ELSE @]

TrackSuccess(t) ==
  /\ pc[t] = "answered"
  /\ health' = [health EXCEPT ![Candidate(t)] = Relieved(@, local[t].stamp)]
  /\ Discard(t)
  /\ Goto(t, "crediting")
  /\ UNCHANGED <<now, calls, breaker, cache, req, todo, answer, failed>>

\* SyncCircuitBreaker.record_success.
CreditBreaker(t) ==
  /\ pc[t] = "crediting"
  /\ breaker' = [breaker EXCEPT ![BreakerKey(req[t].project, Candidate(t))].failures = <<>>]
  /\ Goto(t, "storing")
  /\ UNCHANGED <<now, calls, health, cache, req, todo, local, answer, failed>>

\* The session an adapter reports: the one it was given, or a new one.
Sessions(t) == IF req[t].session = None THEN Session ELSE {req[t].session}

\* The result is built, cached and returned.
Store(t) ==
  /\ pc[t] = "storing"
  /\ \E s \in Sessions(t) :
       LET res == Result(req[t], Candidate(t), s)
       IN  /\ cache' = [cache EXCEPT ![req[t].key] = res]
           /\ answer' = [answer EXCEPT ![t] = res]
  /\ todo' = [todo EXCEPT ![t] = <<>>]
  /\ Goto(t, "idle")
  /\ UNCHANGED <<now, calls, health, breaker, req, local, failed>>

-----------------------------------------------------------------------------
\* Time passes; a cache entry expires or is evicted.
Tick ==
  /\ now < MaxTime
  /\ now' = now + 1
  /\ UNCHANGED <<calls, health, breaker, cache, pc, req, todo, local, answer, failed>>

Forget(k) ==
  /\ cache[k] # None
  /\ cache' = [cache EXCEPT ![k] = None]
  /\ UNCHANGED <<now, calls, health, breaker, pc, req, todo, local, answer, failed>>

\* What a thread does by itself once it has been called.
Step(t) ==
  \/ GiveUp(t) \/ CheckQuarantine(t) \/ CheckRetryAfter(t) \/ CheckBreaker(t)
  \/ Respond(t) \/ RaiseOther(t)
  \/ \E f \in Fault : RaiseGatewayError(t, f)
  \/ TrackFailure(t) \/ ChargeBreaker(t)
  \/ TrackSuccess(t) \/ CreditBreaker(t)
  \/ Store(t)

Next ==
  \/ \E t \in Thread : Step(t) \/ \E r \in Request : Call(t, r)
  \/ \E k \in Key : Forget(k)
  \/ Tick

Spec == Init /\ [][Next]_vars

-----------------------------------------------------------------------------
\* Every variable stays in its range.
Time == 0..(MaxTime + 3 * Ttl + Cooldown)
Answers == {[ok |-> TRUE, model |-> m, session |-> s, tier |-> g, note |-> n] :
              m \in Model, s \in Session, g \in Tier, n \in BOOLEAN}

DispatchTypeOK ==
  /\ now \in 0..MaxTime
  /\ calls \in 0..MaxCalls
  /\ \A m \in Model :
       /\ DOMAIN health[m] = DOMAIN Healthy
       /\ health[m].streak <= health[m].failures
       /\ health[m].n429 + health[m].n500 + health[m].n401 <= health[m].failures
       /\ health[m].until \in Time
  /\ \A b \in Project \X Model :
       breaker[b].openUntil \in Time /\ breaker[b].failures \in Seq(0..MaxTime)
  /\ cache \in [Key -> Answers \cup {None}]
  /\ pc \in [Thread -> ProgramPoint]
  /\ \A t \in Thread : pc[t] \notin {"idle", "choosing"} => Candidate(t) \in Model
  /\ \A t \in Thread : DOMAIN local[t] = DOMAIN Fresh /\ local[t].stamp \in 0..now
  /\ answer \in [Thread -> Answers \cup {Failure, None}]

\* The three gates are asked one after the other, each under its own lock, and
\* then the model is sent to.  It is nevertheless never sent to while a gate is
\* shut, unless another thread's error has shut that gate since it was asked: a
\* failure of the model recorded since is_quarantined or since in_retry_after,
\* an error of the same project and model charged since the breaker's answer.
\* A caller that is alone, as "dispatch is serialized" has it, honours them all.
FailedSince(t, n) == health[Candidate(t)].failures > n

ChargedSince(t) ==
  \E i \in 1..Len(failed) :
    i > local[t].closed /\ failed[i].project = req[t].project /\ failed[i].model = Candidate(t)

GatesHonouredUnlessRaced ==
  \A t \in Thread :
    pc[t] = "sending" =>
      /\ Quarantined(Candidate(t)) => FailedSince(t, local[t].unquarantined)
      /\ InRetryAfter(Candidate(t)) => FailedSince(t, local[t].cleared)
      /\ now < BreakerOf(t).openUntil => ChargedSince(t)

\* A quarantine in force is served.  No success lifts it, however late it
\* comes in; another error shortens it only when the server errors take over
\* from the authorization errors, or when the error is an older one that had
\* to wait for the lock.
QuarantineServed ==
  [][\A m \in Model :
       Quarantined(m) /\ health'[m].until < health[m].until =>
         \/ health'[m].n500 >= Q500 /\ health'[m].n401 >= Q401
         \/ \E t \in Thread :
              pc[t] = "erring" /\ Candidate(t) = m /\ local[t].stamp < now]_vars

\* "a failure in wsb-alpha never trips a burgonomics breaker": a breaker opens
\* on an error of its own project and model, that has Trip such errors within
\* the window that ends with it.
Charged(fs, p, m, ts) ==
  {i \in 1..Len(fs) : fs[i].project = p /\ fs[i].model = m /\ ts < fs[i].ts + Window}

BreakerTripsForCause ==
  [][\A p \in Project, m \in Model :
       breaker'[<<p, m>>].openUntil # breaker[<<p, m>>].openUntil =>
         /\ Len(failed') > Len(failed)
         /\ Cardinality(Charged(failed', p, m, Last(failed').ts)) >= Trip]_vars

Answered(t) == pc[t] = "idle" /\ answer[t] # None /\ answer[t].ok

\* One cache serves the threads of all projects, and a call may be answered by
\* what another one stored: one that names its model is answered by no other.
PinnedIsHonoured ==
  \A t \in Thread : Answered(t) /\ req[t].model # None => answer[t].model = req[t].model

\* integration.py:464-466: an unconfigured frontier pool degrades to the free
\* one with a note, never silently.
DegradesWithNote ==
  \A t \in Thread : Answered(t) /\ req[t].note => answer[t].note
=============================================================================
