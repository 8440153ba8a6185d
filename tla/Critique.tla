------------------------------- MODULE Critique -------------------------------
(***************************************************************************)
(* tools/delegation/critique_loop.py: after a run, a caller may dispatch a *)
(* leaf again while should_rerun says so.  A rerun bypasses run's except   *)
(* clause: whatever router_fn or the ledger raises leaves the node as it   *)
(* is and goes to the caller, who may go on with the other leaves.         *)
(***************************************************************************)
EXTENDS Orchestrator

CONSTANTS
  Threshold,    \* CritiqueLoop.threshold, on the scale of Conf
  MaxRetries,   \* CritiqueLoop.max_retries
  MaxAttempts   \* TaskNode.max_attempts

ASSUME CritiqueAssumption ==
  /\ Threshold \in Conf
  /\ MaxRetries \in Nat
  /\ MaxAttempts \in Nat \ {0}

VARIABLE inRerun   \* the task whose rerun waits for its worker, if any

critiqueVars == <<input, added, nodes, deps, indeg, queue, order, phase,
                  state, conf, attempts, at, pc, ledger, cut, faults, inRerun>>

\* can_retry and the max_retries bound, after n attempts.
MayRetry(n) == n < MaxAttempts /\ n - 1 < MaxRetries

ShouldRerun(t) ==
  /\ state[t] \in {"needs_critique", "failed", "succeeded"}
  /\ conf[t] < Threshold
  /\ MayRetry(attempts[t])

CritiqueInit == Init /\ inRerun = {}

Run == Next /\ UNCHANGED inRerun

\* Mutated form: a rerun is not counted as an attempt.
Uncounted(t) == attempts

\* record_attempt.
Tried(t) == [attempts EXCEPT ![t] = @ + 1]

\* Mutated form: the worker is asked before the attempt is recorded.
AskFirst(t) ==
  /\ pc = "returned"
  /\ inRerun = {}
  /\ ShouldRerun(t)
  /\ inRerun' = {t}
  /\ UNCHANGED vars

\* rerun up to the worker call: READY (forced for a SUCCEEDED node),
\* DISPATCHED, record_attempt, RUNNING and the dispatch entry.
RerunDispatch(t) ==
  /\ pc = "returned"
  /\ inRerun = {}
  /\ ShouldRerun(t)
  /\ state' = [state EXCEPT ![t] = "running"]
  /\ attempts' = Tried(t)
  /\ \/ Log("dispatch", t, 0) /\ inRerun' = {t}
     \/ LogFails /\ UNCHANGED inRerun
  /\ UNCHANGED graphVars
  /\ UNCHANGED <<conf, at, pc>>

\* Mutated form: a node is doubted however many retries it has had.
RegradedForever(v, n) == IF v < Threshold THEN "needs_critique" ELSE "succeeded"

\* The verdict on a second answer: doubted again only while a retry is left.
Regraded(v, n) ==
  IF v < Threshold /\ MayRetry(n) THEN "needs_critique" ELSE "succeeded"

\* Mutated form: the answer replaces the result but not the confidence.
KeptConf(t, v) == conf

Reconfided(t, v) == [conf EXCEPT ![t] = Clamp(v)]

RerunAnswer(t, v) ==
  /\ t \in inRerun
  /\ conf' = Reconfided(t, v)
  /\ state' = [state EXCEPT ![t] = Regraded(Clamp(v), attempts[t])]
  /\ Log("critique", t, Clamp(v)) \/ LogFails
  /\ inRerun' = {}
  /\ UNCHANGED graphVars
  /\ UNCHANGED <<attempts, at, pc>>

RerunRaises(t) ==
  /\ t \in inRerun
  /\ inRerun' = {}
  /\ UNCHANGED vars

CritiqueNext ==
  \/ Run
  \/ \E t \in nodes : \/ RerunDispatch(t)
                      \/ \E v \in RawConf : RerunAnswer(t, v)
                      \/ RerunRaises(t)

CritiqueSpec == CritiqueInit /\ [][CritiqueNext]_critiqueVars

\* The caller keeps rerunning as long as some leaf asks for it.
CritiqueFairSpec == CritiqueSpec /\ WF_critiqueVars(CritiqueNext)

-----------------------------------------------------------------------------
CritiqueTypeOK == TypeOK /\ inRerun \in SUBSET nodes

\* The dispatches of a task in the ledger.
Dispatches(t) == {i \in EntriesOf(t) : ledger[i].type = "dispatch"}

\* A leaf that passes for succeeded had a confidence one of the two limits
\* accepts, or no retry is left for it.
SuccessIsEarned ==
  \A t \in Leaves :
    state[t] = "succeeded" =>
      conf[t] >= Half \/ conf[t] >= Threshold \/ ~MayRetry(attempts[t])

\* A leaf that is doubted can be rerun.  run doubts below one half whatever the
\* loop is configured with, so its doubts count only for a threshold of one
\* half or more and a loop that may retry at all.
DoubtCanBeRetried ==
  \A t \in Leaves :
    state[t] = "needs_critique" /\ (attempts[t] > 1 \/ (Half <= Threshold /\ MayRetry(1)))
      => ShouldRerun(t)

\* The ledger tells the state through all the reruns, as long as no append
\* failed; a rerun whose worker raised shows as a dispatch without an answer.
ReplayedThroughReruns(t) ==
  IF EntriesOf(t) # {} /\ LastEntry(t).type = "critique"
  THEN Regraded(LastEntry(t).conf, Cardinality(Dispatches(t)))
  ELSE Replayed(t)

LedgerTellsRerunState ==
  faults = 0 => \A t \in Leaves : state[t] = ReplayedThroughReruns(t)

\* The caller's loop ends: once run has begun, a time comes when no leaf asks
\* for a rerun any more.
CritiqueSettles ==
  pc = "looping" ~>
    ( \/ pc \in {"raised", "escaped"}
      \/ pc = "returned" /\ inRerun = {} /\ \A t \in Leaves : ~ShouldRerun(t))
=============================================================================
