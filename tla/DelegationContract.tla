-------------------------- MODULE DelegationContract --------------------------
(***************************************************************************)
(* What Orchestrator promises its callers, whatever the workers answer and *)
(* whatever the ledger file does: a task list without circular waits is    *)
(* accepted once; at most one worker call is in flight; a task is worked   *)
(* on only when everything it waits for is done, is blocked only when      *)
(* something it waits for is finished but not done (or is the root, which  *)
(* is never worked on), and a verdict is final.                            *)
(***************************************************************************)
CONSTANTS Id, Root

VARIABLES
  tasks,     \* the accepted tasks ({} before acceptance)
  waits,     \* what each of them waits for
  busy,      \* the tasks a worker is working on
  verdict    \* "open", "done", "weak", "failed" or "blocked"

contractVars == <<tasks, waits, busy, verdict>>

Verdict == {"open", "done", "weak", "failed", "blocked"}

CircularWait(w) ==
  \E S \in SUBSET Id : S # {} /\ \A n \in S : w[n] \cap S # {}

Init ==
  /\ tasks = {}
  /\ waits = [n \in Id |-> {}]
  /\ busy = {}
  /\ verdict = [n \in Id |-> "open"]

Accept ==
  /\ tasks = {}
  /\ tasks' \in SUBSET Id
  /\ Root \in tasks'
  /\ waits' \in [Id -> SUBSET tasks']
  /\ ~CircularWait(waits')
  /\ UNCHANGED <<busy, verdict>>

Undecided(t) == t \in tasks \ {Root} /\ verdict[t] = "open"

Start(t) ==
  /\ Undecided(t)
  /\ busy = {}
  /\ \A d \in waits[t] : verdict[d] = "done"
  /\ busy' = {t}
  /\ UNCHANGED <<tasks, waits, verdict>>

End(t) ==
  /\ t \in busy
  /\ busy' = busy \ {t}
  /\ \E v \in {"done", "weak", "failed"} : verdict' = [verdict EXCEPT ![t] = v]
  /\ UNCHANGED <<tasks, waits>>

Block(t) ==
  /\ Undecided(t)
  /\ t \notin busy
  /\ \E d \in waits[t] : d = Root \/ verdict[d] \in {"weak", "failed", "blocked"}
  /\ verdict' = [verdict EXCEPT ![t] = "blocked"]
  /\ UNCHANGED <<tasks, waits, busy>>

Next == Accept \/ \E t \in Id : Start(t) \/ End(t) \/ Block(t)

Spec == Init /\ [][Next]_contractVars
=============================================================================
