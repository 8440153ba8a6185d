----------------------------- MODULE Orchestrator -----------------------------
(***************************************************************************)
(* tools/delegation/orchestrator.py: a DAG is decomposed (TaskGraph), and  *)
(* Orchestrator.run walks it in topological order, one worker call at a    *)
(* time, writing every step to the append-only ledger.  Both neighbours    *)
(* can fail: router_fn may raise or return something unusable, and any     *)
(* append may raise OSError.                                               *)
(***************************************************************************)
EXTENDS TaskGraph, Integers

CONSTANTS
  MaxConf,    \* the confidence 1.0; confidences are 0..MaxConf
  Half,       \* the confidence 0.5 that run accepts a result at
  MaxFaults   \* bound: how many appends may fail

ASSUME RunAssumption ==
  /\ MaxConf \in Nat
  /\ Half \in 1..MaxConf
  /\ MaxFaults \in Nat

VARIABLES
  state,      \* TaskNode.state
  conf,       \* TaskNode.confidence
  attempts,   \* TaskNode.attempts
  at,         \* the position of run's loop in the order
  pc,         \* where the caller's thread is, see ProgramPoint
  ledger,     \* the lines of the ledger file
  cut,        \* its last line has no end: the next entry is glued to it
  faults      \* the appends that failed

runVars == <<state, conf, attempts, at, pc, ledger, cut, faults>>
vars == <<input, added, nodes, deps, indeg, queue, order, phase,
          state, conf, attempts, at, pc, ledger, cut, faults>>

TaskState == {"pending", "ready", "dispatched", "running", "succeeded",
              "failed", "needs_critique", "blocked", "skipped"}

\* "calling" is inside router_fn; "handling" is run's except clause; "raised"
\* and "escaped" are exceptions that left run, from outside and from inside
\* its try statement.
ProgramPoint == {"decomposing", "looping", "calling", "handling", "returned",
                 "raised", "escaped"}

Conf == 0..MaxConf
RawConf == -1..(MaxConf + 1)   \* what a router may report

\* The lines of the file: the entries, and what no reader can parse.
Entry == [type : {"decompose", "dispatch", "result", "critique", "error", "blocked", "broken"},
          task : Id, conf : Conf]

Broken == [type |-> "broken", task |-> Root, conf |-> 0]

\* _VALID_TRANSITIONS.
ValidTransitions ==
  [s \in TaskState |->
     CASE s = "pending"        -> {"ready", "blocked", "skipped"}
       [] s = "ready"          -> {"dispatched", "blocked", "skipped"}
       [] s = "dispatched"     -> {"running", "failed", "blocked"}
       [] s = "running"        -> {"succeeded", "failed", "needs_critique"}
       [] s = "needs_critique" -> {"ready", "succeeded", "failed", "blocked"}
       [] s = "failed"         -> {"ready", "blocked"}
       [] s = "blocked"        -> {"ready"}
       [] OTHER                -> {}]

IsValidTransition(frm, to) == to \in ValidTransitions[frm]

\* _clamp_confidence.
Clamp(v) == IF v < 0 THEN 0 ELSE IF v > MaxConf THEN MaxConf ELSE v

\* The state a usable answer leads to: NEEDS_CRITIQUE below one half.
Graded(v) == IF v < Half THEN "needs_critique" ELSE "succeeded"

\* DelegationLedger.append.  An entry glued to a line without an end is lost
\* in it, and ends it.
Log(type, t, c) ==
  /\ ledger' = IF cut THEN ledger ELSE Append(ledger, [type |-> type, task |-> t, conf |-> c])
  /\ cut' = FALSE
  /\ UNCHANGED faults

\* OSError: nothing is written, or a part of the line and no end.
LogFails ==
  /\ faults < MaxFaults
  /\ faults' = faults + 1
  /\ \/ UNCHANGED <<ledger, cut>>
     \/ ledger' = (IF cut THEN ledger ELSE Append(ledger, Broken)) /\ cut' = TRUE

-----------------------------------------------------------------------------
Init ==
  /\ GraphInit
  /\ state = [n \in Id |-> "pending"]
  /\ conf = [n \in Id |-> 0]
  /\ attempts = [n \in Id |-> 0]
  /\ at = 1
  /\ pc = "decomposing"
  /\ ledger = <<>>
  /\ cut = FALSE
  /\ faults = 0

Decompose == pc = "decomposing" /\ GraphNext /\ UNCHANGED runVars

\* The last statement of decompose, and run's call on the DAG it returns (run
\* computes the order again, from the same DAG, with the same result).
RecordDecomposition ==
  /\ pc = "decomposing"
  /\ phase = "valid"
  /\ \/ Log("decompose", Root, 0) /\ pc' = "looping"
     \/ LogFails /\ pc' = "raised"
  /\ UNCHANGED graphVars
  /\ UNCHANGED <<state, conf, attempts, at>>

Current == order[at]

\* Mutated form: only a dependency that failed blocks.
FailedDeps(t) == {d \in deps[t] : state[d] = "failed"}

\* The dependencies that did not succeed, the first of which is failed_dep.
UnmetDeps(t) == {d \in deps[t] : state[d] # "succeeded"}

\* Mutated form: a while loop that does not move past the root.
StayAtRoot ==
  /\ pc = "looping"
  /\ at <= Len(order)
  /\ Current = Root
  /\ UNCHANGED vars

SkipRoot ==
  /\ pc = "looping"
  /\ at <= Len(order)
  /\ Current = Root
  /\ at' = at + 1
  /\ UNCHANGED graphVars
  /\ UNCHANGED <<state, conf, attempts, pc, ledger, cut, faults>>

Block ==
  /\ pc = "looping"
  /\ at <= Len(order)
  /\ Current # Root
  /\ UnmetDeps(Current) # {}
  /\ state' = [state EXCEPT ![Current] = "blocked"]
  /\ \/ Log("blocked", Current, 0) /\ at' = at + 1 /\ UNCHANGED pc
     \/ LogFails /\ pc' = "raised" /\ UNCHANGED at
  /\ UNCHANGED graphVars
  /\ UNCHANGED <<conf, attempts>>

\* Three transitions (READY, DISPATCHED, RUNNING) around record_attempt, then
\* the dispatch entry.
Dispatch ==
  /\ pc = "looping"
  /\ at <= Len(order)
  /\ Current # Root
  /\ UnmetDeps(Current) = {}
  /\ IsValidTransition(state[Current], "ready")
  /\ state' = [state EXCEPT ![Current] = "running"]
  /\ attempts' = [attempts EXCEPT ![Current] = @ + 1]
  /\ \/ Log("dispatch", Current, 0) /\ pc' = "calling"
     \/ LogFails /\ pc' = "raised"
  /\ UNCHANGED graphVars
  /\ UNCHANGED <<conf, at>>

\* router_fn answers: the result is stored and the node graded, then logged.
\* A failing append is caught like any other exception of the try block.
Answer(v) ==
  /\ pc = "calling"
  /\ conf' = [conf EXCEPT ![Current] = Clamp(v)]
  /\ state' = [state EXCEPT ![Current] = Graded(v)]
  /\ \/ Log("result", Current, Clamp(v)) /\ pc' = "looping" /\ at' = at + 1
     \/ LogFails /\ pc' = "handling" /\ UNCHANGED at
  /\ UNCHANGED graphVars
  /\ UNCHANGED attempts

\* router_fn raises, or its outcome cannot be used (no mapping, a confidence
\* that is no number or NaN).
RouterRaises ==
  /\ pc = "calling"
  /\ pc' = "handling"
  /\ UNCHANGED graphVars
  /\ UNCHANGED <<state, conf, attempts, at, ledger, cut, faults>>

\* Mutated form: the error is logged and the node left as it was.
ReportOnly ==
  /\ pc = "handling"
  /\ IsValidTransition(state[Current], "failed")
  /\ \/ Log("error", Current, 0) /\ pc' = "looping" /\ at' = at + 1
     \/ LogFails /\ pc' = "raised" /\ UNCHANGED at
  /\ UNCHANGED graphVars
  /\ UNCHANGED <<state, conf, attempts>>

\* The except clause, when the node can still become FAILED.
HandleException ==
  /\ pc = "handling"
  /\ IsValidTransition(state[Current], "failed")
  /\ state' = [state EXCEPT ![Current] = "failed"]
  /\ \/ Log("error", Current, 0) /\ pc' = "looping" /\ at' = at + 1
     \/ LogFails /\ pc' = "raised" /\ UNCHANGED at
  /\ UNCHANGED graphVars
  /\ UNCHANGED <<conf, attempts>>

\* The except clause, when transition(FAILED) itself raises ValueError.
HandlerRaises ==
  /\ pc = "handling"
  /\ ~IsValidTransition(state[Current], "failed")
  /\ pc' = "escaped"
  /\ UNCHANGED graphVars
  /\ UNCHANGED <<state, conf, attempts, at, ledger, cut, faults>>

Return ==
  /\ pc = "looping"
  /\ at > Len(order)
  /\ pc' = "returned"
  /\ UNCHANGED graphVars
  /\ UNCHANGED <<state, conf, attempts, at, ledger, cut, faults>>

Next ==
  \/ Decompose \/ RecordDecomposition
  \/ SkipRoot \/ Block \/ Dispatch
  \/ \E v \in RawConf : Answer(v)
  \/ RouterRaises \/ HandleException \/ HandlerRaises
  \/ Return

Spec == Init /\ [][Next]_vars

\* The thread runs as long as it can, and a worker call ends: every adapter
\* gives its call a timeout and turns its expiry into an exception.
FairSpec == Spec /\ WF_vars(Next)

-----------------------------------------------------------------------------
Leaves == nodes \ {Root}
Past == {order[i] : i \in {j \in 1..Len(order) : j < at}}

\* Every variable of run stays in its range.
TypeOK ==
  /\ GraphTypeOK
  /\ state \in [Id -> TaskState]
  /\ conf \in [Id -> Conf]
  /\ attempts \in [Id -> Nat]
  /\ at \in 1..(Len(order) + 1)
  /\ pc \in ProgramPoint
  /\ ledger \in Seq(Entry)
  /\ cut \in BOOLEAN
  /\ faults \in 0..MaxFaults

\* Exactly the leaves with a dependency that did not succeed are blocked: no
\* leaf is dispatched over a failed dependency, and none is held back by a
\* dependency that has merely not had its turn, or that succeeds later.
BlockedExactly ==
  \A t \in Past \ {Root} :
    state[t] = "blocked" <=> \E d \in deps[t] : state[d] # "succeeded"

\* The transitive reading of the same: a blocked leaf can be traced, through
\* blocked leaves only, to one that failed or was doubted, or to the root.
Culprit(t) ==
  \E S \in SUBSET nodes :
    /\ t \in S
    /\ \E c \in S : c = Root \/ state[c] \in {"failed", "needs_critique"}
    /\ \A s \in S : \/ s = Root
                    \/ state[s] \in {"failed", "needs_critique"}
                    \/ state[s] = "blocked" /\ deps[s] \cap S # {}

BlockedHasCulprit ==
  \A t \in Past \ {Root} : state[t] = "blocked" => Culprit(t)

\* The last entry about a task.
EntriesOf(t) == {i \in 1..Len(ledger) : ledger[i].task = t}
LastEntry(t) == ledger[CHOOSE i \in EntriesOf(t) : \A j \in EntriesOf(t) : j <= i]

\* What a reader of the ledger concludes about a task.
Replayed(t) ==
  IF EntriesOf(t) = {} THEN "pending"
  ELSE LET e == LastEntry(t) IN
       CASE e.type = "dispatch" -> "running"
         [] e.type = "result"   -> Graded(e.conf)
         [] e.type = "error"    -> "failed"
         [] e.type = "blocked"  -> "blocked"
         [] OTHER               -> "pending"

\* DelegationLedger.read_all succeeds: it parses every line, or raises.
Readable == \A i \in 1..Len(ledger) : ledger[i].type # "broken"

\* As long as run goes on, or has returned, a ledger file that can be read
\* tells the state of every leaf, even when appends have failed on the way.
LedgerTellsState ==
  Readable /\ pc \in {"looping", "calling", "returned"} =>
    \A t \in Leaves : state[t] = Replayed(t)

\* ledger.py:32, "Each line is one LedgerEntry dict": when run has returned to
\* its caller, the file it wrote can be read.
LedgerStaysReadable == pc = "returned" => Readable

\* orchestrator.py:153, "structured error, never raw raise": an exception in
\* the try statement around the worker call becomes a structured error.
NeverRawRaise == pc # "escaped"

\* decompose and run end, whatever the workers and the ledger do.
RunEnds == <>(pc \in {"returned", "raised", "escaped"} \/ phase = "rejected")

\* The refinement: what callers may rely on.
Verdict(t) ==
  IF pc = "handling" /\ t = Current THEN "open"
  ELSE CASE state[t] = "succeeded"      -> "done"
         [] state[t] = "needs_critique" -> "weak"
         [] state[t] = "failed"         -> "failed"
         [] state[t] = "blocked"        -> "blocked"
         [] OTHER                       -> "open"

Contract == INSTANCE DelegationContract WITH
  tasks   <- IF pc = "decomposing" THEN {} ELSE nodes,
  waits   <- IF pc = "decomposing" THEN [n \in Id |-> {}] ELSE deps,
  busy    <- IF pc \in {"calling", "handling"} THEN {Current} ELSE {},
  verdict <- [t \in Id |-> Verdict(t)]

\* Orchestrator implements DelegationContract.
KeepsContract == Contract!Spec
=============================================================================
