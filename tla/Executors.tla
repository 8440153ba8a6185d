------------------------------ MODULE Executors ------------------------------
(***************************************************************************)
(* tools/latency: one call of run_parallel (parallel_executor.py) or of    *)
(* the SpeculativeExecutor (speculative.py).  The caller submits tasks to  *)
(* a pool of threads, which take them in the order they were submitted,    *)
(* and collects futures: in order with a timeout for each, as they come,   *)
(* or until the first that is good enough, up to a deadline.  Leaving the  *)
(* with statement shuts the pool down.                                     *)
(***************************************************************************)
EXTENDS Naturals, Sequences, FiniteSets

CONSTANTS
  Tasks,      \* the number of items or branches
  Threads,    \* max_workers, max_branches
  MaxQueue    \* max_queue_size

ASSUME ExecutorAssumption == Tasks \in Nat /\ {Threads, MaxQueue} \subseteq Nat \ {0}

VARIABLES
  mode,      \* the function called
  at,        \* where the caller is
  task,      \* what became of each task: a poor value misses min_success_score,
             \* "timedout" is a TimeoutError that the task itself raised
  reports,   \* what the caller was told, first to last
  done,      \* the branches the last wait returned that are still to be looked at
  expired,   \* the deadline of the speculation has passed
  late       \* history: the branches that had not ended by then

executorVars == <<mode, at, task, reports, done, expired, late>>

TaskId == 1..Tasks
Mode == {"submit", "ordered", "unordered", "branches", "fallback"}
Threw == {"failed", "timedout"}
Over == {"good", "poor"} \union Threw

ExecutorTypeOK ==
  /\ mode \in Mode
  /\ at \in {"primary", "submitting", "collecting", "leaving", "returned"}
  /\ task \in [TaskId -> {"new", "queued", "running", "cancelled"} \union Over]
  /\ reports \in Seq([task : TaskId \union {0}, ok : BOOLEAN, timeout : BOOLEAN])
  /\ done \subseteq TaskId /\ late \subseteq TaskId
  /\ expired \in BOOLEAN

\* Task 0 is the primary, which runs in the caller's own thread.
ExecutorInit ==
  /\ mode \in Mode
  /\ at = IF mode = "fallback" THEN "primary" ELSE "submitting"
  /\ task = [i \in TaskId |-> "new"]
  /\ reports = <<>>
  /\ done = {} /\ late = {}
  /\ expired = FALSE

-----------------------------------------------------------------------------
In(states) == {i \in TaskId : task[i] \in states}
Heard(i) == \E k \in DOMAIN reports : reports[k].task = i
Report(i, ok, timeout) == Append(reports, [task |-> i, ok |-> ok, timeout |-> timeout])

\* run_with_fallback: any value of the primary is returned, whatever its
\* score; when it raises, the fallbacks are speculated on.
Primary ==
  /\ at = "primary"
  /\ \/ at' = "leaving" /\ reports' = Report(0, TRUE, FALSE)
     \/ at' = "submitting" /\ UNCHANGED reports
  /\ UNCHANGED <<mode, task, done, expired, late>>

\* Only BoundedExecutor.submit waits for room: the maps go to the pool itself.
Room == mode = "submit" => Cardinality(In({"queued"})) < MaxQueue

Submit ==
  /\ at = "submitting" /\ In({"new"}) # {} /\ Room
  /\ \E i \in In({"new"}) :
       /\ \A j \in In({"new"}) : i <= j
       /\ task' = [task EXCEPT ![i] = "queued"]
  /\ UNCHANGED <<mode, at, reports, done, expired, late>>

Submitted ==
  /\ at = "submitting" /\ In({"new"}) = {}
  /\ at' = IF mode = "submit" THEN "leaving" ELSE "collecting"
  /\ UNCHANGED <<mode, task, reports, done, expired, late>>

StartTask ==
  /\ Cardinality(In({"running"})) < Threads
  /\ \E i \in In({"queued"}) :
       /\ \A j \in In({"queued"}) : i <= j
       /\ task' = [task EXCEPT ![i] = "running"]
  /\ UNCHANGED <<mode, at, reports, done, expired, late>>

EndTask ==
  /\ \E i \in In({"running"}), over \in Over : task' = [task EXCEPT ![i] = over]
  /\ UNCHANGED <<mode, at, reports, done, expired, late>>

-----------------------------------------------------------------------------
\* map_ordered: the next future's value, its exception, or its timeout.  The
\* task of a future that timed out goes on.  A TimeoutError of the task itself
\* is reported like one.
CollectNext ==
  /\ at = "collecting" /\ mode = "ordered" /\ Len(reports) < Tasks
  /\ LET i == Len(reports) + 1 IN
       \/ task[i] \in Over \ Threw /\ reports' = Report(i, TRUE, FALSE)
       \/ task[i] = "failed" /\ reports' = Report(i, FALSE, FALSE)
       \/ task[i] \notin Over \ {"timedout"} /\ reports' = Report(i, FALSE, TRUE)
  /\ UNCHANGED <<mode, at, task, done, expired, late>>

\* map_unordered: whatever is done, for as long as it takes.
CollectAny ==
  /\ at = "collecting" /\ mode = "unordered"
  /\ \E i \in In(Over) : ~Heard(i) /\ reports' = Report(i, task[i] \notin Threw, FALSE)
  /\ UNCHANGED <<mode, at, task, done, expired, late>>

Collected ==
  /\ at = "collecting" /\ mode \in {"ordered", "unordered"} /\ Len(reports) = Tasks
  /\ at' = "leaving"
  /\ UNCHANGED <<mode, task, reports, done, expired, late>>

-----------------------------------------------------------------------------
Speculating == at = "collecting" /\ mode \in {"branches", "fallback"}
Dropped(states) == [i \in TaskId |-> IF task[i] \in states THEN "cancelled" ELSE task[i]]

\* Mutated form: a branch that did not raise is good enough.
Unscored(i) == task[i] \notin Threw

GoodEnough(i) == task[i] = "good"

Ended == {i \in In(Over) : ~Heard(i)}

\* wait returns with the branches that have ended by now.
Wait ==
  /\ Speculating /\ ~expired /\ done = {} /\ Ended # {}
  /\ done' = Ended
  /\ UNCHANGED <<mode, at, task, reports, expired, late>>

\* Mutated form: a branch is taken whenever it has ended.
WheneverEnded == Ended

\* The for loop goes through what that wait returned.
Takeable == done

\* A branch that is done is popped; good enough, it is the result and those
\* still queued are cancelled.
TakeBranch ==
  /\ Speculating
  /\ \E i \in Takeable :
       /\ reports' = Report(i, GoodEnough(i), FALSE)
       /\ done' = IF GoodEnough(i) THEN {} ELSE done \ {i}
       /\ IF GoodEnough(i) THEN at' = "leaving" /\ task' = Dropped({"queued"})
                           ELSE UNCHANGED <<at, task>>
  /\ UNCHANGED <<mode, expired, late>>

\* All popped, or the deadline has passed before the next wait.
NoBranch ==
  /\ Speculating /\ done = {}
  /\ Len(reports) = Tasks \/ expired
  /\ at' = "leaving"
  /\ UNCHANGED <<mode, task, reports, done, expired, late>>

\* The deadline passes, for a caller that does not see it before wait returns.
Expire ==
  /\ Speculating /\ ~expired
  /\ expired' = TRUE /\ late' = TaskId \ In(Over)
  /\ UNCHANGED <<mode, at, task, reports, done>>

-----------------------------------------------------------------------------
\* shutdown(wait=True) of the one waits for every task, shutdown(wait=False,
\* cancel_futures=True) of the other drops what has not started.
ShutDown == IF mode \in {"branches", "fallback"} THEN Dropped({"queued"}) ELSE task

LeavePool ==
  /\ at = "leaving"
  /\ mode \in {"branches", "fallback"} \/ In({"queued", "running"}) = {}
  /\ at' = "returned"
  /\ task' = ShutDown
  /\ UNCHANGED <<mode, reports, done, expired, late>>

ExecutorNext ==
  \/ Primary \/ Submit \/ Submitted \/ StartTask \/ EndTask
  \/ CollectNext \/ CollectAny \/ Collected \/ Wait \/ TakeBranch \/ NoBranch \/ Expire \/ LeavePool

ExecutorSpec == ExecutorInit /\ [][ExecutorNext]_executorVars

-----------------------------------------------------------------------------
\* What the caller is told is true and whole. A map tells of every task once,
\* in order if asked for, and returns with nothing left in the pool; a
\* speculation succeeds with one good branch, told last, and fails only when
\* every branch was seen to end badly or the deadline passed; no branch that
\* ended after the deadline is its answer; nothing is begun after a call has
\* returned; and submit never overfills the queue.
ReportsAreTrue ==
  /\ \A k, l \in DOMAIN reports : reports[k].task = reports[l].task => k = l
  /\ \A k \in DOMAIN reports :
       LET r == reports[k] IN
       /\ r.task # 0 /\ ~r.timeout => task[r.task] \in Over
       /\ r.ok /\ r.task # 0 => task[r.task] \in {"good"} \union
            (IF mode \in {"branches", "fallback"} THEN {} ELSE {"poor"})
       /\ r.task \notin late
       /\ mode = "ordered" => r.task = k
       /\ mode \in {"branches", "fallback"} /\ r.ok => k = Len(reports)
  /\ at = "returned" =>
       /\ In({"new", "queued"}) = {} \/ (mode = "fallback" /\ reports[1].task = 0)
       /\ mode \in {"ordered", "unordered"} =>
            Len(reports) = Tasks /\ In({"running"}) = {}
       /\ mode \in {"branches", "fallback"} /\ (\A k \in DOMAIN reports : ~reports[k].ok)
            => expired \/ In(Over) = TaskId
  /\ mode = "submit" => Cardinality(In({"queued"})) <= MaxQueue
=============================================================================
