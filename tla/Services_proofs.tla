--------------------------- MODULE Services_proofs ---------------------------
(***************************************************************************)
(* The services for every size of theirs: the in-flight counter of the     *)
(* gateways, what an executor reports of its tasks, the waves of the skill *)
(* hub, the breaker of the engine, the vote of the models, the tie among   *)
(* fallback chains, and the books of the paper portfolio.                  *)
(***************************************************************************)
EXTENDS Gateway, Executors, SkillHub, Engine, Consensus, ModelChoice, Paper,
        Counting_proofs

-----------------------------------------------------------------------------
(* Any number of threads, gateways and endpoints: the in-flight counter is   *)
(* exact.  The asyncio lock is of no help (it lets two threads through), so  *)
(* the argument rests on the counter alone: a call is counted from the step  *)
(* that starts its post to the step that ends it, whatever the lock, its     *)
(* waiters and their loops are doing.                                        *)

\* The part of the state the counter depends on.
CountedOK ==
  /\ inFlight \in [Wrapped -> Nat]
  /\ call \in [Call -> [pc : ProgramPoint, at : Wrapped, tries : Nat,
                        outcome : {"none", "text", "error", "raised"}]]

CountInv == CountedOK /\ InFlightIsExact

LEMMA MaxInFlightIsPositive == MaxInFlight \in Nat /\ MaxInFlight > 0
  BY GatewayAssumption

\* A gateway has finitely many calls with it.
LEMMA PostingFinite == \A g : IsFiniteSet(Posting(g)) /\ Cardinality(Posting(g)) \in Nat
  <1> TAKE g
  <1>1. Posting(g) \in SUBSET Call  BY DEF Posting
  <1>2. IsFiniteSet(Posting(g))  BY <1>1, FS_Subset, GatewayAssumption
  <1> QED  BY <1>2, FS_CardinalityType

\* A step of a call that is with no gateway before and after it changes no count.
LEMMA QuietStep ==
  ASSUME CountInv, NEW c \in Call,
         ~At(c, "posting"), call'[c].pc # "posting",
         \A d \in Call \ {c} : call'[d] = call[d],
         CountedOK', inFlight' = inFlight
  PROVE  CountInv'
  <1>1. ASSUME NEW g \in Wrapped  PROVE  Posting(g)' = Posting(g)
    BY DEF Posting, At
  <1> QED  BY <1>1 DEF CountInv, InFlightIsExact

LEMMA InitCounts == GatewayInit => CountInv
  <1> SUFFICES ASSUME GatewayInit  PROVE  CountInv
    OBVIOUS
  <1>1. CountedOK
    BY GatewayAssumption DEF GatewayInit, CountedOK, ProgramPoint, Wrapped
  <1>2. \A g \in Wrapped : Posting(g) = {}  BY DEF GatewayInit, Posting, At
  <1>3. ASSUME NEW g \in Wrapped  PROVE  inFlight[g] = Cardinality(Posting(g)) /\ inFlight[g] <= MaxInFlight
    <2>1. inFlight[g] = 0 /\ Cardinality(Posting(g)) = 0
      BY <1>2, FS_EmptySet DEF GatewayInit
    <2> QED  BY <2>1, MaxInFlightIsPositive
  <1> QED  BY <1>1, <1>3 DEF CountInv, InFlightIsExact

\* The steps around the lock, and from one endpoint to the next.
LEMMA LockSteps ==
  ASSUME CountInv, NEW c \in Call,
         Send(c) \/ Enter(c) \/ Take(c) \/ Queue(c) \/ FallAsleep(c) \/ Resume(c)
  PROVE  CountInv'
  <1>1. CountedOK /\ inFlight' = inFlight
    BY DEF CountInv, Send, Enter, Take, Queue, FallAsleep, Resume
  <1>2. ~At(c, "posting")
    BY DEF At, Send, Enter, Take, Queue, FallAsleep, Resume
  <1>3. PICK p \in ProgramPoint \ {"posting"}, o \in {call[c].outcome, "raised"} :
          call' = [call EXCEPT ![c].pc = p, ![c].outcome = o]
    <2>1. ASSUME NEW p \in ProgramPoint \ {"posting"}, Goto(c, p)
          PROVE  call' = [call EXCEPT ![c].pc = p, ![c].outcome = call[c].outcome]
      BY <1>1, <2>1 DEF Goto, CountedOK
    <2>2. \/ \E p \in {"entering", "taking", "queueing", "waiting", "asleep", "guarding"} : Goto(c, p)
          \/ End(c, "raised")
      BY DEF Send, Enter, Take, Queue, FallAsleep, Resume
    <2>3. CASE End(c, "raised")  BY <2>3 DEF End, ProgramPoint
    <2>4. CASE \E p \in {"entering", "taking", "queueing", "waiting", "asleep", "guarding"} : Goto(c, p)
      <3>1. PICK p \in {"entering", "taking", "queueing", "waiting", "asleep", "guarding"} : Goto(c, p)
        BY <2>4
      <3>2. p \in ProgramPoint \ {"posting"}  BY DEF ProgramPoint
      <3> QED  BY <2>1, <3>1, <3>2
    <2> QED  BY <2>2, <2>3, <2>4
  <1>4. CountedOK' /\ call'[c].pc # "posting" /\ \A d \in Call \ {c} : call'[d] = call[d]
    BY <1>1, <1>3 DEF CountedOK, ProgramPoint
  <1> QED  BY <1>1, <1>2, <1>4, QuietStep

\* A call is admitted and counted, or finds the gateway busy.
LEMMA GuardCounts == ASSUME CountInv, NEW c \in Call, Guard(c)  PROVE  CountInv'
  <1> PICK g \in Wrapped : g = call[c].at  BY DEF CountInv, CountedOK
  <1>1. g \in Wrapped /\ ~At(c, "posting") /\ inFlight \in [Wrapped -> Nat]
    BY DEF CountInv, CountedOK, Guard, At
  <1>2. CASE inFlight[g] < MaxInFlight
    <2>1. PICK n \in 1..MaxTries :
            call' = [call EXCEPT ![c].pc = "posting", ![c].tries = n]
      BY <1>2 DEF Guard
    <2>2. inFlight' = [inFlight EXCEPT ![g] = @ + 1]  BY <1>2 DEF Guard
    <2>3. CountedOK'
      <3>1. inFlight' \in [Wrapped -> Nat]  BY <1>1, <2>2
      <3>2. n \in Nat  BY GatewayAssumption
      <3>3. call' \in [Call -> [pc : ProgramPoint, at : Wrapped, tries : Nat,
                                outcome : {"none", "text", "error", "raised"}]]
        BY <2>1, <3>2 DEF CountInv, CountedOK, ProgramPoint
      <3> QED  BY <3>1, <3>3 DEF CountedOK
    <2>4. Posting(g)' = Posting(g) \union {c} /\ c \notin Posting(g)
      BY <1>1, <2>1 DEF CountInv, CountedOK, Posting, At
    <2>5. \A h \in Wrapped \ {g} : Posting(h)' = Posting(h)
      BY <1>1, <2>1 DEF CountInv, CountedOK, Posting, At
    <2>6. Cardinality(Posting(g)') = Cardinality(Posting(g)) + 1
      BY <2>4, PostingFinite, FS_AddElement
    <2>7. inFlight'[g] = Cardinality(Posting(g)') /\ inFlight'[g] <= MaxInFlight
      BY <1>1, <1>2, <2>2, <2>6, MaxInFlightIsPositive DEF CountInv, InFlightIsExact
    <2>8. \A h \in Wrapped \ {g} : inFlight'[h] = inFlight[h]  BY <1>1, <2>2
    <2> QED  BY <2>3, <2>5, <2>7, <2>8 DEF CountInv, InFlightIsExact
  <1>3. CASE ~(inFlight[g] < MaxInFlight)
    <2>1. /\ call' = [call EXCEPT ![c].pc = "leaving", ![c].outcome = "error"]
          /\ inFlight' = inFlight
      BY <1>3 DEF Guard
    <2>2. CountedOK' /\ call'[c].pc # "posting" /\ \A d \in Call \ {c} : call'[d] = call[d]
      BY <2>1 DEF CountInv, CountedOK, ProgramPoint
    <2> QED  BY <1>1, <2>1, <2>2, QuietStep
  <1> QED  BY <1>2, <1>3

LEMMA NextEndpointCounts == ASSUME CountInv, NEW c \in Call, NextEndpoint(c)  PROVE  CountInv'
  <1>1. CountedOK'  BY DEF CountInv, CountedOK, NextEndpoint
  <1>2. \A g \in Wrapped : Posting(g)' = Posting(g)
    BY DEF CountInv, CountedOK, NextEndpoint, Posting, At
  <1> QED  BY <1>1, <1>2 DEF CountInv, InFlightIsExact, NextEndpoint

\* The post is over, and counted down whatever came of it.
LEMMA PostEndsCounts == ASSUME CountInv, NEW c \in Call, PostEnds(c)  PROVE  CountInv'
  <1> PICK g \in Wrapped : g = call[c].at  BY DEF CountInv, CountedOK
  <1>1. g \in Wrapped /\ inFlight \in [Wrapped -> Nat] /\ c \in Posting(g)
    BY DEF CountInv, CountedOK, PostEnds, At, Posting
  <1>2. PICK outcome \in {"text", "error"} :
          /\ call' = [call EXCEPT ![c].pc = "leaving", ![c].tries = 0, ![c].outcome = outcome]
          /\ inFlight' = [inFlight EXCEPT ![g] = inFlight[g] - 1]
    BY DEF PostEnds, CountAfter
  <1>3. Posting(g)' = Posting(g) \ {c} /\ \A h \in Wrapped \ {g} : Posting(h)' = Posting(h)
    BY <1>1, <1>2 DEF CountInv, CountedOK, Posting, At
  <1>4. Cardinality(Posting(g)') = Cardinality(Posting(g)) - 1 /\ Cardinality(Posting(g)') \in Nat
    <2>1. IsFiniteSet(Posting(g)) /\ IsFiniteSet(Posting(g) \ {c})
      BY PostingFinite, FS_RemoveElement
    <2> QED  BY <1>1, <1>3, <2>1, FS_RemoveElement, FS_CardinalityType
  <1>5. inFlight'[g] = Cardinality(Posting(g)') /\ inFlight'[g] <= MaxInFlight
    BY <1>1, <1>2, <1>4, MaxInFlightIsPositive DEF CountInv, InFlightIsExact
  <1>6. CountedOK'
    <2>1. inFlight' \in [Wrapped -> Nat]
      <3>1. inFlight[g] - 1 = inFlight'[g]  BY <1>1, <1>2
      <3>2. inFlight[g] - 1 \in Nat  BY <1>4, <1>5, <3>1
      <3> QED  BY <1>1, <1>2, <3>2
    <2> DEFINE Calls == [Call -> [pc : ProgramPoint, at : Wrapped, tries : Nat,
                                  outcome : {"none", "text", "error", "raised"}]]
    <2>2. [call EXCEPT ![c].pc = "leaving", ![c].tries = 0] \in Calls
      BY DEF CountInv, CountedOK, ProgramPoint
    <2>3. \A f \in Calls : [f EXCEPT ![c].outcome = outcome] \in Calls
      OBVIOUS
    <2>4. call' = [[call EXCEPT ![c].pc = "leaving", ![c].tries = 0] EXCEPT ![c].outcome = outcome]
      BY <1>2
    <2>5. call' \in Calls  BY <2>2, <2>3, <2>4
    <2> QED  BY <2>1, <2>5 DEF CountedOK
  <1>7. \A h \in Wrapped \ {g} : inFlight'[h] = inFlight[h]  BY <1>1, <1>2
  <1> QED  BY <1>3, <1>5, <1>6, <1>7 DEF CountInv, InFlightIsExact

LEMMA LeaveCounts == ASSUME CountInv, NEW c \in Call, Leave(c)  PROVE  CountInv'
  <1> PICK g \in Wrapped : g = call[c].at  BY DEF CountInv, CountedOK
  <1>1. g \in Wrapped /\ ~At(c, "posting") /\ inFlight' = inFlight /\ CountedOK
    BY DEF CountInv, CountedOK, Leave, At
  <1>2. PICK o \in {call[c].outcome, "raised"} :
          \/ End(c, o)
          \/ g < Chain /\ call' = [call EXCEPT ![c].pc = "entering", ![c].at = g + 1,
                                               ![c].outcome = "none"]
    BY DEF Leave, NextGateway
  <1>3. g < Chain => g + 1 \in Wrapped  BY <1>1, GatewayAssumption DEF Wrapped
  <1>4. CountedOK' /\ call'[c].pc # "posting" /\ \A d \in Call \ {c} : call'[d] = call[d]
    BY <1>1, <1>2, <1>3 DEF CountedOK, End, ProgramPoint
  <1> QED  BY <1>1, <1>4, QuietStep

LEMMA NextCounts == CountInv /\ [GatewayNext]_gatewayVars => CountInv'
  <1> SUFFICES ASSUME CountInv, [GatewayNext]_gatewayVars  PROVE  CountInv'
    OBVIOUS
  <1>1. CASE UNCHANGED gatewayVars
    BY <1>1 DEF gatewayVars, CountInv, CountedOK, InFlightIsExact, Posting, At
  <1>2. ASSUME NEW c \in Call, Send(c) \/ CallStep(c)  PROVE  CountInv'
    BY <1>2, LockSteps, GuardCounts, NextEndpointCounts, PostEndsCounts, LeaveCounts
       DEF CallStep
  <1> QED  BY <1>1, <1>2 DEF GatewayNext

\* No gateway ever has more calls than max_in_flight, and its counter is the
\* number it has: for every number of threads, gateways and endpoints, a
\* failing post never uses a gateway up.
THEOREM InFlightAlways == GatewaySpec => []InFlightIsExact
  <1>1. CountInv => InFlightIsExact  BY DEF CountInv
  <1> QED  BY <1>1, InitCounts, NextCounts, PTL DEF GatewaySpec

-----------------------------------------------------------------------------
(* Any number of tasks, threads and places in the queue: an executor tells   *)
(* its caller the truth.  A report is fixed when it is made and tasks that   *)
(* are over stay as they are, so each report stays true; the reports name    *)
(* different tasks, so as many of them as there are tasks leave none out.    *)

Speculative == mode \in {"branches", "fallback"}
Mapping == mode \in {"ordered", "unordered"}

Reports == [task : TaskId \union {0}, ok : BOOLEAN, timeout : BOOLEAN]

\* The primary of run_with_fallback was the answer.
PrimaryWon == mode = "fallback" /\ reports = <<[task |-> 0, ok |-> TRUE, timeout |-> FALSE]>>

\* What a report says of its task, and where it stands among the others.
TrueReport(k) ==
  LET r == reports[k] IN
  /\ r.task = 0 => PrimaryWon
  /\ r.task # 0 /\ ~r.timeout => task[r.task] \in Over
  /\ r.ok /\ r.task # 0 => task[r.task] = "good" \/ (task[r.task] = "poor" /\ ~Speculative)
  /\ r.task \notin late
  /\ mode = "ordered" => r.task = k
  /\ Speculative => ~r.timeout
  /\ Speculative /\ r.ok => k = Len(reports) /\ at \in {"leaving", "returned"}

Reported ==
  /\ \A k \in 1..Len(reports) : TrueReport(k)
  /\ \A k, l \in 1..Len(reports) : reports[k].task = reports[l].task => k = l

\* What the last wait returned is over, was so when the deadline passed, and is
\* not reported yet.
Waited ==
  /\ \A i \in done : i \in TaskId /\ task[i] \in Over /\ ~Heard(i) /\ i \notin late
  /\ done # {} \/ late # {} => Speculative
  /\ late # {} => expired

\* What the caller has done by the time it is at a point.
Progress ==
  /\ at = "primary" => mode = "fallback"
  /\ at \in {"primary", "submitting"} => reports = <<>>
  /\ at = "collecting" => mode # "submit" /\ In({"new"}) = {}
  /\ at \in {"leaving", "returned"} =>
       /\ PrimaryWon \/ In({"new"}) = {}
       /\ Mapping => Len(reports) = Tasks
       /\ Speculative /\ (\A k \in 1..Len(reports) : ~reports[k].ok)
            => expired \/ Len(reports) = Tasks
  /\ at = "returned" =>
       /\ PrimaryWon \/ In({"queued"}) = {}
       /\ Mapping => In({"running"}) = {}

ExecutorInv ==
  /\ ExecutorTypeOK
  /\ Reported
  /\ Waited
  /\ Progress
  /\ mode = "submit" => Cardinality(In({"queued"})) <= MaxQueue

LEMMA InFinite == \A states : IsFiniteSet(In(states)) /\ Cardinality(In(states)) \in Nat
<1> TAKE states
<1>1. In(states) \in SUBSET (1..Tasks)
  BY DEF In, TaskId
<1>2. IsFiniteSet(1..Tasks)
  BY ExecutorAssumption, FS_Interval
<1>3. IsFiniteSet(In(states))
  BY <1>1, <1>2, FS_Subset
<1> QED BY <1>3, FS_CardinalityType

LEMMA InitExecutor == ExecutorInit => ExecutorInv
<1> SUFFICES ASSUME ExecutorInit PROVE ExecutorInv
  OBVIOUS
<1>1. ExecutorTypeOK
  <2>1. reports \in Seq(Reports)
    BY EmptySeq DEF ExecutorInit
  <2> QED BY <2>1 DEF ExecutorInit, ExecutorTypeOK, Mode, Reports
<1>2. Len(reports) = 0
  BY EmptySeq DEF ExecutorInit
<1>3. In({"queued"}) = {}
  BY DEF ExecutorInit, In
<1>4. Cardinality(In({"queued"})) <= MaxQueue
  BY <1>3, FS_EmptySet, ExecutorAssumption
<1>5. Waited
  BY DEF ExecutorInit, Waited
<1> QED BY <1>1, <1>2, <1>4, <1>5 DEF ExecutorInit, ExecutorInv, Reported, Progress

-----------------------------------------------------------------------------
\* Steps that report nothing: tasks go their way, and no task that is over
\* becomes anything else.  What has been reported is over, so it is not late.
LEMMA SilentStep ==
  ASSUME ExecutorInv, UNCHANGED <<mode, reports>>,
         \A i \in TaskId : task[i] \in Over => task'[i] = task[i],
         at' \in {"leaving", "returned"} \/ at \notin {"leaving", "returned"},
         UNCHANGED <<done, expired, late>> \/ Wait \/ Expire
  PROVE  Reported' /\ Waited'
<1>1. UNCHANGED late \/ (Speculative /\ late' = TaskId \ In(Over))
  BY DEF Wait, Expire, Speculating, Speculative
<1>2. 0 \notin TaskId /\ late \subseteq TaskId /\ late' \subseteq TaskId
  <2>1. 0 \notin TaskId
    BY ExecutorAssumption DEF TaskId
  <2>2. late \subseteq TaskId
    BY DEF ExecutorInv, ExecutorTypeOK
  <2> QED BY <1>1, <2>1, <2>2
<1>3. ASSUME NEW k \in 1..Len(reports) PROVE TrueReport(k)'
  <2>1. TrueReport(k) /\ reports[k] \in Reports
    BY ElementOfSeq DEF ExecutorInv, ExecutorTypeOK, Reported, Reports
  <2>2. reports'[k] = reports[k] /\ mode' = mode /\ Len(reports') = Len(reports)
        /\ PrimaryWon' = PrimaryWon
    BY DEF PrimaryWon
  <2>3. reports[k].task # 0 => reports[k].task \in TaskId
    BY <2>1 DEF Reports
  <2>4. reports[k].task \notin late'
    BY <1>1, <1>2, <2>1, <2>3 DEF TrueReport, In
  <2> QED BY <2>1, <2>2, <2>3, <2>4 DEF TrueReport, Speculative, Over, Threw
<1>4. Reported'
  BY <1>3 DEF ExecutorInv, Reported
<1>5. \A i : Heard(i)' = Heard(i)
  BY DEF Heard
<1>6. ASSUME NEW i \in done'
      PROVE  i \in TaskId /\ task'[i] \in Over /\ ~Heard(i) /\ i \notin late'
  <2>1. CASE i \in done
    <3>1. i \in TaskId /\ task[i] \in Over /\ ~Heard(i) /\ i \notin late
      BY <2>1 DEF ExecutorInv, Waited
    <3> QED BY <1>1, <3>1 DEF In
  <2>2. CASE Wait
    <3>1. i \in Ended /\ late = {} /\ late' = late
      BY <1>6, <2>2 DEF Wait, ExecutorInv, Waited
    <3> QED BY <3>1 DEF Ended, In
  <2> QED BY <1>6, <2>1, <2>2 DEF Expire
<1>7. /\ done' # {} \/ late' # {} => Speculative'
      /\ late' # {} => expired'
  BY DEF ExecutorInv, Waited, Wait, Expire, Speculating, Speculative
<1>8. Waited'
  BY <1>5, <1>6, <1>7 DEF Waited
<1> QED BY <1>4, <1>8

\* The three reports a caller can get of a task.
LEMMA WhatReportsSay ==
  ASSUME NEW i \in TaskId
  PROVE  /\ \E r \in Reports : /\ Report(i, TRUE, FALSE) = Append(reports, r)
                              /\ r.task = i /\ r.ok /\ ~r.timeout
         /\ \E r \in Reports : /\ Report(i, FALSE, FALSE) = Append(reports, r)
                              /\ r.task = i /\ ~r.ok /\ ~r.timeout
         /\ \E r \in Reports : /\ Report(i, FALSE, TRUE) = Append(reports, r)
                              /\ r.task = i /\ ~r.ok /\ r.timeout
<1>1. [task |-> i, ok |-> TRUE, timeout |-> FALSE] \in Reports
  BY DEF Reports
<1>2. [task |-> i, ok |-> FALSE, timeout |-> FALSE] \in Reports
  BY DEF Reports
<1>3. [task |-> i, ok |-> FALSE, timeout |-> TRUE] \in Reports
  BY DEF Reports
<1> QED BY <1>1, <1>2, <1>3, Zenon DEF Report

\* The caller is told of one task more.
LEMMA ReportStep ==
  ASSUME ExecutorInv, at = "collecting", UNCHANGED <<mode, expired, late>>,
         NEW r \in Reports, reports' = Append(reports, r),
         r.task \in TaskId, ~Heard(r.task), r.task \notin late,
         done' \subseteq done \ {r.task},
         \A j \in TaskId : task[j] \in Over => task'[j] = task[j],
         ~r.timeout => task[r.task] \in Over,
         r.ok => task[r.task] = "good" \/ (task[r.task] = "poor" /\ ~Speculative),
         mode = "ordered" => r.task = Len(reports) + 1,
         Speculative => ~r.timeout,
         Speculative /\ r.ok => at' = "leaving"
  PROVE  /\ Reported' /\ Waited'
         /\ reports' \in Seq(Reports)
         /\ Len(reports) \in Nat
         /\ Len(reports') = Len(reports) + 1
         /\ reports'[Len(reports) + 1] = r
<1>1. reports \in Seq(Reports)
  BY DEF ExecutorInv, ExecutorTypeOK, Reports
<1>2. /\ reports' \in Seq(Reports)
      /\ Len(reports) \in Nat /\ Len(reports') = Len(reports) + 1
      /\ \A k \in 1..Len(reports) : reports'[k] = reports[k]
      /\ reports'[Len(reports) + 1] = r
  BY <1>1, AppendProperties, LenProperties
<1>3. r.task # 0 /\ TaskId \subseteq Nat
  BY ExecutorAssumption DEF TaskId
<1>4. r.ok \/ ~r.timeout => task'[r.task] = task[r.task]
  BY DEF Over, Threw
<1>5. ASSUME NEW k \in Nat, k = Len(reports) + 1 PROVE TrueReport(k)'
  BY <1>2, <1>5, <1>3, <1>4 DEF TrueReport, Speculative, Over, Threw
<1>6. ASSUME NEW k \in 1..Len(reports) PROVE TrueReport(k)'
  <2>1. TrueReport(k) /\ reports[k] \in Reports
    BY <1>1, ElementOfSeq DEF ExecutorInv, Reported
  <2>2. reports[k].task # 0
    <3>1. ASSUME reports[k].task = 0 PROVE FALSE
      <4>1. PrimaryWon
        BY <2>1, <3>1 DEF TrueReport
      <4>2. Len(reports) = 1 /\ reports[1].ok /\ Speculative
        BY <4>1 DEF PrimaryWon, Speculative
      <4>3. TrueReport(1)
        BY <4>2 DEF ExecutorInv, Reported
      <4> QED BY <4>2, <4>3 DEF TrueReport
    <3> QED BY <3>1
  <2>3. reports[k].task \in TaskId /\ reports'[k] = reports[k] /\ mode' = mode
    BY <1>2, <2>1, <2>2 DEF Reports
  <2>4. ~(Speculative /\ reports[k].ok)
    BY <2>1 DEF TrueReport
  <2> QED BY <2>1, <2>2, <2>3, <2>4 DEF TrueReport, Speculative, Over, Threw
<1>7. \A k \in 1..Len(reports') : k \in 1..Len(reports) \/ k = Len(reports) + 1
  BY <1>2
<1>8. \A k \in 1..Len(reports) : reports[k].task # r.task
  BY <1>1, LenProperties DEF Heard
<1>9. \A k, l \in 1..Len(reports') : reports'[k].task = reports'[l].task => k = l
  BY <1>2, <1>7, <1>8 DEF ExecutorInv, Reported
<1>10. \A i : Heard(i)' => Heard(i) \/ i = r.task
  BY <1>1, <1>2, <1>7, LenProperties DEF Heard
<1>11. Waited'
  <2> SUFFICES ASSUME NEW i \in done'
               PROVE  i \in TaskId /\ task'[i] \in Over /\ ~Heard(i)' /\ i \notin late
    BY DEF ExecutorInv, Waited, Speculative
  <2>1. i \in done /\ i # r.task
    OBVIOUS
  <2> QED BY <1>10, <2>1 DEF ExecutorInv, Waited
<1> QED BY <1>2, <1>5, <1>6, <1>7, <1>9, <1>11 DEF Reported

-----------------------------------------------------------------------------
LEMMA CallerStarts ==
  ASSUME ExecutorInv, Primary \/ Submit \/ Submitted
  PROVE  ExecutorInv'
<1>1. CASE Primary /\ reports' = Report(0, TRUE, FALSE) /\ at' = "leaving"
  <2>1. /\ mode = "fallback" /\ mode' = mode /\ task' = task
        /\ UNCHANGED <<done, expired, late>> /\ reports = <<>> /\ done \subseteq TaskId
        /\ late \subseteq TaskId /\ 0 \notin TaskId
    BY <1>1, ExecutorAssumption
       DEF Primary, ExecutorInv, ExecutorTypeOK, Progress, TaskId
  <2>2. reports' = <<[task |-> 0, ok |-> TRUE, timeout |-> FALSE]>>
    BY <1>1, <2>1 DEF Report
  <2>3. PrimaryWon' /\ Len(reports') = 1 /\ reports'[1].ok
    BY <2>1, <2>2 DEF PrimaryWon
  <2>4. ExecutorTypeOK'
    <3>1. [task |-> 0, ok |-> TRUE, timeout |-> FALSE]
            \in Reports
      BY DEF Reports
    <3>2. reports' \in Seq(Reports)
      BY <2>2, <3>1
    <3> QED BY <1>1, <2>1, <3>2 DEF ExecutorInv, ExecutorTypeOK, Reports
  <2>5. Reported'
    <3>1. reports'[1] = [task |-> 0, ok |-> TRUE, timeout |-> FALSE]
      BY <2>2
    <3>2. reports'[1].task = 0 /\ reports'[1].ok /\ ~reports'[1].timeout
      BY <3>1
    <3>3. TrueReport(1)'
      BY <1>1, <2>1, <2>3, <3>2 DEF TrueReport
    <3> QED BY <2>3, <3>3 DEF Reported
  <2>6. Progress'
    <3>1. \E k \in 1..Len(reports') : reports'[k].ok
      BY <2>3
    <3> QED BY <1>1, <2>1, <2>3, <3>1 DEF Progress, Mapping
  <2>7. Waited'
    <3>1. \A i : Heard(i)' => i = 0
      BY <2>2, <2>3 DEF Heard
    <3> QED BY <2>1, <3>1 DEF ExecutorInv, Waited, Speculative
  <2> QED BY <2>1, <2>4, <2>5, <2>6, <2>7 DEF ExecutorInv
<1>2. CASE Primary /\ reports' = reports /\ at' = "submitting"
  <2>1. /\ mode = "fallback" /\ UNCHANGED <<mode, task, done, expired, late, reports>>
        /\ reports = <<>>
    BY <1>2 DEF Primary, ExecutorInv, Progress
  <2>2. Reported' /\ Waited'
    BY <1>2, <2>1, SilentStep DEF Primary
  <2> QED BY <1>2, <2>1, <2>2 DEF ExecutorInv, ExecutorTypeOK, Progress, In
<1>3. CASE Submit
  <2>1. PICK i \in In({"new"}) : task' = [task EXCEPT ![i] = "queued"]
    BY <1>3 DEF Submit
  <2>2. /\ at = "submitting" /\ UNCHANGED <<mode, at, reports, done, expired, late>> /\ Room
        /\ i \in TaskId /\ task[i] = "new"
    BY <1>3 DEF Submit, In
  <2>3. Reported' /\ Waited'
    BY <2>1, <2>2, SilentStep DEF ExecutorInv, ExecutorTypeOK, Over, Threw
  <2>4. ExecutorTypeOK'
    BY <2>1, <2>2 DEF ExecutorInv, ExecutorTypeOK
  <2>5. mode = "submit" => Cardinality(In({"queued"}))' <= MaxQueue
    <3>1. In({"queued"})' = In({"queued"}) \union {i}
      BY <2>1, <2>2 DEF In, ExecutorInv, ExecutorTypeOK
    <3>2. IsFiniteSet(In({"queued"})) /\ Cardinality(In({"queued"})) \in Nat
      BY InFinite
    <3>3. Cardinality(In({"queued"}) \union {i}) <= Cardinality(In({"queued"})) + 1
      BY <3>2, FS_AddElement
    <3>4. Cardinality(In({"queued"}) \union {i}) \in Nat
      BY <3>2, FS_AddElement, FS_CardinalityType
    <3> QED BY <2>2, <3>1, <3>2, <3>3, <3>4, ExecutorAssumption DEF Room
  <2> QED BY <2>2, <2>3, <2>4, <2>5 DEF ExecutorInv, Progress
<1>4. CASE Submitted
  <2>1. /\ at = "submitting" /\ UNCHANGED <<mode, task, reports, done, expired, late>>
        /\ In({"new"}) = {} /\ at' = IF mode = "submit" THEN "leaving" ELSE "collecting"
        /\ In({"new"})' = In({"new"}) /\ In({"queued"})' = In({"queued"})
    BY <1>4 DEF Submitted, In
  <2>2. Reported' /\ Waited'
    BY <2>1, SilentStep
  <2> QED BY <2>1, <2>2 DEF ExecutorInv, ExecutorTypeOK, Progress, Mapping, Speculative
<1> QED BY <1>1, <1>2, <1>3, <1>4 DEF Primary

LEMMA ThreadsWork ==
  ASSUME ExecutorInv, StartTask \/ EndTask
  PROVE  ExecutorInv'
<1>1. /\ UNCHANGED <<mode, at, reports, done, expired, late>>
      /\ \E i \in TaskId, s \in {"running"} \union Over :
           /\ task[i] = "queued" \/ (task[i] = "running" /\ s # "running")
           /\ task' = [task EXCEPT ![i] = s]
  BY DEF StartTask, EndTask, In, Over, Threw
<1>2. PICK i \in TaskId, s \in {"running"} \union Over :
        /\ task[i] = "queued" \/ (task[i] = "running" /\ s # "running")
        /\ task' = [task EXCEPT ![i] = s]
  BY <1>1
<1>3. task \in [TaskId -> {"new", "queued", "running", "cancelled"} \union Over]
  BY DEF ExecutorInv, ExecutorTypeOK
<1>4. ExecutorTypeOK'
  BY <1>1, <1>2, <1>3 DEF ExecutorInv, ExecutorTypeOK, Over, Threw
<1>5. Reported' /\ Waited'
  BY <1>1, <1>2, <1>3, SilentStep DEF Over, Threw
<1>6. /\ In({"new"})' \subseteq In({"new"}) /\ In({"queued"})' \subseteq In({"queued"})
      /\ In({"queued"}) = {} => In({"running"})' \subseteq In({"running"})
  BY <1>2, <1>3 DEF In, Over, Threw
<1>7. Progress'
  <2>1. at = "returned" /\ Mapping => In({"queued"}) = {}
    BY DEF ExecutorInv, Progress, Mapping, PrimaryWon
  <2> QED BY <1>1, <1>6, <2>1 DEF ExecutorInv, Progress, Mapping, Speculative, PrimaryWon
<1>8. /\ Cardinality(In({"queued"})') <= Cardinality(In({"queued"}))
      /\ Cardinality(In({"queued"})') \in Nat
  BY <1>6, InFinite, FS_Subset, FS_CardinalityType
<1>9. mode' = "submit" => Cardinality(In({"queued"})') <= MaxQueue
  BY <1>1, <1>8, InFinite, ExecutorAssumption DEF ExecutorInv
<1> QED BY <1>4, <1>5, <1>7, <1>9 DEF ExecutorInv

-----------------------------------------------------------------------------
LEMMA MapsCollect ==
  ASSUME ExecutorInv, CollectNext \/ CollectAny \/ Collected
  PROVE  ExecutorInv'
<1>1. /\ at = "collecting" /\ Mapping /\ UNCHANGED <<mode, task, done, expired, late>>
      /\ mode # "submit" /\ ~Speculative /\ In({"new"})' = In({"new"}) /\ In({"new"}) = {}
      /\ done = {} /\ late = {}
  BY DEF CollectNext, CollectAny, Collected, Mapping, Speculative, ExecutorInv, Progress, In,
         Waited
<1>2. CASE CollectNext
  <2> DEFINE i == Len(reports) + 1
  <2>1. Len(reports) \in Nat /\ DOMAIN reports = 1..Len(reports)
    BY LenProperties DEF ExecutorInv, ExecutorTypeOK
  <2>2. i \in TaskId /\ at' = at /\ mode = "ordered"
    BY <1>2, <2>1, ExecutorAssumption DEF CollectNext, TaskId
  <2>3. ~Heard(i)
    <3>1. \A k \in 1..Len(reports) : reports[k].task = k
      BY <2>2 DEF ExecutorInv, Reported, TrueReport
    <3> QED BY <2>1, <3>1 DEF Heard
  <2>4. PICK r \in Reports :
          /\ reports' = Append(reports, r) /\ r.task = i
          /\ ~r.timeout => task[i] \in Over
          /\ r.ok => task[i] \in {"good", "poor"}
    <3>1. CASE task[i] \in Over \ Threw /\ reports' = Report(i, TRUE, FALSE)
      BY <2>2, <3>1, WhatReportsSay DEF Over
    <3>2. CASE task[i] = "failed" /\ reports' = Report(i, FALSE, FALSE)
      BY <2>2, <3>2, WhatReportsSay DEF Over, Threw
    <3>3. CASE reports' = Report(i, FALSE, TRUE)
      BY <2>2, <3>3, WhatReportsSay
    <3> QED BY <1>2, <3>1, <3>2, <3>3 DEF CollectNext
  <2>5. Reported' /\ Waited' /\ reports' \in Seq(Reports)
    BY <1>1, <2>2, <2>3, <2>4, ReportStep
  <2> QED BY <1>1, <2>2, <2>5 DEF ExecutorInv, ExecutorTypeOK, Reports, Progress
<1>3. CASE CollectAny
  <2>1. PICK i \in In(Over) : ~Heard(i) /\ reports' = Report(i, task[i] \notin Threw, FALSE)
    BY <1>3 DEF CollectAny
  <2>2. i \in TaskId /\ task[i] \in Over /\ at' = at /\ mode = "unordered"
    BY <1>3 DEF CollectAny, In
  <2>3. PICK r \in Reports :
          /\ reports' = Append(reports, r) /\ r.task = i /\ ~r.timeout
          /\ r.ok => task[i] \in {"good", "poor"}
    <3>1. CASE task[i] \in Threw
      <4>1. reports' = Report(i, FALSE, FALSE)
        BY <2>1, <3>1
      <4> QED BY <2>2, <4>1, WhatReportsSay
    <3>2. CASE task[i] \notin Threw
      <4>1. reports' = Report(i, TRUE, FALSE)
        BY <2>1, <3>2
      <4> QED BY <2>2, <3>2, <4>1, WhatReportsSay DEF Over
    <3> QED BY <3>1, <3>2
  <2>4. Reported' /\ Waited' /\ reports' \in Seq(Reports)
    BY <1>1, <2>1, <2>2, <2>3, ReportStep
  <2> QED BY <1>1, <2>2, <2>4 DEF ExecutorInv, ExecutorTypeOK, Reports, Progress
<1>4. CASE Collected
  <2>1. UNCHANGED reports /\ at' = "leaving" /\ Len(reports) = Tasks
    BY <1>4 DEF Collected
  <2>2. Reported' /\ Waited'
    BY <1>1, <2>1, SilentStep
  <2> QED BY <1>1, <2>1, <2>2 DEF ExecutorInv, ExecutorTypeOK, Progress, Mapping, Speculative
<1> QED BY <1>2, <1>3, <1>4

LEMMA SpeculationGoes ==
  ASSUME ExecutorInv, Wait \/ TakeBranch \/ NoBranch \/ Expire
  PROVE  ExecutorInv'
<1>1. /\ at = "collecting" /\ Speculative /\ UNCHANGED mode /\ mode # "submit"
      /\ ~Mapping /\ In({"new"}) = {}
  BY DEF Wait, TakeBranch, NoBranch, Expire, Speculating, Speculative, Mapping, ExecutorInv, Progress
<1>2. task \in [TaskId -> {"new", "queued", "running", "cancelled"} \union Over]
  BY DEF ExecutorInv, ExecutorTypeOK
<1>3. CASE TakeBranch
  <2>1. PICK i \in done :
          /\ reports' = Report(i, GoodEnough(i), FALSE)
          /\ done' = IF GoodEnough(i) THEN {} ELSE done \ {i}
          /\ IF GoodEnough(i) THEN at' = "leaving" /\ task' = Dropped({"queued"})
                              ELSE UNCHANGED <<at, task>>
    BY <1>3 DEF TakeBranch, Takeable
  <2>2. /\ i \in TaskId /\ task[i] \in Over /\ ~Heard(i) /\ i \notin late
        /\ UNCHANGED <<expired, late>> /\ done' \subseteq done \ {i}
        /\ done' \subseteq TaskId
    BY <1>3, <2>1 DEF TakeBranch, ExecutorInv, ExecutorTypeOK, Waited
  <2>3. CASE GoodEnough(i)
    <3>1. /\ at' = "leaving" /\ task[i] = "good"
          /\ task' = [j \in TaskId |-> IF task[j] = "queued" THEN "cancelled" ELSE task[j]]
      BY <2>1, <2>3 DEF GoodEnough, Dropped
    <3>2. PICK r \in Reports :
            reports' = Append(reports, r) /\ r.task = i /\ ~r.timeout /\ r.ok
      <4>1. reports' = Report(i, TRUE, FALSE)
        BY <2>1, <2>3 DEF GoodEnough
      <4> QED BY <2>2, <4>1, WhatReportsSay
    <3>3. /\ \A j \in TaskId : task[j] \in Over => task'[j] = task[j]
          /\ task' \in [TaskId -> {"new", "queued", "running", "cancelled"} \union Over]
          /\ In({"new"})' = {}
      BY <1>1, <1>2, <3>1 DEF Over, Threw, In
    <3>4. /\ Reported' /\ Waited' /\ reports' \in Seq(Reports) /\ Len(reports) \in Nat
          /\ Len(reports') = Len(reports) + 1 /\ reports'[Len(reports) + 1] = r
      BY <1>1, <2>1, <2>2, <3>1, <3>2, <3>3, ReportStep DEF Mapping
    <3>5. \E k \in 1..Len(reports') : reports'[k].ok
      BY <3>2, <3>4
    <3> QED BY <1>1, <2>2, <3>1, <3>3, <3>4, <3>5
            DEF ExecutorInv, ExecutorTypeOK, Reports, Progress, Mapping
  <2>4. CASE ~GoodEnough(i)
    <3>1. UNCHANGED <<at, task>> /\ reports' = Report(i, FALSE, FALSE)
      BY <2>1, <2>4 DEF GoodEnough
    <3>2. PICK r \in Reports :
            reports' = Append(reports, r) /\ r.task = i /\ ~r.timeout /\ ~r.ok
      BY <2>2, <3>1, WhatReportsSay
    <3>3. Reported' /\ Waited' /\ reports' \in Seq(Reports)
      BY <1>1, <2>1, <2>2, <3>1, <3>2, ReportStep DEF Mapping
    <3> QED BY <1>1, <2>2, <3>1, <3>3
            DEF ExecutorInv, ExecutorTypeOK, Reports, Progress, In
  <2> QED BY <2>3, <2>4
<1>4. CASE NoBranch
  <2>1. /\ UNCHANGED <<task, reports, done, expired, late>> /\ at' = "leaving"
        /\ Len(reports) = Tasks \/ expired
    BY <1>4 DEF NoBranch
  <2>2. Reported' /\ Waited' /\ In({"new"})' = {}
    BY <1>1, <2>1, SilentStep DEF In
  <2> QED BY <1>1, <2>1, <2>2 DEF ExecutorInv, ExecutorTypeOK, Progress, Mapping
<1>5. CASE Wait \/ Expire
  <2>1. /\ UNCHANGED <<at, task, reports>> /\ expired' \in BOOLEAN
        /\ done' \subseteq TaskId /\ late' \subseteq TaskId
    BY <1>5 DEF Wait, Expire, Ended, In, ExecutorInv, ExecutorTypeOK
  <2>2. Reported' /\ Waited' /\ In({"new"})' = {}
    BY <1>1, <1>5, <2>1, SilentStep DEF In
  <2> QED BY <1>1, <2>1, <2>2 DEF ExecutorInv, ExecutorTypeOK, Progress
<1> QED BY <1>3, <1>4, <1>5

LEMMA PoolIsLeft == ExecutorInv /\ LeavePool => ExecutorInv'
<1> SUFFICES ASSUME ExecutorInv, LeavePool PROVE ExecutorInv'
  OBVIOUS
<1>1. /\ at = "leaving" /\ at' = "returned" /\ UNCHANGED <<mode, reports, done, expired, late>>
      /\ task \in [TaskId -> {"new", "queued", "running", "cancelled"} \union Over]
      /\ PrimaryWon' = PrimaryWon
  BY DEF LeavePool, ExecutorInv, ExecutorTypeOK, PrimaryWon
<1>2. CASE Speculative
  <2>1. task' = [i \in TaskId |-> IF task[i] = "queued" THEN "cancelled" ELSE task[i]]
    BY <1>2 DEF LeavePool, ShutDown, Speculative, Dropped
  <2>2. /\ In({"queued"})' = {} /\ In({"new"})' = In({"new"})
        /\ \A i \in TaskId : task[i] \in Over => task'[i] = task[i]
        /\ task' \in [TaskId -> {"new", "queued", "running", "cancelled"} \union Over]
    BY <1>1, <2>1 DEF In, Over, Threw
  <2>3. Reported' /\ Waited'
    BY <1>1, <2>2, SilentStep
  <2>4. ~Mapping /\ mode # "submit"
    BY <1>2 DEF Mapping, Speculative
  <2> QED BY <1>1, <2>2, <2>3, <2>4
          DEF ExecutorInv, ExecutorTypeOK, Progress, Mapping, Speculative
<1>3. CASE ~Speculative
  <2>1. task' = task /\ In({"queued", "running"}) = {}
    BY <1>3 DEF LeavePool, ShutDown, Speculative
  <2>2. In({"queued"})' = {} /\ In({"running"})' = {} /\ In({"new"})' = In({"new"})
    BY <2>1 DEF In
  <2>3. Reported' /\ Waited'
    BY <1>1, <2>1, SilentStep
  <2>4. Cardinality(In({"queued"})') <= MaxQueue
    BY <2>2, FS_EmptySet, ExecutorAssumption
  <2> QED BY <1>1, <1>3, <2>1, <2>2, <2>3, <2>4
          DEF ExecutorInv, ExecutorTypeOK, Progress, Mapping, Speculative
<1> QED BY <1>2, <1>3

LEMMA NextExecutor == ExecutorInv /\ [ExecutorNext]_executorVars => ExecutorInv'
<1> SUFFICES ASSUME ExecutorInv, [ExecutorNext]_executorVars PROVE ExecutorInv'
  OBVIOUS
<1>1. CASE UNCHANGED executorVars
  <2>1. UNCHANGED <<mode, at, task, reports, done, expired, late>>
    BY <1>1 DEF executorVars
  <2>2. Reported' /\ Waited'
    BY <2>1, SilentStep
  <2> QED BY <2>1, <2>2
          DEF ExecutorInv, ExecutorTypeOK, Progress, Mapping, Speculative, PrimaryWon, In
<1> QED BY <1>1, CallerStarts, ThreadsWork, MapsCollect, SpeculationGoes, PoolIsLeft
        DEF ExecutorNext

\* As many reports of different tasks as there are tasks: none is left out.
LEMMA AllHeard ==
  ASSUME ExecutorInv, Len(reports) = Tasks, \A k \in 1..Len(reports) : reports[k].task # 0
  PROVE  \A i \in TaskId : \E k \in 1..Len(reports) : reports[k].task = i
<1> DEFINE f == [k \in 1..Tasks |-> reports[k].task]
<1>1. \A k \in 1..Tasks : reports[k] \in Reports
  BY ElementOfSeq DEF ExecutorInv, ExecutorTypeOK, Reports
<1>2. f \in Injection(1..Tasks, TaskId)
  BY <1>1 DEF Reports, Injection, IsInjective, ExecutorInv, Reported
<1>3. IsFiniteSet(TaskId) /\ TaskId = 1..Tasks
  BY ExecutorAssumption, FS_Interval DEF TaskId
<1> HIDE DEF f
<1>4. f \in Surjection(1..Tasks, TaskId)
  BY <1>2, <1>3, FS_Injection
<1> USE DEF f
<1> QED BY <1>4 DEF Surjection

\* parallel_executor.py and speculative.py: whatever the tasks do, in whatever
\* order the threads take and end them and whenever the deadline passes, what
\* the caller is told is true and whole, and no queue is overfilled.
THEOREM ReportsAreTrueAlways == ExecutorSpec => []ReportsAreTrue
<1>1. ASSUME ExecutorInv PROVE ReportsAreTrue
  <2>1. /\ Len(reports) \in Nat /\ DOMAIN reports = 1..Len(reports)
    BY <1>1, LenProperties DEF ExecutorInv, ExecutorTypeOK
  <2>2. ASSUME NEW k \in DOMAIN reports
        PROVE  LET r == reports[k] IN
               /\ r.task # 0 /\ ~r.timeout => task[r.task] \in Over
               /\ r.ok /\ r.task # 0 => task[r.task] \in {"good"} \union
                    (IF mode \in {"branches", "fallback"} THEN {} ELSE {"poor"})
               /\ r.task \notin late
               /\ mode = "ordered" => r.task = k
               /\ mode \in {"branches", "fallback"} /\ r.ok => k = Len(reports)
    BY <1>1, <2>1 DEF ExecutorInv, Reported, TrueReport, Speculative
  <2>3. ASSUME at = "returned"
        PROVE  /\ In({"new", "queued"}) = {} \/ (mode = "fallback" /\ reports[1].task = 0)
               /\ mode \in {"ordered", "unordered"} =>
                    Len(reports) = Tasks /\ In({"running"}) = {}
    BY <1>1, <2>3 DEF ExecutorInv, Progress, PrimaryWon, Mapping, In
  <2>4. ASSUME at = "returned", Speculative, \A k \in DOMAIN reports : ~reports[k].ok, ~expired
        PROVE  In(Over) = TaskId
    <3>1. Len(reports) = Tasks
      BY <1>1, <2>1, <2>4 DEF ExecutorInv, Progress
    <3>2. ASSUME NEW k \in 1..Len(reports)
          PROVE  reports[k].task # 0 /\ task[reports[k].task] \in Over
      <4>1. TrueReport(k) /\ ~reports[k].ok
        BY <1>1, <2>1, <2>4 DEF ExecutorInv, Reported
      <4>2. ~PrimaryWon
        <5>1. PrimaryWon => Len(reports) = 1 /\ reports[1].ok
          BY DEF PrimaryWon
        <5> QED BY <2>1, <2>4, <5>1
      <4> QED BY <2>4, <4>1, <4>2 DEF TrueReport
    <3>3. \A i \in TaskId : \E k \in 1..Len(reports) : reports[k].task = i
      BY <1>1, <3>1, <3>2, AllHeard
    <3> QED BY <3>2, <3>3 DEF In
  <2>5. \A k, l \in DOMAIN reports : reports[k].task = reports[l].task => k = l
    BY <1>1, <2>1 DEF ExecutorInv, Reported
  <2>6. mode = "submit" => Cardinality(In({"queued"})) <= MaxQueue
    BY <1>1 DEF ExecutorInv
  <2> QED BY <2>2, <2>3, <2>4, <2>5, <2>6 DEF ReportsAreTrue, Speculative
<1> QED BY <1>1, InitExecutor, NextExecutor, PTL DEF ExecutorSpec
-----------------------------------------------------------------------------
(* Any skills with any dependencies: the waves are the layers of the         *)
(* dependency graph.  While they are composed, an in-degree counts the       *)
(* dependencies that are in no wave yet, and the ready skills are those that *)
(* have none left and wait for a member of the last wave.                    *)

Requested == hub \notin {"new", "failed", "loaded"}
Scheduled == {"cycle", "running", "raised", "done"}
Result == {"none", "refused", "NameError", "ok", "failed", "timed out"}
Worker == [skill : Skill, builtins : SUBSET {"open", "exec", "eval", "compile"},
           payload : {"answers", "breaks"}]

HubTypeOK ==
  /\ hub \in {"new", "failed", "loaded", "expanding", "composing"} \union Scheduled
  /\ Loaded \subseteq Skill
  /\ \A s \in Loaded : skills[s] \subseteq Loaded
  /\ queue \subseteq Loaded /\ expanded \subseteq Loaded
  /\ waves \in Seq(SUBSET expanded)
  /\ results \in [Skill -> Result]
  /\ worker \in Worker \union {NoWorker}

\* Expansion.
Closing ==
  /\ hub \in {"new", "failed"} => Loaded = {}
  /\ hub \in {"new", "failed", "loaded"} => expanded = {}
  /\ \A s \in expanded : skills[s] \subseteq expanded \union queue
  /\ hub \in {"composing"} \union Scheduled => queue = {}

\* s is in one wave, the first after those of its dependencies.
WaveOf(s, i) ==
  /\ \A j \in DOMAIN waves : s \in waves[j] => i = j
  /\ i > 1 => skills[s] \intersect waves[i - 1] # {}
  /\ \A d \in skills[s] : \E j \in 1..(i - 1) : d \in waves[j]

Layered == \A i \in DOMAIN waves : \A s \in waves[i] : WaveOf(s, i)

\* Composition under way.
Counting ==
  /\ \A s \in expanded : indegree[s] = Cardinality(skills[s] \ Processed)
  /\ ready = {s \in expanded \ Processed : skills[s] \subseteq Processed}
  /\ waves # <<>> => \A s \in ready : skills[s] \intersect waves[Len(waves)] # {}

\* Composition ended: nothing that is left could be taken.
Exhausted ==
  /\ \A s \in expanded \ Processed : ~(skills[s] \subseteq Processed)
  /\ (hub = "cycle") = (expanded \ Processed # {})

\* The waves before the next one were invoked, none after it.
Invoking ==
  /\ next \in Nat \ {0}
  /\ hub # "running" => worker = NoWorker
  /\ worker # NoWorker => next \in DOMAIN waves /\ worker.skill \in waves[next]
  /\ \A k \in DOMAIN waves : k < next => \A s \in waves[k] : results[s] # "none"
  /\ \A s \in Skill : results[s] # "none" =>
       \E k \in DOMAIN waves : k <= next /\ s \in waves[k]

WavesInv ==
  /\ HubTypeOK /\ Closing
  /\ hub \in {"new", "failed", "loaded", "expanding"} => waves = <<>>
  /\ hub \in {"new", "failed", "loaded", "expanding", "composing"} =>
       next = 1 /\ \A s \in Skill : results[s] = "none"
  /\ Layered
  /\ hub = "composing" => Counting
  /\ hub \in Scheduled => Exhausted
  /\ Invoking

-----------------------------------------------------------------------------
LEMMA InitWaves == SkillInit => WavesInv
<1> SUFFICES ASSUME SkillInit PROVE WavesInv
  OBVIOUS
<1>1. waves = <<>> /\ DOMAIN waves = {} /\ Loaded = {} /\ waves \in Seq(SUBSET expanded)
  BY EmptySeq DEF SkillInit, Loaded
<1>2. HubTypeOK
  <2>1. results \in [Skill -> Result]
    BY DEF SkillInit, Result
  <2>2. hub = "new" /\ queue = {} /\ expanded = {} /\ worker = NoWorker
    BY DEF SkillInit
  <2> QED BY <1>1, <2>1, <2>2 DEF HubTypeOK
<1> QED
  BY <1>1, <1>2 DEF SkillInit, WavesInv, Closing, Layered, Invoking, Scheduled

\* The wave facts only look at the dependencies and the waves.
LEMMA SameWaves ==
  ASSUME WavesInv, UNCHANGED <<skills, waves, expanded>>
  PROVE  Layered' /\ Processed' = Processed
BY DEF WavesInv, Layered, WaveOf, Processed

LEMMA ExpansionSteps ==
  ASSUME WavesInv, Discover \/ RunWaves \/ Expand
  PROVE  WavesInv'
<1>1. /\ UNCHANGED <<waves, next, results, worker>>
      /\ hub \in {"new", "loaded", "expanding"}
      /\ hub' \in {"loaded", "failed", "expanding"}
  BY DEF Discover, RunWaves, Expand
<1>2. /\ waves = <<>> /\ DOMAIN waves = {}
      /\ next = 1 /\ \A s \in Skill : results[s] = "none"
      /\ worker = NoWorker
  BY <1>1, EmptySeq DEF WavesInv, Invoking
<1>3. HubTypeOK' /\ Closing'
  <2>1. CASE Discover
    <3>1. /\ UNCHANGED <<queue, expanded>> /\ expanded = {} /\ Loaded = {} /\ queue = {}
      BY <2>1 DEF Discover, WavesInv, Closing, HubTypeOK
    <3> QED BY <1>1, <1>2, <2>1, <3>1 DEF Discover, WavesInv, Closing, HubTypeOK, Loaded, Found, DependencyFailures, Scheduled
  <2>2. CASE RunWaves
    BY <1>1, <1>2, <2>2 DEF RunWaves, WavesInv, Closing, HubTypeOK, Loaded, Scheduled
  <2>3. CASE Expand
    <3> DEFINE s == CHOOSE q \in queue : TRUE
    <3>1. s \in queue /\ s \in Loaded
      BY <2>3 DEF Expand, WavesInv, HubTypeOK
    <3>2. /\ expanded' = expanded \union {s}
          /\ queue' = (queue \union (skills[s] \intersect Loaded)) \ expanded'
          /\ UNCHANGED <<hub, skills>>
      BY <2>3 DEF Expand
    <3>3. \A u \in expanded : skills[u] \subseteq expanded \union queue
      BY DEF WavesInv, Closing
    <3>4. skills[s] \subseteq Loaded
      BY <3>1 DEF WavesInv, HubTypeOK
    <3> HIDE DEF s
    <3>5. Closing'
      BY <1>1, <2>3, <3>1, <3>2, <3>3, <3>4 DEF Expand, Closing, Scheduled
    <3>6. HubTypeOK'
      BY <1>1, <1>2, <3>1, <3>2, EmptySeq DEF WavesInv, HubTypeOK, Loaded
    <3> QED BY <3>5, <3>6
  <2> QED BY <2>1, <2>2, <2>3
<1>4. Layered' /\ Invoking'
  BY <1>1, <1>2 DEF Layered, Invoking, WavesInv
<1> QED
  BY <1>1, <1>2, <1>3, <1>4 DEF WavesInv, Scheduled

LEMMA ComposeStep ==
  ASSUME WavesInv, Compose
  PROVE  WavesInv'
<1>1. /\ UNCHANGED <<skills, queue, expanded, waves, next, results, worker>>
      /\ hub = "expanding" /\ queue = {} /\ hub' = "composing"
  BY DEF Compose
<1>2. waves = <<>> /\ DOMAIN waves = {} /\ Processed = {} /\ Processed' = {}
  BY <1>1, EmptySeq DEF WavesInv, Processed
<1>3. Counting'
  BY <1>1, <1>2 DEF Compose, Counting, WavesInv, HubTypeOK
<1>4. HubTypeOK' /\ Closing'
  BY <1>1 DEF WavesInv, HubTypeOK, Closing, Loaded, Scheduled
<1>5. Layered' /\ Invoking'
  BY <1>1, <1>2 DEF Layered, WavesInv, Invoking
<1> QED
  BY <1>1, <1>3, <1>4, <1>5 DEF WavesInv, Scheduled

LEMMA NextWaveStep ==
  ASSUME WavesInv, NextWave
  PROVE  WavesInv'
<1> DEFINE n == Len(waves)
<1>1. /\ UNCHANGED <<hub, skills, queue, expanded, next, results, worker>>
      /\ hub = "composing" /\ waves' = Append(waves, ready)
      /\ indegree' = Decremented /\ ready' = NextReady
  BY DEF NextWave
<1>2. /\ HubTypeOK /\ Closing /\ Counting /\ Layered /\ Invoking
      /\ waves \in Seq(SUBSET expanded) /\ ready \in SUBSET expanded
      /\ expanded \subseteq Skill
  BY <1>1 DEF WavesInv, Counting, HubTypeOK
<1>3. /\ waves' \in Seq(SUBSET expanded)
      /\ n \in Nat /\ DOMAIN waves = 1..n /\ DOMAIN waves' = 1..(n + 1)
      /\ Len(waves') = n + 1 /\ waves' # <<>>
      /\ \A i \in 1..n : waves'[i] = waves[i]
      /\ waves'[n + 1] = ready
  BY <1>1, <1>2, AppendProperties, LenProperties, EmptySeq
<1>4. Processed' = Processed \union ready
  <2>1. Processed' \subseteq Processed \union ready
    BY <1>3 DEF Processed
  <2>2. ready \subseteq Processed'
    BY <1>3 DEF Processed
  <2>3. Processed \subseteq Processed'
    BY <1>3 DEF Processed
  <2> QED BY <2>1, <2>2, <2>3
<1>5. \A s \in ready : s \notin Processed /\ skills[s] \subseteq Processed
  BY <1>2 DEF Counting
<1>6. \A s \in Processed : skills[s] \subseteq Processed
  <2> SUFFICES ASSUME NEW s \in Processed, NEW d \in skills[s] PROVE d \in Processed
    OBVIOUS
  <2>1. PICK i \in 1..n : s \in waves[i]
    BY <1>3 DEF Processed
  <2>2. PICK j \in 1..(i - 1) : d \in waves[j]
    BY <1>2, <1>3, <2>1 DEF Layered, WaveOf
  <2> QED BY <1>3, <2>1, <2>2 DEF Processed
<1>7. \A s \in expanded : IsFiniteSet(skills[s]) /\ skills[s] \subseteq expanded
  <2> SUFFICES ASSUME NEW s \in expanded PROVE IsFiniteSet(skills[s]) /\ skills[s] \subseteq expanded
    OBVIOUS
  <2>1. skills[s] \in SUBSET Skill /\ skills[s] \subseteq expanded
    BY <1>1, <1>2 DEF HubTypeOK, Closing
  <2> QED BY <2>1, SkillAssumption, FS_Subset
<1>8. ASSUME NEW s \in expanded
      PROVE  /\ Decremented[s] = Cardinality(skills[s] \ Processed')
             /\ indegree[s] > 0 <=> ~(skills[s] \subseteq Processed)
             /\ Decremented[s] = 0 <=> skills[s] \subseteq Processed'
  <2> DEFINE W == skills[s] \ Processed
             V == skills[s] \ Processed'
  <2>1. IsFiniteSet(W) /\ IsFiniteSet(V)
    BY <1>7, FS_Difference
  <2>2. indegree[s] = Cardinality(W) /\ Cardinality(W) \in Nat /\ Cardinality(V) \in Nat
    BY <1>2, <2>1, FS_CardinalityType DEF Counting
  <2>3. skills[s] \intersect ready = W \intersect ready /\ V = W \ ready
    BY <1>4, <1>5
  <2>4. Cardinality(V) = Cardinality(W) - Cardinality(W \intersect ready)
    <3> HIDE DEF W
    <3> QED BY <2>1, <2>3, FS_Difference
  <2>5. Decremented[s] = Cardinality(V)
    BY <1>2, <2>2, <2>3, <2>4 DEF Decremented
  <2>6. /\ Cardinality(W) = 0 <=> W = {}
        /\ Cardinality(V) = 0 <=> V = {}
    <3> HIDE DEF W, V
    <3> QED BY <2>1, FS_EmptySet
  <2> QED BY <2>2, <2>5, <2>6
<1>9. ready' = {s \in expanded \ Processed' : skills[s] \subseteq Processed'}
  <2>1. ASSUME NEW s \in expanded
        PROVE  s \in NextReady <=> s \notin Processed' /\ skills[s] \subseteq Processed'
    <3>1. s \in NextReady <=> ~(skills[s] \subseteq Processed) /\ skills[s] \subseteq Processed'
      BY <1>8 DEF NextReady
    <3>2. s \in Processed' => skills[s] \subseteq Processed
      BY <1>4, <1>5, <1>6
    <3>3. s \notin Processed' => s \notin ready /\ s \notin Processed
      BY <1>4
    <3>4. s \notin Processed' => ~(skills[s] \subseteq Processed)
      BY <1>2, <3>3 DEF Counting
    <3> QED BY <3>1, <3>2, <3>4
  <2> QED BY <1>1, <2>1 DEF NextReady
<1>10. \A s \in ready' : skills[s] \intersect ready # {}
  BY <1>1, <1>4, <1>8 DEF NextReady
<1>11. Counting'
  <2>1. \A s \in expanded' : indegree'[s] = Cardinality(skills'[s] \ Processed')
    BY <1>1, <1>8
  <2> QED BY <1>1, <1>3, <1>9, <1>10, <2>1 DEF Counting
<1>12. Layered'
  <2> SUFFICES ASSUME NEW i \in 1..(n + 1), NEW s \in waves'[i]
               PROVE  /\ \A j \in 1..(n + 1) : s \in waves'[j] => i = j
                      /\ i > 1 => skills[s] \intersect waves'[i - 1] # {}
                      /\ \A d \in skills[s] : \E j \in 1..(i - 1) : d \in waves'[j]
    BY <1>1, <1>3 DEF Layered, WaveOf
  <2>1. CASE i \in 1..n
    <3>1. s \in waves[i] /\ s \in Processed /\ s \notin ready
      BY <1>3, <1>5, <2>1 DEF Processed
    <3>2. /\ \A j \in 1..n : s \in waves[j] => i = j
          /\ i > 1 => skills[s] \intersect waves[i - 1] # {}
          /\ \A d \in skills[s] : \E j \in 1..(i - 1) : d \in waves[j]
      BY <1>2, <1>3, <2>1, <3>1 DEF Layered, WaveOf
    <3>3. \A j \in 1..(i - 1) : j \in 1..n /\ waves'[j] = waves[j]
      BY <1>3, <2>1
    <3>4. i > 1 => waves'[i - 1] = waves[i - 1]
      BY <3>3, <2>1
    <3> QED BY <1>3, <2>1, <3>1, <3>2, <3>3, <3>4
  <2>2. CASE i = n + 1
    <3>1. s \in ready /\ s \notin Processed
      BY <1>3, <1>5, <2>2
    <3>2. \A j \in 1..n : s \notin waves[j]
      BY <1>3, <3>1 DEF Processed
    <3>3. \A d \in skills[s] : \E j \in 1..n : d \in waves[j]
      BY <1>3, <1>5, <3>1 DEF Processed
    <3>4. n > 0 => skills[s] \intersect waves[n] # {}
      BY <1>2, <1>3, <3>1, EmptySeq DEF Counting
    <3> QED BY <1>3, <2>2, <3>2, <3>3, <3>4
  <2> QED BY <1>3, <2>1, <2>2
<1>13. HubTypeOK' /\ Closing'
  BY <1>1, <1>2, <1>3 DEF HubTypeOK, Closing, Loaded
<1>14. next = 1 /\ worker = NoWorker /\ \A s \in Skill : results[s] = "none"
  BY <1>1, <1>2 DEF WavesInv, Invoking
<1>15. Invoking'
  BY <1>1, <1>14 DEF Invoking
<1> QED
  BY <1>1, <1>11, <1>12, <1>13, <1>14, <1>15 DEF WavesInv, Scheduled

LEMMA ComposedStep ==
  ASSUME WavesInv, Composed
  PROVE  WavesInv'
<1>1. /\ UNCHANGED <<skills, queue, expanded, waves, next, results, worker>>
      /\ hub = "composing" /\ ready = {}
      /\ hub' = IF expanded \ Processed # {} THEN "cycle" ELSE "running"
  BY DEF Composed
<1>2. Processed' = Processed /\ Layered'
  BY <1>1, SameWaves
<1>3. Exhausted'
  BY <1>1, <1>2 DEF WavesInv, Counting, Exhausted
<1>4. HubTypeOK' /\ Closing'
  BY <1>1 DEF WavesInv, HubTypeOK, Closing, Loaded, Scheduled
<1>5. Invoking'
  BY <1>1 DEF WavesInv, Invoking
<1> QED
  BY <1>1, <1>2, <1>3, <1>4, <1>5 DEF WavesInv, Scheduled

-----------------------------------------------------------------------------
\* Invocation leaves the waves alone.
LEMMA InvocationFrame ==
  ASSUME WavesInv, hub = "running", hub' \in {"running", "raised", "done"},
         UNCHANGED <<skills, queue, expanded, waves>>,
         results' \in [Skill -> Result], worker' \in Worker \union {NoWorker},
         Invoking'
  PROVE  WavesInv'
<1>1. Processed' = Processed /\ Layered'
  BY SameWaves
<1>2. Exhausted'
  BY <1>1 DEF WavesInv, Exhausted, Scheduled
<1>3. HubTypeOK' /\ Closing'
  BY DEF WavesInv, HubTypeOK, Closing, Loaded, Scheduled
<1> QED
  BY <1>1, <1>2, <1>3 DEF WavesInv, Scheduled

LEMMA InvokeStep ==
  ASSUME WavesInv, Invoke
  PROVE  WavesInv'
<1> DEFINE s == CHOOSE u \in Uninvoked : TRUE
<1>1. /\ UNCHANGED <<skills, queue, expanded, waves, next>>
      /\ hub = "running" /\ worker = NoWorker /\ next \in DOMAIN waves
      /\ Uninvoked # {}
  BY DEF Invoke
<1>2. s \in waves[next] /\ s \in Skill
  BY <1>1 DEF Uninvoked, WavesInv, HubTypeOK
<1>3. /\ results \in [Skill -> Result] /\ Invoking
  BY DEF WavesInv, HubTypeOK
<1>4. \/ /\ results' = [results EXCEPT ![s] = "refused"]
         /\ worker' = worker /\ hub' = hub
      \/ /\ \E payload \in {"answers", "breaks"} :
               worker' = [skill |-> s, builtins |-> {"open", "exec", "eval", "compile"},
                          payload |-> payload]
         /\ results' = results /\ hub' = hub
      \/ hub' = "raised" /\ results' = results /\ worker' = worker
  BY DEF Invoke
<1> HIDE DEF s
<1>5. CASE results' = [results EXCEPT ![s] = "refused"] /\ worker' = worker /\ hub' = hub
  <2>1. results' \in [Skill -> Result]
    BY <1>3, <1>5 DEF Result
  <2>2. Invoking'
    BY <1>1, <1>2, <1>3, <1>5 DEF Invoking
  <2> QED BY <1>1, <1>5, <2>1, <2>2, InvocationFrame
<1>6. CASE /\ \E payload \in {"answers", "breaks"} :
                worker' = [skill |-> s, builtins |-> {"open", "exec", "eval", "compile"},
                           payload |-> payload]
           /\ results' = results /\ hub' = hub
  <2>1. worker' \in Worker /\ worker'.skill = s
    BY <1>2, <1>6 DEF Worker
  <2>2. Invoking'
    BY <1>1, <1>2, <1>3, <1>6, <2>1 DEF Invoking
  <2> QED BY <1>1, <1>3, <1>6, <2>1, <2>2, InvocationFrame
<1>7. CASE hub' = "raised" /\ results' = results /\ worker' = worker
  <2>1. Invoking'
    BY <1>1, <1>3, <1>7 DEF Invoking
  <2> QED BY <1>1, <1>3, <1>7, <2>1, InvocationFrame
<1> QED BY <1>4, <1>5, <1>6, <1>7

LEMMA EndWaveStep ==
  ASSUME WavesInv, EndWave
  PROVE  WavesInv'
<1>1. /\ UNCHANGED <<skills, queue, expanded, waves, results, worker>>
      /\ hub = "running" /\ worker = NoWorker /\ next \in DOMAIN waves
      /\ Uninvoked = {} /\ next' = next + 1
      /\ hub' = IF next = Len(waves) THEN "done" ELSE "running"
  BY DEF EndWave
<1>2. \A s \in waves[next] : results[s] # "none"
  BY <1>1 DEF Uninvoked
<1>3. /\ results \in [Skill -> Result] /\ Invoking
      /\ DOMAIN waves = 1..Len(waves) /\ Len(waves) \in Nat
  BY DEF WavesInv, HubTypeOK
<1>4. Invoking'
  BY <1>1, <1>2, <1>3 DEF Invoking
<1> QED BY <1>1, <1>3, <1>4, InvocationFrame DEF WavesInv, HubTypeOK

\* The worker restricts itself, or is over, one way or another.
LEMMA WorkerSteps ==
  ASSUME WavesInv, RestrictBuiltins \/ RunPayload \/ TimeOut
  PROVE  WavesInv'
<1>1. /\ UNCHANGED <<hub, skills, queue, expanded, waves, next>>
      /\ worker # NoWorker
  BY DEF RestrictBuiltins, RunPayload, TimeOut
<1>2. /\ hub = "running" /\ next \in DOMAIN waves /\ worker.skill \in waves[next]
      /\ worker \in Worker /\ results \in [Skill -> Result] /\ Invoking
  BY <1>1 DEF WavesInv, Invoking, HubTypeOK
<1>3. CASE RestrictBuiltins
  <2>1. worker' \in Worker /\ worker'.skill = worker.skill /\ results' = results
    BY <1>2, <1>3 DEF RestrictBuiltins, Worker
  <2>2. Invoking'
    BY <1>1, <1>2, <2>1 DEF Invoking
  <2> QED BY <1>1, <1>2, <2>1, <2>2, InvocationFrame
<1>4. CASE RunPayload \/ TimeOut
  <2>1. PICK r \in Result \ {"none"} :
          results' = [results EXCEPT ![worker.skill] = r] /\ worker' = NoWorker
    BY <1>4 DEF RunPayload, TimeOut, Outcome, Result
  <2>2. results' \in [Skill -> Result] /\ worker.skill \in Skill
    BY <1>2, <2>1 DEF Worker
  <2>3. Invoking'
    BY <1>1, <1>2, <2>1, <2>2 DEF Invoking
  <2> QED BY <1>1, <1>2, <2>1, <2>2, <2>3, InvocationFrame
<1> QED BY <1>3, <1>4

LEMMA SkillNextInv == WavesInv /\ [SkillNext]_skillVars => WavesInv'
<1> SUFFICES ASSUME WavesInv, [SkillNext]_skillVars PROVE WavesInv'
  OBVIOUS
<1>1. CASE UNCHANGED skillVars
  <2>1. UNCHANGED <<hub, skills, queue, expanded, indegree, ready, waves, next, results, worker>>
    BY <1>1 DEF skillVars
  <2>2. Processed' = Processed /\ Layered'
    BY <2>1, SameWaves
  <2>3. HubTypeOK' /\ Closing' /\ Invoking'
    BY <2>1 DEF WavesInv, HubTypeOK, Closing, Invoking, Loaded
  <2>4. (hub = "composing" => Counting') /\ (hub \in Scheduled => Exhausted')
    BY <2>1, <2>2 DEF WavesInv, Counting, Exhausted
  <2> QED BY <2>1, <2>2, <2>3, <2>4 DEF WavesInv
<1> QED
  BY <1>1, ExpansionSteps, ComposeStep, NextWaveStep, ComposedStep, InvokeStep, EndWaveStep,
     WorkerSteps DEF SkillNext

-----------------------------------------------------------------------------
\* What no wave could take is exactly what is on a cycle or behind one: a set
\* each of whose members waits for a member has none in the waves, for the
\* earliest of them would wait for an earlier one still.
LEMMA LeftOverIsStuck ==
  ASSUME WavesInv, hub \in Scheduled
  PROVE  expanded \ Processed = Stuck
<1>1. Layered /\ Exhausted /\ waves \in Seq(SUBSET expanded)
      /\ \A s \in expanded : skills[s] \subseteq expanded
  BY DEF WavesInv, HubTypeOK, Closing, Scheduled
<1>2. expanded \ Processed \subseteq Stuck
  <2>1. \A s \in expanded \ Processed : skills[s] \intersect (expanded \ Processed) # {}
    BY <1>1 DEF Exhausted
  <2> QED BY <2>1 DEF Stuck
<1>3. ASSUME NEW R \in SUBSET expanded, \A s \in R : skills[s] \intersect R # {},
             R \intersect Processed # {}
      PROVE  FALSE
  <2> DEFINE T == {i \in DOMAIN waves : waves[i] \intersect R # {}}
  <2>1. DOMAIN waves = 1..Len(waves) /\ Len(waves) \in Nat
    BY <1>1
  <2>2. T \in SUBSET Nat /\ T # {}
    BY <1>3, <2>1 DEF Processed
  <2>3. PICK i \in T : \A j \in T : i <= j
    <3> HIDE DEF T
    <3> QED BY <2>2, LeastNat
  <2>4. PICK s \in waves[i] \intersect R : TRUE
    OBVIOUS
  <2>5. PICK d \in R : d \in skills[s]
    BY <1>3, <2>4
  <2>6. PICK j \in 1..(i - 1) : d \in waves[j]
    BY <1>1, <2>4, <2>5 DEF Layered, WaveOf
  <2>7. j \in T
    BY <2>1, <2>5, <2>6
  <2> QED BY <2>1, <2>3, <2>6, <2>7
<1> QED BY <1>2, <1>3 DEF Stuck

LEMMA InvImpliesExact == WavesInv => WavesAreExact
<1> SUFFICES ASSUME WavesInv PROVE WavesAreExact
  OBVIOUS
<1>1. ASSUME hub \in Scheduled
      PROVE  /\ \A s \in expanded : skills[s] \subseteq expanded
             /\ expanded \ Processed = Stuck
             /\ (hub = "cycle") = (Stuck # {})
             /\ \A i \in DOMAIN waves : \A s \in waves[i] : WaveOf(s, i)
  BY <1>1, LeftOverIsStuck DEF WavesInv, Closing, Exhausted, Layered, Scheduled
<1>2. ASSUME NEW s \in Loaded, results[s] # "none", NEW d \in skills[s]
      PROVE  results[d] # "none"
  <2>1. Layered /\ Invoking /\ DOMAIN waves = 1..Len(waves) /\ Len(waves) \in Nat /\ s \in Skill
    BY DEF WavesInv, HubTypeOK
  <2>2. PICK k \in DOMAIN waves : k <= next /\ s \in waves[k]
    BY <1>2, <2>1 DEF Invoking
  <2>3. PICK j \in 1..(k - 1) : d \in waves[j]
    BY <2>1, <2>2 DEF Layered, WaveOf
  <2> QED BY <2>1, <2>2, <2>3 DEF Invoking
<1> QED BY <1>1, <1>2 DEF WavesAreExact, Scheduled, WaveOf

\* The inductive invariant of the hub.
THEOREM WavesInvariance == SkillSpec => []WavesInv
BY InitWaves, SkillNextInv, PTL DEF SkillSpec

\* composition.py compose_waves and skill_hub.py invoke: for any number of skills and any
\* dependencies, waves hold each skill once, right after what it depends on;
\* composition fails exactly for a cycle, with exactly what is on or behind one
\* left over; no skill runs before its dependencies have.
THEOREM WavesAreExactAlways == SkillSpec => []WavesAreExact
BY WavesInvariance, InvImpliesExact, PTL
-----------------------------------------------------------------------------
(* Any number of calls, permits and retries: the breaker trips on failures   *)
(* that are recent.                                                          *)

Run == [pc : {"new", "waiting", "entering", "running", "sleeping", "ended"},
        keyed : BOOLEAN, retries : Nat, time : 0..TimeLimit]

\* A call that runs under the breaker began when no failure was out of the
\* window, and has used up so much of its time since.
Young(c) ==
  Is(c, "running") /\ run[c].keyed =>
    \A i \in 1..Len(ages) : ages[i] + run[c].time < WindowLen + TimeLimit

EngineInv ==
  /\ ages \in Seq(Nat)
  /\ openFor \in Nat
  /\ run \in [Client -> Run]
  /\ \A c \in Client : Young(c)

\* TripsOnRecent, of one step.
EngineCause ==
  openFor' > openFor =>
    Cardinality({i \in DOMAIN ages' : ages'[i] < WindowLen + TimeLimit}) >= TripAfter

LEMMA EngineConstants ==
  /\ Slots \in Nat /\ TripAfter \in Nat /\ TimeLimit \in Nat /\ TimeLimit > 0
  /\ Retries \in Nat /\ WindowLen \in Nat /\ OpenLen \in Nat
BY EngineAssumption

LEMMA PrunedFacts ==
  ASSUME NEW s \in Seq(Nat)
  PROVE  Pruned(s) \in Seq(Nat) /\ \A i \in 1..Len(Pruned(s)) : Pruned(s)[i] < WindowLen
<1> DEFINE J == {i \in DOMAIN s : s[i] < WindowLen}
<1>1. J \in SUBSET (1..Len(s)) /\ \A j \in J : s[j] < WindowLen
  BY LenProperties
<1> HIDE DEF J
<1>2. /\ Kept(s, J) \in Seq(Nat)
      /\ \A n \in 1..Len(Kept(s, J)) : \E j \in J : Kept(s, J)[n] = s[j]
  BY <1>1, FilterFacts
<1> QED BY <1>1, <1>2 DEF Pruned, J

LEMMA RunFields ==
  ASSUME NEW r \in Run
  PROVE  /\ r.pc \in {"new", "waiting", "entering", "running", "sleeping", "ended"}
         /\ r.keyed \in BOOLEAN /\ r.retries \in Nat /\ r.time \in 0..TimeLimit
BY DEF Run

LEMMA InitEngine == EngineInit => EngineInv
<1> SUFFICES ASSUME EngineInit PROVE EngineInv
  OBVIOUS
<1>1. [pc |-> "new", keyed |-> FALSE, retries |-> 0, time |-> 0] \in Run
  BY EngineConstants DEF Run
<1>2. run \in [Client -> Run] /\ \A c \in Client : ~Is(c, "running")
  BY <1>1 DEF EngineInit, Is
<1> QED BY <1>2 DEF EngineInit, EngineInv, Young

\* A step of one call that does not end running leaves the others' failures
\* young when it adds none, or one just now.
LEMMA EngineStep ==
  ASSUME EngineInv, WindowLen > 0, NEW c \in Client, NEW r \in Run,
         run' = [run EXCEPT ![c] = r], openFor' \in Nat,
         ages' = ages \/ ages' = Append(ages, 0) \/ ages' = <<>> \/ ages' = Pruned(ages),
         r.pc = "running" /\ r.keyed => ages' = Pruned(ages)
  PROVE  EngineInv'
<1>1. run' \in [Client -> Run] /\ run'[c] = r /\ \A d \in Client : d # c => run'[d] = run[d]
  BY DEF EngineInv
<1>2. /\ ages \in Seq(Nat) /\ Pruned(ages) \in Seq(Nat) /\ Append(ages, 0) \in Seq(Nat)
      /\ \A i \in 1..Len(Pruned(ages)) : Pruned(ages)[i] \in Nat /\ Pruned(ages)[i] < WindowLen
      /\ Len(Append(ages, 0)) = Len(ages) + 1 /\ Append(ages, 0)[Len(ages) + 1] = 0
      /\ Len(ages) \in Nat /\ \A i \in 1..Len(ages) : Append(ages, 0)[i] = ages[i]
  BY PrunedFacts, AppendProperties DEF EngineInv
<1>3. ASSUME NEW d \in Client, run'[d].pc = "running", run'[d].keyed, NEW i \in 1..Len(ages')
      PROVE  ages'[i] + run'[d].time < WindowLen + TimeLimit
  <2>1. run'[d].time \in 0..TimeLimit
    BY <1>1, RunFields
  <2>2. CASE ages' = Pruned(ages)
    BY <1>2, <1>3, <2>1, <2>2, EngineConstants
  <2>3. CASE ages' = <<>>
    BY <1>3, <2>3
  <2>4. CASE d # c /\ ages' = ages
    BY <1>1, <1>3, <2>4 DEF EngineInv, Young, Is
  <2>5. CASE d # c /\ ages' = Append(ages, 0)
    <3>1. CASE i = Len(ages) + 1
      BY <1>2, <2>1, <2>5, <3>1, EngineConstants
    <3>2. CASE i \in 1..Len(ages)
      BY <1>1, <1>2, <1>3, <2>5, <3>2 DEF EngineInv, Young, Is
    <3> QED BY <1>2, <1>3, <2>5, <3>1, <3>2
  <2>6. CASE d = c
    BY <1>1, <1>3, <2>2, <2>6
  <2> QED BY <2>2, <2>3, <2>4, <2>5, <2>6
<1>4. ages' \in Seq(Nat)
  <2>1. <<>> \in Seq(Nat)
    OBVIOUS
  <2> QED BY <1>2, <2>1
<1> QED BY <1>1, <1>3, <1>4 DEF EngineInv, Young, Is

LEMMA TwoChanges ==
  ASSUME NEW r \in Run, NEW l, NEW n
  PROVE  [r EXCEPT !.pc = l, !.time = n] = [pc |-> l, keyed |-> r.keyed, retries |-> r.retries, time |-> n]
<1> DEFINE s == [r EXCEPT !.pc = l]
           k == r.keyed
           i == r.retries
           j == r.time
<1>1. s = [pc |-> l, keyed |-> k, retries |-> i, time |-> j]
  BY DEF Run
<1>2. [r EXCEPT !.pc = l, !.time = n] = [s EXCEPT !.time = n]
  OBVIOUS
<1> HIDE DEF s, k, i, j
<1>3. [s EXCEPT !.time = n] = [pc |-> l, keyed |-> k, retries |-> i, time |-> n]
  BY <1>1
<1> QED BY <1>2, <1>3 DEF k, i

LEMMA ThreeChanges ==
  ASSUME NEW r \in Run, NEW l, NEW m, NEW n
  PROVE  [r EXCEPT !.pc = l, !.retries = m, !.time = n]
           = [pc |-> l, keyed |-> r.keyed, retries |-> m, time |-> n]
<1> DEFINE s == [r EXCEPT !.pc = l]
           s2 == [s EXCEPT !.retries = m]
           k == r.keyed
           i == r.retries
           j == r.time
<1>1. s = [pc |-> l, keyed |-> k, retries |-> i, time |-> j]
  BY DEF Run
<1>2. [r EXCEPT !.pc = l, !.retries = m, !.time = n] = [s2 EXCEPT !.time = n]
  OBVIOUS
<1> HIDE DEF s, k, i, j
<1>3. s2 = [pc |-> l, keyed |-> k, retries |-> m, time |-> j]
  BY <1>1
<1> HIDE DEF s2
<1>4. [s2 EXCEPT !.time = n] = [pc |-> l, keyed |-> k, retries |-> m, time |-> n]
  BY <1>3
<1> QED BY <1>2, <1>4 DEF k

LEMMA RunChanges ==
  ASSUME NEW r \in Run
  PROVE  /\ \A l \in {"ended", "waiting", "entering", "running"} :
              /\ [r EXCEPT !.pc = l] \in Run /\ [r EXCEPT !.pc = l].pc = l
              /\ [r EXCEPT !.pc = l].keyed = r.keyed
              /\ \A n \in {0, TimeLimit} : /\ [r EXCEPT !.pc = l, !.time = n] \in Run
                                           /\ [r EXCEPT !.pc = l, !.time = n].pc = l
         /\ \A n \in Nat : /\ [r EXCEPT !.pc = "sleeping", !.retries = n, !.time = 0] \in Run
                           /\ [r EXCEPT !.pc = "sleeping", !.retries = n, !.time = 0].pc = "sleeping"
<1>1. \A n \in {0, TimeLimit} : n \in 0..TimeLimit
  BY EngineConstants
<1>2. r.keyed \in BOOLEAN /\ r.retries \in Nat /\ r.time \in 0..TimeLimit
  BY DEF Run
<1>3. \A l \in {"ended", "waiting", "entering", "running", "sleeping"}, k \in BOOLEAN, n \in Nat, i \in 0..TimeLimit :
        LET x == [pc |-> l, keyed |-> k, retries |-> n, time |-> i]
        IN  x \in Run /\ x.pc = l /\ x.keyed = k
  BY DEF Run
<1>4. ASSUME NEW l \in {"ended", "waiting", "entering", "running"}
      PROVE  /\ [r EXCEPT !.pc = l] \in Run /\ [r EXCEPT !.pc = l].pc = l
             /\ [r EXCEPT !.pc = l].keyed = r.keyed
  <2>1. [r EXCEPT !.pc = l] = [pc |-> l, keyed |-> r.keyed, retries |-> r.retries, time |-> r.time]
    BY DEF Run
  <2> QED BY <1>2, <1>3, <2>1
<1>5. ASSUME NEW l \in {"ended", "waiting", "entering", "running"}, NEW n \in {0, TimeLimit}
      PROVE  [r EXCEPT !.pc = l, !.time = n] \in Run /\ [r EXCEPT !.pc = l, !.time = n].pc = l
  <2>1. [r EXCEPT !.pc = l, !.time = n] = [pc |-> l, keyed |-> r.keyed, retries |-> r.retries, time |-> n]
    BY TwoChanges
  <2> QED BY <1>1, <1>2, <1>3, <2>1
<1>6. ASSUME NEW n \in Nat
      PROVE  /\ [r EXCEPT !.pc = "sleeping", !.retries = n, !.time = 0] \in Run
             /\ [r EXCEPT !.pc = "sleeping", !.retries = n, !.time = 0].pc = "sleeping"
  <2>1. [r EXCEPT !.pc = "sleeping", !.retries = n, !.time = 0]
          = [pc |-> "sleeping", keyed |-> r.keyed, retries |-> n, time |-> 0]
    BY ThreeChanges
  <2> QED BY <1>1, <1>2, <1>3, <2>1
<1>7. \A l \in {"ended", "waiting", "entering", "running"} : \A n \in {0, TimeLimit} :
        [r EXCEPT !.pc = l, !.time = n] \in Run /\ [r EXCEPT !.pc = l, !.time = n].pc = l
  BY <1>5, Zenon
<1> QED BY <1>4, <1>6, <1>7, Zenon

LEMMA RaisedRun ==
  ASSUME EngineInv, NEW c \in Client, NEW how, Raised(c, how)
  PROVE  \E r \in Run : run' = [run EXCEPT ![c] = r] /\ r.pc # "running"
<1>1. run[c] \in Run /\ run[c].retries \in Nat
  BY RunFields DEF EngineInv
<1> DEFINE n == run[c].retries - 1
           s == [run[c] EXCEPT !.pc = "sleeping", !.retries = n, !.time = 0]
           e == [run[c] EXCEPT !.pc = "ended", !.time = 0]
<1>2. run' = [run EXCEPT ![c] = IF run[c].retries > 0 THEN s ELSE e]
  BY DEF Raised
<1>3. run[c].retries > 0 => n \in Nat
  BY <1>1
<1>4. n \in Nat => s \in Run /\ s.pc = "sleeping"
  <2>1. \A k \in Nat : /\ [run[c] EXCEPT !.pc = "sleeping", !.retries = k, !.time = 0] \in Run
                       /\ [run[c] EXCEPT !.pc = "sleeping", !.retries = k, !.time = 0].pc = "sleeping"
    BY <1>1, RunChanges, Zenon
  <2> QED BY <2>1, Zenon
<1>5. e \in Run /\ e.pc = "ended"
  BY <1>1, RunChanges
<1> HIDE DEF n, s, e
<1> QED BY <1>2, <1>3, <1>4, <1>5

LEMMA CallSteps ==
  ASSUME EngineInv, WindowLen > 0, NEW c \in Client,
         Begin(c) \/ Acquire(c) \/ ClientStep(c) \/ Succeed(c)
  PROVE  EngineInv' /\ openFor' = openFor
<1>1. run[c] \in Run /\ openFor \in Nat
  BY DEF EngineInv
<1>2. CASE Begin(c)
  <2>1. PICK keyed \in BOOLEAN, n \in 0..Retries :
          run' = [run EXCEPT ![c] = [pc |-> "waiting", keyed |-> keyed, retries |-> n, time |-> 0]]
    BY <1>2 DEF Begin
  <2> DEFINE r == [pc |-> "waiting", keyed |-> keyed, retries |-> n, time |-> 0]
  <2>2. r \in Run /\ r.pc = "waiting" /\ run' = [run EXCEPT ![c] = r]
    BY <2>1, EngineConstants DEF Run
  <2> HIDE DEF r
  <2> QED BY <1>1, <1>2, <2>2, EngineStep DEF Begin
<1>3. CASE Acquire(c)
  <2> DEFINE r == [run[c] EXCEPT !.pc = "entering", !.time = TimeLimit]
  <2>1. r \in Run /\ r.pc = "entering"
    BY <1>1, RunChanges
  <2>2. run' = [run EXCEPT ![c] = r]
    BY <1>3 DEF Acquire, EngineInv
  <2> HIDE DEF r
  <2> QED BY <1>1, <1>3, <2>1, <2>2, EngineStep DEF Acquire
<1>4. CASE Admit(c) /\ run[c].keyed
  <2> DEFINE r == [run[c] EXCEPT !.pc = "running"]
  <2>1. r \in Run
    BY <1>1, RunChanges
  <2>2. run' = [run EXCEPT ![c] = r]
    BY <1>4 DEF Admit, EngineInv
  <2> HIDE DEF r
  <2> QED BY <1>1, <1>4, <2>1, <2>2, EngineStep DEF Admit
<1>5. CASE Admit(c) /\ ~run[c].keyed
  <2> DEFINE r == [run[c] EXCEPT !.pc = "running"]
  <2>1. r \in Run /\ ~r.keyed
    BY <1>1, <1>5, RunChanges
  <2>2. run' = [run EXCEPT ![c] = r]
    BY <1>5 DEF Admit, EngineInv
  <2> HIDE DEF r
  <2> QED BY <1>1, <1>5, <2>1, <2>2, EngineStep DEF Admit
<1>6. CASE Refuse(c) \/ Cancel(c)
  <2>1. ages' = ages /\ openFor' = openFor /\ \E how : Raised(c, how)
    BY <1>6 DEF Refuse, Cancel
  <2> QED BY <1>1, <2>1, RaisedRun, EngineStep
<1>7. CASE WakeUp(c)
  <2> DEFINE r == [run[c] EXCEPT !.pc = "waiting"]
  <2>1. r \in Run /\ r.pc = "waiting"
    BY <1>1, RunChanges
  <2>2. run' = [run EXCEPT ![c] = r]
    BY <1>7 DEF WakeUp, EngineInv
  <2> HIDE DEF r
  <2> QED BY <1>1, <1>7, <2>1, <2>2, EngineStep DEF WakeUp
<1>8. CASE Succeed(c)
  <2> DEFINE r == [run[c] EXCEPT !.pc = "ended", !.time = 0]
  <2>1. r \in Run /\ r.pc = "ended"
    BY <1>1, RunChanges
  <2>2. run' = [run EXCEPT ![c] = r]
    BY <1>8 DEF Succeed, EngineInv
  <2> HIDE DEF r
  <2> QED BY <1>1, <1>8, <2>1, <2>2, EngineStep DEF Succeed
<1> QED BY <1>2, <1>3, <1>4, <1>5, <1>6, <1>7, <1>8 DEF ClientStep

LEMMA FailStep ==
  ASSUME EngineInv, WindowLen > 0, NEW c \in Client, Fail(c)
  PROVE  EngineInv' /\ EngineCause
<1>1. Is(c, "running") /\ openFor \in Nat /\ ages \in Seq(Nat) /\ \E how : Raised(c, how)
  BY DEF Fail, EngineInv
<1>2. CASE ~run[c].keyed
  <2>1. ages' = ages /\ openFor' = openFor
    BY <1>2 DEF Fail
  <2> QED BY <1>1, <2>1, RaisedRun, EngineStep DEF EngineCause
<1>3. CASE run[c].keyed
  <2>1. ages' = Append(ages, 0) /\ openFor' = IF Len(ages) + 1 >= TripAfter THEN OpenLen ELSE openFor
    BY <1>3 DEF Fail
  <2>2. EngineInv'
    BY <1>1, <2>1, RaisedRun, EngineStep, EngineConstants
  <2>3. ASSUME openFor' > openFor
        PROVE  Cardinality({i \in DOMAIN ages' : ages'[i] < WindowLen + TimeLimit}) >= TripAfter
    <3>1. Len(ages) + 1 >= TripAfter
      BY <1>1, <2>1, <2>3
    <3>2. /\ DOMAIN ages' = 1..(Len(ages) + 1) /\ Len(ages) \in Nat
          /\ ages'[Len(ages) + 1] = 0
          /\ \A i \in 1..Len(ages) : ages'[i] = ages[i] /\ ages[i] \in Nat
      <4>1. DOMAIN Append(ages, 0) = 1..Len(Append(ages, 0))
        BY <1>1, AppendProperties, LenProperties
      <4> QED BY <1>1, <2>1, <4>1, AppendProperties
    <3>3. \A i \in 1..Len(ages) : ages[i] + run[c].time < WindowLen + TimeLimit
      BY <1>1, <1>3 DEF EngineInv, Young
    <3>4. run[c].time \in Nat
      BY RunFields, EngineConstants DEF EngineInv
    <3>5. \A i \in 1..(Len(ages) + 1) : ages'[i] < WindowLen + TimeLimit
      <4> SUFFICES ASSUME NEW i \in 1..(Len(ages) + 1) PROVE ages'[i] < WindowLen + TimeLimit
        OBVIOUS
      <4>1. CASE i = Len(ages) + 1
        BY <3>2, <4>1, EngineConstants
      <4>2. CASE i \in 1..Len(ages)
        BY <3>2, <3>3, <3>4, <4>2, EngineConstants
      <4> QED BY <3>2, <4>1, <4>2
    <3>6. {i \in DOMAIN ages' : ages'[i] < WindowLen + TimeLimit} = 1..(Len(ages) + 1)
      BY <3>2, <3>5
    <3>7. Cardinality(1..(Len(ages) + 1)) = Len(ages) + 1
      BY <3>2, FS_Interval
    <3> QED BY <3>1, <3>6, <3>7
  <2> QED BY <2>2, <2>3 DEF EngineCause
<1> QED BY <1>2, <1>3

LEMMA PassStep ==
  ASSUME EngineInv, Pass
  PROVE  EngineInv' /\ openFor' <= openFor
<1>1. openFor \in Nat /\ openFor' \in Nat /\ openFor' <= openFor
  BY DEF Pass, EngineInv
<1>2. /\ Len(ages) \in Nat /\ DOMAIN ages = 1..Len(ages)
      /\ \A i \in 1..Len(ages) : ages[i] \in Nat
      /\ ages' = [i \in 1..Len(ages) |->
           IF ages[i] < WindowLen + TimeLimit THEN ages[i] + 1 ELSE ages[i]]
  BY LenProperties DEF Pass, EngineInv
<1>3. ages' \in Seq(Nat) /\ Len(ages') = Len(ages)
  <2>1. ages' \in [1..Len(ages) -> Nat]
    BY <1>2
  <2> QED BY <1>2, <2>1
<1>4. ASSUME NEW c \in Client
      PROVE  /\ run'[c] \in Run /\ run'[c].pc = run[c].pc /\ run'[c].keyed = run[c].keyed
             /\ run[c].time > 0 => run'[c].time = run[c].time - 1
  <2>1. run[c] \in Run /\ run[c].time \in 0..TimeLimit
    BY RunFields DEF EngineInv
  <2>2. run'[c] = IF run[c].time > 0 THEN [run[c] EXCEPT !.time = run[c].time - 1] ELSE run[c]
    BY DEF Pass
  <2>3. CASE run[c].time > 0
    <3>1. run[c].time - 1 \in 0..TimeLimit
      BY <2>1, <2>3, EngineConstants
    <3>2. \A n \in 0..TimeLimit :
            /\ [run[c] EXCEPT !.time = n] \in Run /\ [run[c] EXCEPT !.time = n].time = n
            /\ [run[c] EXCEPT !.time = n].pc = run[c].pc
            /\ [run[c] EXCEPT !.time = n].keyed = run[c].keyed
      BY <2>1 DEF Run
    <3> QED BY <2>2, <2>3, <3>1, <3>2
  <2> QED BY <2>1, <2>2, <2>3
<1>5. run' \in [Client -> Run]
  <2>1. run' = [c \in Client |-> run'[c]]
    BY DEF Pass
  <2> QED BY <1>4, <2>1
<1>6. ASSUME NEW c \in Client PROVE Young(c)'
  <2> SUFFICES ASSUME Is(c, "running"), run[c].keyed, NEW i \in 1..Len(ages)
               PROVE  ages'[i] + run'[c].time < WindowLen + TimeLimit
    BY <1>3, <1>4 DEF Young, Is
  <2>1. run[c].time > 0
    BY DEF Pass, Is
  <2>2. ages[i] + run[c].time < WindowLen + TimeLimit
    BY DEF EngineInv, Young
  <2>3. run[c].time \in Nat
    BY RunFields, EngineConstants DEF EngineInv
  <2>4. run'[c].time = run[c].time - 1
    BY <1>4, <2>1
  <2>5. ages'[i] <= ages[i] + 1 /\ ages'[i] \in Nat /\ ages[i] \in Nat
    BY <1>2
  <2> QED BY <2>1, <2>2, <2>3, <2>4, <2>5, EngineConstants
<1> QED BY <1>1, <1>3, <1>5, <1>6 DEF EngineInv

\* async_engine.py: whichever calls overlap, a breaker opens only for
\* failure_threshold failures younger than the window and the time one call may
\* take.  A window of nought is excepted: then a failure may have aged a whole
\* call's time by the step that records the next.
THEOREM TripsOnRecentAlways ==
  ASSUME WindowLen > 0
  PROVE  EngineSpec => TripsOnRecent
<1>1. EngineInv /\ [EngineNext]_engineVars => EngineInv' /\ [EngineCause]_engineVars
  <2> SUFFICES ASSUME EngineInv, EngineNext \/ UNCHANGED engineVars
               PROVE  EngineInv' /\ (EngineCause \/ UNCHANGED engineVars)
    OBVIOUS
  <2>1. openFor \in Nat
    BY DEF EngineInv
  <2>2. CASE UNCHANGED engineVars
    BY <2>2 DEF engineVars, EngineInv, Young, Is
  <2>3. CASE Pass
    <3>1. EngineInv' /\ openFor' <= openFor /\ openFor' \in Nat
      BY <2>3, PassStep DEF EngineInv
    <3> QED BY <2>1, <3>1 DEF EngineCause
  <2>4. ASSUME NEW c \in Client, Fail(c) PROVE EngineInv' /\ EngineCause
    BY <2>4, FailStep
  <2>5. ASSUME NEW c \in Client, Begin(c) \/ Acquire(c) \/ ClientStep(c) \/ Succeed(c)
        PROVE  EngineInv' /\ EngineCause
    BY <2>1, <2>5, CallSteps DEF EngineCause
  <2> QED BY <2>2, <2>3, <2>4, <2>5 DEF EngineNext
<1> QED BY <1>1, InitEngine, PTL DEF EngineSpec, TripsOnRecent, EngineCause
-----------------------------------------------------------------------------
(* Any models, any answers, and any choice of the critic: the vote.          *)

VoteRecord == [model : Named \ Kilo, text : Text \union {NoText}, conf : {0, 1}]

Leaf == [pc : {"idle", "voting", "won", "blocked", "raised"}, chain : Seq(Named \ Kilo),
         critic : 0..4, winner : 0..4, agreed : BOOLEAN]

\* A vote is that of a model of the list, and is trusted if it has a text.
VotesOK ==
  /\ votes \in Seq(VoteRecord) /\ Len(votes) <= 3
  /\ \A i \in 1..Len(votes) :
       /\ votes[i].model = leaf.chain[i]
       /\ votes[i].conf = IF votes[i].text = NoText THEN 0 ELSE 1

\* A winner is announced by a whole set of votes; until then nothing is.
WonOK ==
  /\ leaf.pc = "idle" => votes = <<>> /\ leaf.critic = 0 /\ ~leaf.agreed
  /\ leaf.pc = "voting" => Len(leaf.chain) >= 3 /\ leaf.critic = 0 /\ ~leaf.agreed
  /\ leaf.pc = "won" =>
       /\ leaf.agreed <=> \A i, j \in DOMAIN votes : votes[i].text = votes[j].text
       /\ leaf.critic \notin DOMAIN votes /\ Texts # {NoText} =>
            votes[leaf.winner].text # NoText

ConsensusInv == VotesOK /\ leaf \in Leaf /\ WonOK

LEMMA VoteFields ==
  ASSUME VotesOK
  PROVE  /\ Len(votes) \in Nat /\ DOMAIN votes = 1..Len(votes)
         /\ \A i \in 1..Len(votes) : /\ votes[i] \in VoteRecord
                                     /\ votes[i].model \in Named \ Kilo
                                     /\ votes[i].text \in Text \union {NoText}
                                     /\ votes[i].conf \in {0, 1}
<1>1. Len(votes) \in Nat /\ DOMAIN votes = 1..Len(votes)
  BY LenProperties DEF VotesOK
<1>2. \A i \in 1..Len(votes) : votes[i] \in VoteRecord
  BY ElementOfSeq DEF VotesOK
<1> QED BY <1>1, <1>2 DEF VoteRecord

\* The first vote of the highest confidence exists, and it is a good one if
\* there is one.
LEMMA BestVote ==
  ASSUME VotesOK, Len(votes) = 3
  PROVE  Best \in 1..3 /\ (Texts # {NoText} => votes[Best].text # NoText)
<1>1. /\ DOMAIN votes = 1..3
      /\ \A i \in 1..3 : votes[i].conf \in {0, 1}
      /\ \A i \in 1..3 : votes[i].conf = IF votes[i].text = NoText THEN 0 ELSE 1
  BY VoteFields DEF VotesOK
<1>2. \E i \in 1..3 : /\ \A j \in 1..3 : votes[j].conf <= votes[i].conf
                      /\ \A j \in 1..(i - 1) : votes[j].conf < votes[i].conf
  <2>1. CASE votes[1].conf = 1
    BY <1>1, <2>1
  <2>2. CASE votes[1].conf = 0 /\ votes[2].conf = 1
    <3>1. \A j \in 1..(2 - 1) : j = 1
      OBVIOUS
    <3> QED BY <1>1, <2>2, <3>1
  <2>3. CASE votes[1].conf = 0 /\ votes[2].conf = 0 /\ votes[3].conf = 1
    <3>1. \A j \in 1..(3 - 1) : j = 1 \/ j = 2
      OBVIOUS
    <3> QED BY <1>1, <2>3, <3>1
  <2>4. CASE votes[1].conf = 0 /\ votes[2].conf = 0 /\ votes[3].conf = 0
    <3>1. \A j \in 1..(1 - 1) : FALSE
      OBVIOUS
    <3> QED BY <1>1, <2>4, <3>1
  <2> QED BY <1>1, <2>1, <2>2, <2>3, <2>4
<1>3. Best \in 1..3 /\ \A j \in 1..3 : votes[j].conf <= votes[Best].conf
  BY <1>1, <1>2 DEF Best
<1>4. ASSUME Texts # {NoText} PROVE votes[Best].text # NoText
  <2>1. \E i \in 1..3 : votes[i].text # NoText
    <3>1. Texts = {votes[i].text : i \in 1..3}
      BY <1>1 DEF Texts
    <3>2. votes[1].text \in Texts
      BY <3>1
    <3> QED BY <1>4, <3>1, <3>2
  <2>2. PICK i \in 1..3 : votes[i].text # NoText
    BY <2>1
  <2>3. votes[i].conf = 1 /\ votes[i].conf <= votes[Best].conf /\ votes[Best].conf \in {0, 1}
    BY <1>1, <1>3, <2>2
  <2>4. votes[Best].conf = 1
    BY <2>3
  <2> QED BY <1>1, <1>3, <2>4
<1> QED BY <1>3, <1>4

LEMMA TextsCounted ==
  ASSUME VotesOK, Len(votes) = 3
  PROVE  Cardinality(Texts) \in Nat
         /\ (Cardinality(Texts) = 1 <=> \A i, j \in DOMAIN votes : votes[i].text = votes[j].text)
<1>1. DOMAIN votes = 1..3 /\ Texts = {votes[1].text, votes[2].text, votes[3].text}
  <2>1. DOMAIN votes = 1..3
    BY VoteFields
  <2>2. 1..3 = {1, 2, 3}
    OBVIOUS
  <2>3. Texts = {votes[i].text : i \in {1, 2, 3}}
    BY <2>1, <2>2 DEF Texts
  <2> QED BY <2>1, <2>3
<1>2. IsFiniteSet(Texts)
  <2>1. IsFiniteSet({votes[1].text, votes[2].text})
    <3>1. IsFiniteSet({votes[1].text})
      BY FS_Singleton
    <3>2. IsFiniteSet({votes[1].text} \union {votes[2].text})
      BY <3>1, FS_AddElement
    <3> QED BY <3>2
  <2>2. IsFiniteSet({votes[1].text, votes[2].text} \union {votes[3].text})
    BY <2>1, FS_AddElement
  <2> QED BY <1>1, <2>2
<1>3. Cardinality(Texts) \in Nat
  BY <1>2, FS_CardinalityType
<1>4. ASSUME Cardinality(Texts) = 1
      PROVE  \A i, j \in DOMAIN votes : votes[i].text = votes[j].text
  <2>1. \E x : Texts = {x}
    BY <1>2, <1>4, FS_Singleton
  <2>2. \A i \in DOMAIN votes : votes[i].text \in Texts
    BY DEF Texts
  <2> QED BY <2>1, <2>2
<1>5. ASSUME \A i, j \in DOMAIN votes : votes[i].text = votes[j].text
      PROVE  Cardinality(Texts) = 1
  <2>1. Texts = {votes[1].text}
    BY <1>1, <1>5
  <2> QED BY <2>1, FS_Singleton
<1> QED BY <1>3, <1>4, <1>5

LEMMA InitConsensus == ConsensusInit => ConsensusInv
<1> SUFFICES ASSUME ConsensusInit PROVE ConsensusInv
  OBVIOUS
<1>1. votes = <<>> /\ leaf = NewLeaf /\ leaf.pc = "idle" /\ leaf.critic = 0 /\ ~leaf.agreed
  BY DEF ConsensusInit, NewLeaf
<1>2. NewLeaf \in Leaf
  BY DEF NewLeaf, Leaf
<1> QED BY <1>1, <1>2 DEF ConsensusInv, VotesOK, WonOK

LEMMA FanOutStep == ConsensusInv /\ FanOut => ConsensusInv'
<1> SUFFICES ASSUME ConsensusInv, FanOut PROVE ConsensusInv'
  OBVIOUS
<1>1. PICK models \in ModelLists :
        leaf' = [leaf EXCEPT
           !.pc = IF Len(Kept(models, {i \in DOMAIN models : models[i] \notin Kilo})) < 3 THEN "raised" ELSE "voting",
           !.chain = Kept(models, {i \in DOMAIN models : models[i] \notin Kilo})]
  BY DEF FanOut
<1> DEFINE J == {i \in DOMAIN models : models[i] \notin Kilo}
           chain == Kept(models, J)
           phase == IF Len(chain) < 3 THEN "raised" ELSE "voting"
<1>2. chain \in Seq(Named \ Kilo) /\ Len(chain) \in Nat
  <2>1. models \in Seq(Named) /\ J \in SUBSET (1..Len(models)) /\ \A j \in J : models[j] \in Named \ Kilo
    <3>1. models \in Seq(Named)
      BY ConsensusAssumption
    <3>2. DOMAIN models = 1..Len(models) /\ \A i \in 1..Len(models) : models[i] \in Named
      BY <3>1, LenProperties, ElementOfSeq
    <3> QED BY <3>1, <3>2
  <2> HIDE DEF J
  <2>2. J \in SUBSET Nat /\ IsFiniteSet(J)
    BY <2>1, FilterFacts
  <2>3. \A S : (\A j \in J : models[j] \in S) => Kept(models, J) \in Seq(S)
    BY <2>2, KeptFacts
  <2>4. chain \in Seq(Named \ Kilo)
    BY <2>1, <2>3
  <2> HIDE DEF chain
  <2> QED BY <2>4, LenProperties
<1>3. leaf' = [leaf EXCEPT !.pc = phase, !.chain = chain]
  BY <1>1
<1> HIDE DEF chain
<1>4. phase \in {"raised", "voting"} /\ (phase = "voting" => Len(chain) >= 3)
  BY <1>2
<1> HIDE DEF phase
<1>5. /\ leaf \in Leaf /\ leaf.pc = "idle" /\ votes = <<>> /\ votes' = votes
      /\ leaf.critic = 0 /\ ~leaf.agreed
  BY DEF ConsensusInv, WonOK, FanOut
<1>6. leaf' \in Leaf /\ leaf'.pc = phase /\ leaf'.chain = chain /\ leaf'.critic = leaf.critic
      /\ (leaf'.agreed <=> leaf.agreed)
  BY <1>2, <1>3, <1>4, <1>5 DEF Leaf
<1> QED BY <1>4, <1>5, <1>6 DEF ConsensusInv, VotesOK, WonOK

LEMMA VoteStep == ConsensusInv /\ Vote => ConsensusInv'
<1> SUFFICES ASSUME ConsensusInv, Vote PROVE ConsensusInv'
  OBVIOUS
<1>1. PICK text \in Text \union {NoText} :
        votes' = Append(votes, [model |-> leaf.chain[Len(votes) + 1], text |-> text,
                                conf |-> IF text = NoText THEN 0 ELSE 1])
  BY DEF Vote
<1> DEFINE v == [model |-> leaf.chain[Len(votes) + 1], text |-> text,
                 conf |-> IF text = NoText THEN 0 ELSE 1]
<1>2. /\ leaf.pc = "voting" /\ Len(votes) < 3 /\ Len(votes) \in Nat /\ leaf' = leaf
      /\ Len(leaf.chain) >= 3 /\ leaf.chain \in Seq(Named \ Kilo) /\ votes \in Seq(VoteRecord)
  BY VoteFields DEF Vote, ConsensusInv, WonOK, Leaf, VotesOK
<1>3. leaf.chain[Len(votes) + 1] \in Named \ Kilo
  BY <1>2, LenProperties, ElementOfSeq
<1>4. v \in VoteRecord /\ v.model = leaf.chain[Len(votes) + 1]
      /\ v.conf = IF v.text = NoText THEN 0 ELSE 1
  BY <1>3 DEF VoteRecord
<1> HIDE DEF v
<1>5. /\ votes' \in Seq(VoteRecord) /\ Len(votes') = Len(votes) + 1
      /\ votes'[Len(votes) + 1] = v /\ \A i \in 1..Len(votes) : votes'[i] = votes[i]
  BY <1>1, <1>2, <1>4, AppendProperties DEF v
<1>6. VotesOK'
  <2> SUFFICES ASSUME NEW i \in 1..Len(votes')
               PROVE  /\ votes'[i].model = leaf.chain[i]
                      /\ votes'[i].conf = IF votes'[i].text = NoText THEN 0 ELSE 1
    BY <1>2, <1>5 DEF VotesOK
  <2>1. CASE i = Len(votes) + 1
    BY <1>4, <1>5, <2>1
  <2>2. CASE i \in 1..Len(votes)
    BY <1>5, <2>2 DEF ConsensusInv, VotesOK
  <2> QED BY <1>2, <1>5, <2>1, <2>2
<1> QED BY <1>2, <1>6 DEF ConsensusInv, WonOK

LEMMA RaiseStep == ConsensusInv /\ ConsensusRaises => ConsensusInv'
<1> SUFFICES ASSUME ConsensusInv, ConsensusRaises PROVE ConsensusInv'
  OBVIOUS
<1>1. leaf \in Leaf /\ leaf' = [leaf EXCEPT !.pc = "raised"] /\ votes' = votes
  BY DEF ConsensusInv, ConsensusRaises
<1>2. leaf' \in Leaf /\ leaf'.pc = "raised" /\ leaf'.chain = leaf.chain
  BY <1>1 DEF Leaf
<1> QED BY <1>1, <1>2 DEF ConsensusInv, VotesOK, WonOK

LEMMA AgreeStep == ConsensusInv /\ Agree => ConsensusInv'
<1> SUFFICES ASSUME ConsensusInv, Agree PROVE ConsensusInv'
  OBVIOUS
<1>1. /\ leaf \in Leaf /\ leaf' = [leaf EXCEPT !.pc = "won", !.winner = Best, !.agreed = TRUE]
      /\ votes' = votes /\ Len(votes) = 3 /\ Cardinality(Texts) = 1 /\ VotesOK
  BY DEF ConsensusInv, Agree
<1>2. Best \in 0..4 /\ (Texts # {NoText} => votes[Best].text # NoText)
  BY <1>1, BestVote
<1>3. \A i, j \in DOMAIN votes : votes[i].text = votes[j].text
  BY <1>1, TextsCounted
<1>4. /\ leaf' \in Leaf /\ leaf'.pc = "won" /\ leaf'.chain = leaf.chain
      /\ leaf'.winner = Best /\ leaf'.agreed
  BY <1>1, <1>2 DEF Leaf
<1>5. Texts' = Texts
  BY <1>1 DEF Texts
<1>6. VotesOK'
  BY <1>1, <1>4 DEF VotesOK
<1>7. WonOK'
  BY <1>1, <1>2, <1>3, <1>4, <1>5 DEF WonOK
<1> QED BY <1>4, <1>6, <1>7 DEF ConsensusInv

LEMMA TieStep == ConsensusInv /\ BreakTie => ConsensusInv'
<1> SUFFICES ASSUME ConsensusInv, BreakTie PROVE ConsensusInv'
  OBVIOUS
<1>1. /\ leaf \in Leaf /\ leaf.pc = "voting" /\ ~leaf.agreed /\ votes' = votes /\ Len(votes) = 3
      /\ VotesOK /\ Cardinality(Texts) > 1
  BY DEF ConsensusInv, WonOK, BreakTie
<1>2. PICK index \in 0..4, critical \in BOOLEAN :
        leaf' = IF critical THEN [leaf EXCEPT !.pc = "blocked", !.critic = index]
                ELSE [leaf EXCEPT !.pc = "won", !.critic = index,
                                  !.winner = IF index \in DOMAIN votes THEN index ELSE Best]
  BY DEF BreakTie
<1> DEFINE w == IF index \in DOMAIN votes THEN index ELSE Best
<1>3. Best \in 1..3 /\ (Texts # {NoText} => votes[Best].text # NoText) /\ w \in 0..4
      /\ (index \notin DOMAIN votes => w = Best)
  BY <1>1, BestVote
<1>4. ~(\A i, j \in DOMAIN votes : votes[i].text = votes[j].text)
  BY <1>1, TextsCounted
<1>5. Texts' = Texts
  BY <1>1 DEF Texts
<1>6. CASE critical
  <2>1. leaf' = [leaf EXCEPT !.pc = "blocked", !.critic = index]
    BY <1>2, <1>6
  <2>2. leaf' \in Leaf /\ leaf'.pc = "blocked" /\ leaf'.chain = leaf.chain
    BY <1>1, <2>1 DEF Leaf
  <2> QED BY <1>1, <2>2 DEF ConsensusInv, VotesOK, WonOK
<1>7. CASE ~critical
  <2>1. leaf' = [leaf EXCEPT !.pc = "won", !.critic = index, !.winner = w]
    BY <1>2, <1>7
  <2> HIDE DEF w
  <2>2. /\ leaf' \in Leaf /\ leaf'.pc = "won" /\ leaf'.chain = leaf.chain
        /\ leaf'.winner = w /\ leaf'.critic = index /\ ~leaf'.agreed
    BY <1>1, <1>3, <2>1 DEF Leaf
  <2>3. VotesOK'
    BY <1>1, <2>2 DEF VotesOK
  <2>4. WonOK'
    BY <1>1, <1>3, <1>4, <1>5, <2>2 DEF WonOK
  <2> QED BY <2>2, <2>3, <2>4 DEF ConsensusInv
<1> QED BY <1>6, <1>7

LEMMA NextConsensus == ConsensusInv /\ [ConsensusNext]_consensusVars => ConsensusInv'
<1> SUFFICES ASSUME ConsensusInv, [ConsensusNext]_consensusVars PROVE ConsensusInv'
  OBVIOUS
<1>1. CASE StartOver
  <2>1. votes' = <<>> /\ leaf' = NewLeaf /\ leaf'.pc = "idle" /\ leaf'.critic = 0 /\ ~leaf'.agreed
    BY <1>1 DEF StartOver, NewLeaf
  <2>2. NewLeaf \in Leaf
    BY DEF NewLeaf, Leaf
  <2> QED BY <2>1, <2>2 DEF ConsensusInv, VotesOK, WonOK
<1>2. CASE UNCHANGED consensusVars
  BY <1>2 DEF consensusVars, ConsensusInv, VotesOK, WonOK, Texts
<1> QED BY <1>1, <1>2, FanOutStep, VoteStep, RaiseStep, AgreeStep, TieStep DEF ConsensusNext

\* multi_model_consensus.py run_consensus: for lists of any length and any texts, a
\* failed model wins only by the critic's choice or when all failed.
THEOREM AnswerWinsAlways == ConsensusSpec => []AnswerWins
<1>1. ConsensusInv => AnswerWins
  BY VoteFields DEF ConsensusInv, VotesOK, WonOK, AnswerWins
<1> QED BY <1>1, InitConsensus, NextConsensus, PTL DEF ConsensusSpec
-----------------------------------------------------------------------------
(* Any models, scores and task types: pick and the tie it makes.             *)

\* What a pick that holds the lock has read so far.
PickOK ==
  /\ pick.at = "chain" => pick.task \in Task /\ pick.scores \in [Known -> Quality]
  /\ pick.at \in {"top", "tie"} => pick.chain \in Seq(Known) /\ pick.chain # <<>>
  /\ pick.at = "tie" => raced \/ pick.top = ChainScore(Head(pick.chain))

ChoiceInv ==
  /\ ema \in [Known -> Quality]
  /\ PickOK
  /\ EmptyTieOnlyIfRaced

LEMMA ChoiceConstants ==
  /\ \A t \in Task : Ranked[t] \in Seq(Known)
  /\ \A t \in Task : Ladder[t] \in Seq({Ladder[t][i] : i \in DOMAIN Ladder[t]})
  /\ \A t \in Task, m \in Known : Prior[t][m] \in Int
  /\ \A m \in Known : Slow[m] \in Int
  /\ \A q \in Quality : q \in Int
  /\ Quality # {} /\ Epsilon \in Nat
BY ChoiceAssumption

LEMMA CandidatesKnown == ASSUME NEW t \in Task PROVE Candidates(t) \in Seq(Known)
<1>1. CASE kind = "free"
  BY <1>1, ChoiceConstants DEF Candidates
<1>2. CASE kind # "free"
  <2> DEFINE l == Ladder[t]
             S == {l[i] : i \in DOMAIN l}
             J == {i \in DOMAIN l : l[i] \in Known}
  <2>1. l \in Seq(S)
    BY ChoiceConstants
  <2> HIDE DEF l
  <2>2. J \in SUBSET (1..Len(l)) /\ \A j \in J : l[j] \in Known
    BY <2>1, LenProperties
  <2> HIDE DEF J, S
  <2>3. J \in SUBSET Nat /\ IsFiniteSet(J)
    <3>1. Len(l) \in Nat
      BY <2>1, LenProperties
    <3> QED BY <2>1, <2>2, <3>1, FilterFacts
  <2>4. \A K : (\A j \in J : l[j] \in K) => Kept(l, J) \in Seq(K)
    BY <2>3, KeptFacts
  <2>5. Kept(l, J) \in Seq(Known)
    BY <2>2, <2>4
  <2> QED BY <1>2, <2>5 DEF Candidates, l, J
<1> QED BY <1>1, <1>2

LEMMA RankIsInt ==
  ASSUME NEW t \in Task, NEW m \in Known, NEW scores \in [Known -> Quality]
  PROVE  Rank(t, m, scores) \in Int
BY ChoiceConstants DEF Rank

LEMMA ChainKnown ==
  ASSUME NEW t \in Task, NEW scores \in [Known -> Quality]
  PROVE  BuiltChain(t, scores) \in Seq(Known)
<1> DEFINE list == Candidates(t)
           open == {i \in DOMAIN list : health[list[i]] # "closed"}
           rank(i) == Rank(t, list[i], scores)
           R == {p \in open \X open :
                   rank(p[1]) > rank(p[2]) \/ (rank(p[1]) = rank(p[2]) /\ p[1] <= p[2])}
<1>1. list \in Seq(Known)
  BY CandidatesKnown
<1> HIDE DEF list
<1>2. /\ open \in SUBSET (1..Len(list)) /\ Len(list) \in Nat
      /\ \A j \in open : list[j] \in Known /\ j \in Nat
  BY <1>1, LenProperties, ElementOfSeq
<1> HIDE DEF open
<1>3. IsFiniteSet(open)
  BY <1>1, <1>2, FilterFacts
<1>4. \A i \in open : rank(i) \in Int
  BY <1>2, RankIsInt
<1> HIDE DEF rank
<1>5. \A i, j \in open : <<i, j>> \in R <=> rank(i) > rank(j) \/ (rank(i) = rank(j) /\ i <= j)
  OBVIOUS
<1> HIDE DEF R
<1>6. IsTotalOrder(R, open)
  BY <1>2, <1>4, <1>5 DEF IsTotalOrder
<1>7. \A K : (\A j \in open : list[j] \in K) => Listed(list, open, R) \in Seq(K)
  BY <1>3, <1>6, ListedFacts
<1>8. Listed(list, open, R) \in Seq(Known)
  BY <1>2, <1>7
<1> QED BY <1>8 DEF BuiltChain, list, open, rank, R

\* The head of the chain is in the tie when the top is its score.
LEMMA HeadTied ==
  ASSUME ema \in [Known -> Quality], NEW chain \in Seq(Known), chain # <<>>
  PROVE  Tied(chain, ChainScore(Head(chain))) # <<>>
<1> DEFINE top == ChainScore(Head(chain))
           J == {i \in DOMAIN chain : Distance(ChainScore(chain[i]), top) <= Epsilon}
<1>1. DOMAIN chain = 1..Len(chain) /\ Len(chain) \in Nat /\ Len(chain) >= 1
      /\ Head(chain) = chain[1] /\ chain[1] \in Known
  BY LenProperties, EmptySeq, ElementOfSeq, HeadTailProperties
<1>2. top \in Int
  BY <1>1, ChoiceConstants DEF ChainScore
<1>3. 1 \in J
  <2>1. ChainScore(chain[1]) = top
    BY <1>1
  <2> HIDE DEF top
  <2> QED BY <1>1, <1>2, <2>1, ChoiceConstants DEF Distance
<1>4. J \in SUBSET (1..Len(chain))
  BY <1>1
<1> HIDE DEF J
<1>5. Kept(chain, J) # <<>>
  BY <1>3, <1>4, FilterFacts
<1> QED BY <1>5 DEF Tied, J

LEMMA InitChoice == ChoiceInit => ChoiceInv
BY ChoiceConstants DEF ChoiceInit, ChoiceInv, PickOK, EmptyTieOnlyIfRaced, Idle

LEMMA PickSteps ==
  ASSUME ChoiceInv, Asked \/ Build \/ ReadTop \/ Choose \/ Answer
  PROVE  ChoiceInv'
<1>1. ema' = ema /\ ema \in [Known -> Quality]
  BY DEF ChoiceInv, Asked, Ask, Build, ReadTop, Choose, Answer
<1>2. CASE Asked
  <2>1. PICK t \in Task : pick' = [at |-> "chain", task |-> t, scores |-> ema] /\ raced' = FALSE
    BY <1>2 DEF Asked, Ask
  <2>2. pick'.at = "chain" /\ pick'.task = t /\ pick'.scores = ema
    BY <2>1
  <2> QED BY <1>1, <2>2 DEF ChoiceInv, PickOK, EmptyTieOnlyIfRaced
<1>3. CASE Build
  <2> DEFINE scores == IF kind = "free" THEN pick.scores ELSE ema
             chain == BuiltChain(pick.task, scores)
  <2>1. pick' = IF chain = <<>> THEN Idle ELSE [at |-> "top", task |-> pick.task, chain |-> chain]
    BY <1>3 DEF Build
  <2>2. pick.task \in Task /\ scores \in [Known -> Quality]
    BY <1>1, <1>3 DEF Build, ChoiceInv, PickOK
  <2> HIDE DEF scores
  <2>3. chain \in Seq(Known)
    BY <2>2, ChainKnown
  <2> HIDE DEF chain
  <2>4. CASE chain = <<>>
    BY <1>1, <2>1, <2>4 DEF Idle, ChoiceInv, PickOK, EmptyTieOnlyIfRaced
  <2>5. CASE chain # <<>>
    <3>1. pick'.at = "top" /\ pick'.chain = chain
      BY <2>1, <2>5
    <3> QED BY <1>1, <2>3, <2>5, <3>1 DEF ChoiceInv, PickOK, EmptyTieOnlyIfRaced
  <2> QED BY <2>4, <2>5
<1>4. CASE ReadTop
  <2>1. pick'.at = "tie" /\ pick'.chain = pick.chain /\ pick'.top = ChainScore(Head(pick.chain))
    BY <1>4 DEF ReadTop, TopOf
  <2>2. pick.chain \in Seq(Known) /\ pick.chain # <<>>
    BY <1>4 DEF ReadTop, ChoiceInv, PickOK
  <2> QED BY <1>1, <2>1, <2>2 DEF ChoiceInv, PickOK, EmptyTieOnlyIfRaced, ChainScore
<1>5. CASE Choose
  <2>1. /\ pick.chain \in Seq(Known) /\ pick.chain # <<>> /\ raced' = raced
        /\ raced \/ pick.top = ChainScore(Head(pick.chain))
    BY <1>5 DEF Choose, ChoiceInv, PickOK
  <2>2. CASE Tied(pick.chain, pick.top) = <<>>
    <3>1. raced
      BY <1>1, <2>1, <2>2, HeadTied
    <3>2. pick'.at = "crash"
      BY <1>5, <2>2 DEF Choose
    <3> QED BY <1>1, <2>1, <3>1, <3>2 DEF ChoiceInv, PickOK, EmptyTieOnlyIfRaced
  <2>3. CASE Tied(pick.chain, pick.top) # <<>>
    <3>1. pick'.at = "chosen"
      BY <1>5, <2>3 DEF Choose
    <3> QED BY <1>1, <3>1 DEF ChoiceInv, PickOK, EmptyTieOnlyIfRaced
  <2> QED BY <2>2, <2>3
<1>6. CASE Answer
  BY <1>1, <1>6 DEF Answer, Idle, ChoiceInv, PickOK, EmptyTieOnlyIfRaced
<1> QED BY <1>2, <1>3, <1>4, <1>5, <1>6

LEMMA TellSteps ==
  ASSUME ChoiceInv, NEW m \in Known, Record(m) \/ Track(m)
  PROVE  ChoiceInv'
<1>1. CASE Track(m)
  BY <1>1 DEF Track, ChoiceInv, PickOK, EmptyTieOnlyIfRaced, ChainScore
<1>2. CASE Record(m)
  <2>1. PICK q \in Quality : ema' = [ema EXCEPT ![m] = q]
    BY <1>2 DEF Record
  <2>2. /\ ema' \in [Known -> Quality] /\ \A k \in Known : k # m => ema'[k] = ema[k]
        /\ pick' = pick /\ (raced => raced')
        /\ pick.at = "tie" /\ Head(pick.chain) = m => raced'
    BY <1>2, <2>1 DEF Record, ChoiceInv
  <2>3. pick.at = "tie" => Head(pick.chain) \in Known
    BY HeadTailProperties DEF ChoiceInv, PickOK
  <2> QED BY <2>2, <2>3 DEF ChoiceInv, PickOK, EmptyTieOnlyIfRaced, ChainScore
<1> QED BY <1>1, <1>2

\* free_model_router.py pick: for any ladder, any scores and any outcomes recorded
\* meanwhile, the tie is empty only if the score of the head of the chain changed
\* between two reads of it.
THEOREM EmptyTieOnlyIfRacedAlways == ChoiceSpec => []EmptyTieOnlyIfRaced
<1>1. ChoiceInv /\ [ChoiceNext]_choiceVars => ChoiceInv'
  <2> SUFFICES ASSUME ChoiceInv, [ChoiceNext]_choiceVars PROVE ChoiceInv'
    OBVIOUS
  <2>1. CASE UNCHANGED choiceVars
    BY <2>1 DEF choiceVars, ChoiceInv, PickOK, EmptyTieOnlyIfRaced, ChainScore
  <2>2. CASE Told
    BY <2>2, TellSteps DEF Told
  <2> QED BY <2>1, <2>2, PickSteps DEF ChoiceNext
<1>2. ChoiceInv => EmptyTieOnlyIfRaced
  BY DEF ChoiceInv
<1> QED BY <1>1, <1>2, InitChoice, PTL DEF ChoiceSpec
-----------------------------------------------------------------------------
(* Any tickers, prices and amounts: the books of the paper portfolio.  What  *)
(* each fill rounds away is bounded by what it adds to the rounding account. *)

Position == [shares : Nat, avg : Nat]

Book == [capital : Capitals, cash : Int, pos : [Ticker -> Position], pnl : Int, trades : Nat,
         deposit : Nat, rounding : Nat]

Worth(b) == [t \in Ticker |-> b.pos[t].shares * b.pos[t].avg]

\* How far the books are out.
Balance(b) == Unit * (b.cash - b.pnl) + AtCost(b) - Unit * b.deposit

Balanced(b) == 2 * Balance(b) <= b.rounding /\ 0 - b.rounding <= 2 * Balance(b)

\* The book in memory and the one on file.
PaperInv == \A b \in {book, disk.book} : b \in Book /\ Balanced(b)

LEMMA PaperConstants ==
  /\ IsFiniteSet(Ticker) /\ IsFiniteSet(Price) /\ Price # {} /\ Price \in SUBSET Nat
  /\ Unit \in Nat \ {0} /\ OrderParts \in Nat \ {0} /\ MinCost \in Nat \ {0}
  /\ \A c \in Capitals : /\ c \in Nat /\ Reserve[c] \in Nat /\ MaxPosition[c] \in Nat
                           /\ Reserve[c] <= c
  /\ \A p \in Price : p \in Nat \ {0}
  /\ \A d \in Dollars : d \in Nat
BY PaperAssumption

LEMMA DivFacts ==
  ASSUME NEW a \in Int, NEW b \in Nat \ {0}
  PROVE  a \div b \in Int /\ b * (a \div b) <= a /\ a < b * (a \div b) + b
OBVIOUS

\* round() is off by at most a half.
LEMMA RoundedFacts ==
  ASSUME NEW a \in Int, NEW b \in Nat \ {0}
  PROVE  /\ Rounded(a, b) \in Int
         /\ 2 * b * Rounded(a, b) <= 2 * a + b
         /\ 2 * a - b < 2 * b * Rounded(a, b)
         /\ a >= 0 => Rounded(a, b) \in Nat
<1> DEFINE r == (2 * a + b) \div (2 * b)
<1>1. 2 * b \in Nat \ {0} /\ 2 * a + b \in Int
  OBVIOUS
<1>2. r \in Int /\ (2 * b) * r <= 2 * a + b /\ 2 * a + b < (2 * b) * r + 2 * b
  BY <1>1, DivFacts
<1> HIDE DEF r
<1>3. 2 * b * r <= 2 * a + b /\ 2 * a - b < 2 * b * r
  BY <1>2
<1>4. a >= 0 => r >= 0
  <2> SUFFICES ASSUME a >= 0, r <= -1 PROVE FALSE
    BY <1>2
  <2>1. 2 * b * r <= 2 * b * (0 - 1)
    BY <1>2
  <2> QED BY <1>2, <1>3, <2>1
<1> QED BY <1>2, <1>3, <1>4 DEF Rounded, r

LEMMA RoundedNat ==
  ASSUME NEW a \in Nat, NEW b \in Nat \ {0}
  PROVE  /\ Rounded(a, b) \in Nat
         /\ 2 * b * Rounded(a, b) <= 2 * a + b
         /\ 2 * a - b < 2 * b * Rounded(a, b)
<1>1. a \in Int /\ a >= 0
  OBVIOUS
<1>2. /\ 2 * b * Rounded(a, b) <= 2 * a + b
      /\ 2 * a - b < 2 * b * Rounded(a, b)
      /\ a >= 0 => Rounded(a, b) \in Nat
  BY <1>1, RoundedFacts, Zenon
<1> QED BY <1>1, <1>2, Zenon

\* The positions at cost: what one position adds is all that changes with it.
LEMMA AtCostIsSum ==
  ASSUME NEW b
  PROVE  \E f : Sums(f, Worth(b), Ticker) /\ AtCost(b) = f[Ticker]
<1> DEFINE f == CHOOSE f : Sums(f, Worth(b), Ticker)
<1>1. Sums(f, Worth(b), Ticker)
  BY SumsExist, PaperConstants
<1>2. \A s \in SUBSET Ticker : s # {} => Worth(b)[First(s)] = b.pos[First(s)].shares * b.pos[First(s)].avg
  BY DEF Worth, First
<1> DEFINE w(t) == b.pos[t].shares * b.pos[t].avg
<1>3. \A g : Sums(g, Worth(b), Ticker) <=>
        g = [s \in SUBSET Ticker |-> IF s = {} THEN 0 ELSE
               w(CHOOSE x \in s : TRUE) + g[s \ {CHOOSE x \in s : TRUE}]]
  BY <1>2 DEF Sums, First
<1>4. AtCost(b) = f[Ticker]
  BY <1>3 DEF AtCost, MapThenSumSet, MapThenFoldSet
<1> QED BY <1>1, <1>4

LEMMA NoPositions ==
  ASSUME NEW b, \A t \in Ticker : Worth(b)[t] = 0
  PROVE  AtCost(b) = 0
<1> DEFINE w == Worth(b)
           z == [s \in SUBSET Ticker |-> 0]
<1>1. PICK f : Sums(f, w, Ticker) /\ AtCost(b) = f[Ticker]
  BY AtCostIsSum
<1>2. \A s \in SUBSET Ticker : s # {} => First(s) \in Ticker /\ s \ {First(s)} \in SUBSET Ticker
  BY FirstFacts, PaperConstants
<1>3. Sums(z, w, Ticker)
  BY <1>2 DEF Sums
<1>4. f[Ticker] = z[Ticker]
  BY <1>1, <1>3, SumsAgree, PaperConstants
<1> QED BY <1>1, <1>4

LEMMA AtCostChange ==
  ASSUME NEW b, NEW c, b.pos \in [Ticker -> Position], c.pos \in [Ticker -> Position],
         NEW t \in Ticker, \A x \in Ticker \ {t} : c.pos[x] = b.pos[x]
  PROVE  /\ AtCost(b) \in Int /\ AtCost(c) \in Int
         /\ AtCost(c) - AtCost(b) = c.pos[t].shares * c.pos[t].avg - b.pos[t].shares * b.pos[t].avg
<1> DEFINE w == Worth(b)
           v == Worth(c)
<1>1. \A p \in Position : p.shares * p.avg \in Int
  BY DEF Position
<1>2. w \in [Ticker -> Int] /\ v \in [Ticker -> Int] /\ \A x \in Ticker \ {t} : w[x] = v[x]
  BY <1>1 DEF Worth
<1>3. PICK f : Sums(f, w, Ticker) /\ AtCost(b) = f[Ticker]
  BY AtCostIsSum
<1>4. PICK g : Sums(g, v, Ticker) /\ AtCost(c) = g[Ticker]
  BY AtCostIsSum
<1>5. w[t] = b.pos[t].shares * b.pos[t].avg /\ v[t] = c.pos[t].shares * c.pos[t].avg
  BY DEF Worth
<1> HIDE DEF w, v
<1>6. f[Ticker] \in Int /\ g[Ticker] \in Int /\ g[Ticker] - f[Ticker] = v[t] - w[t]
  BY <1>2, <1>3, <1>4, SumsChange, PaperConstants
<1> QED BY <1>3, <1>4, <1>5, <1>6

\* A position at its new average is worth what it was and what was paid, up to
\* half a cent a unit.
LEMMA Averaged ==
  ASSUME NEW pos \in Position, NEW shares \in Nat \ {0}, NEW cost \in Nat
  PROVE  /\ AverageCost(pos, shares, cost) \in Nat
         /\ pos.shares \in Nat /\ pos.avg \in Nat
         /\ LET gain == (pos.shares + shares) * AverageCost(pos, shares, cost)
                        - pos.shares * pos.avg - Unit * cost
            IN 2 * gain <= pos.shares + shares /\ 0 - (pos.shares + shares) <= 2 * gain
<1> DEFINE n == pos.shares + shares
           a == pos.avg * pos.shares + cost * Unit
           r == Rounded(a, n)
<1>1. pos.shares \in Nat /\ pos.avg \in Nat
  BY DEF Position
<1>2. n \in Nat \ {0} /\ a \in Nat
  BY <1>1, PaperConstants
<1>3. r \in Int /\ 2 * n * r <= 2 * a + n /\ 2 * a - n < 2 * n * r /\ r \in Nat
  <2> HIDE DEF a, n
  <2> QED BY <1>2, RoundedFacts
<1>4. AverageCost(pos, shares, cost) = r
  BY DEF AverageCost
<1>5. a = pos.shares * pos.avg + Unit * cost
  BY <1>1, PaperConstants
<1>6. n * r \in Nat /\ 2 * n * r = 2 * (n * r) /\ pos.shares * pos.avg \in Nat /\ Unit * cost \in Nat
  <2> HIDE DEF a, n, r
  <2> QED BY <1>1, <1>2, <1>3, PaperConstants
<1>7. LET gain == n * r - pos.shares * pos.avg - Unit * cost
      IN 2 * gain <= n /\ 0 - n <= 2 * gain
  <2> HIDE DEF a, n, r
  <2> QED BY <1>2, <1>3, <1>5, <1>6
<1> HIDE DEF r, a
<1> QED BY <1>1, <1>3, <1>4, <1>7

\* What a buy costs; where a unit of a share is worth less than a cent, it is no
\* more than it was meant to spend.
LEMMA Paid ==
  ASSUME NEW spend \in Nat, NEW price \in Price, NEW fractional \in BOOLEAN
  PROVE  LET shares == IF fractional THEN Rounded(spend * Unit, price) ELSE (spend \div price) * Unit
             cost == Rounded(shares * price, Unit)
         IN /\ shares \in Nat /\ cost \in Nat
            /\ price < Unit => cost <= spend
<1> DEFINE shares == IF fractional THEN Rounded(spend * Unit, price) ELSE (spend \div price) * Unit
           cost == Rounded(shares * price, Unit)
<1>1. price \in Nat \ {0} /\ Unit \in Nat \ {0}
  BY PaperConstants
<1>2. spend * Unit \in Nat
  BY <1>1
<1>3. CASE fractional
  <2>1. shares \in Nat /\ 2 * price * shares <= 2 * (spend * Unit) + price
    <3> DEFINE a == spend * Unit
    <3>1. a \in Nat
      BY <1>2
    <3> HIDE DEF a
    <3>2. Rounded(a, price) \in Nat /\ 2 * price * Rounded(a, price) <= 2 * a + price
      BY <1>1, <3>1, RoundedNat, Zenon
    <3> QED BY <1>3, <3>2 DEF a
  <2> HIDE DEF shares
  <2>2. shares * price \in Nat
    BY <1>1, <2>1
  <2>3. cost \in Nat /\ 2 * Unit * cost <= 2 * (shares * price) + Unit
    <3> DEFINE a == shares * price
    <3>1. a \in Nat
      BY <2>2
    <3> HIDE DEF a
    <3>2. Rounded(a, Unit) \in Nat /\ 2 * Unit * Rounded(a, Unit) <= 2 * a + Unit
      BY <1>1, <3>1, RoundedNat, Zenon
    <3> QED BY <3>2 DEF a
  <2> HIDE DEF cost
  <2>4. price < Unit => cost <= spend
    <3> SUFFICES ASSUME price < Unit PROVE cost <= spend
      OBVIOUS
    <3>1. 2 * (Unit * (cost - spend)) <= price + Unit
      BY <1>1, <2>1, <2>3
    <3>2. Unit * (cost - spend) < Unit * 1
      BY <1>1, <2>3, <3>1
    <3>3. cost - spend < 1
      BY <1>1, <2>3, <3>2
    <3> QED BY <2>3, <3>3
  <2> QED BY <2>1, <2>3, <2>4 DEF shares, cost
<1>4. CASE ~fractional
  <2> DEFINE whole == spend \div price
  <2>1. whole \in Int /\ price * whole <= spend /\ spend < price * whole + price
    BY <1>1, DivFacts
  <2> HIDE DEF whole
  <2>2. whole \in Nat
    <3> SUFFICES ASSUME whole <= -1 PROVE FALSE
      BY <2>1
    <3>1. price * whole <= price * (0 - 1)
      BY <1>1, <2>1
    <3> QED BY <1>1, <2>1, <3>1
  <2>3. shares = whole * Unit
    BY <1>4 DEF whole
  <2> HIDE DEF shares
  <2>4. shares \in Nat /\ shares * price \in Nat /\ shares * price = Unit * (price * whole)
    BY <1>1, <2>2, <2>3
  <2>5. cost \in Nat /\ 2 * Unit * cost <= 2 * (shares * price) + Unit
    <3> DEFINE a == shares * price
    <3>1. a \in Nat
      BY <2>4
    <3> HIDE DEF a
    <3>2. Rounded(a, Unit) \in Nat /\ 2 * Unit * Rounded(a, Unit) <= 2 * a + Unit
      BY <1>1, <3>1, RoundedNat, Zenon
    <3> QED BY <3>2 DEF a
  <2> HIDE DEF cost
  <2>6. price * whole \in Nat
    BY <1>1, <2>2
  <2>7. 2 * (Unit * (cost - price * whole)) <= Unit
    BY <1>1, <2>4, <2>5, <2>6
  <2>8. Unit * (cost - price * whole) < Unit * 1
    BY <1>1, <2>5, <2>6, <2>7
  <2>9. cost - price * whole < 1
    BY <1>1, <2>5, <2>6, <2>8
  <2>10. cost <= spend
    BY <2>1, <2>5, <2>6, <2>9
  <2> QED BY <2>4, <2>5, <2>10 DEF shares, cost
<1> QED BY <1>3, <1>4

LEMMA SpendIsUsable ==
  ASSUME NEW asked \in Nat, book.cash \in Int, book.capital \in Capitals, Usable > 0
  PROVE  Spend(asked) \in Nat /\ Spend(asked) <= Usable
<1> DEFINE u == Usable
           part == u \div OrderParts
<1>1. u \in Nat \ {0} /\ u = Usable
  BY PaperConstants DEF Usable
<1> HIDE DEF u
<1>2. part \in Int /\ OrderParts * part <= u /\ u < OrderParts * part + OrderParts
  BY <1>1, DivFacts, PaperConstants
<1>3. part \in Nat /\ part <= u
  <2> HIDE DEF part
  <2>1. part >= 0
    <3> SUFFICES ASSUME part <= -1 PROVE FALSE
      BY <1>2
    <3>1. OrderParts * part <= OrderParts * (0 - 1)
      BY <1>2, PaperConstants
    <3> QED BY <1>1, <1>2, <3>1, PaperConstants
  <2>2. part <= OrderParts * part
    BY <1>2, <2>1, PaperConstants
  <2>3. part \in Nat
    BY <1>2, <2>1
  <2>4. part <= u
    BY ONLY <1>1, <1>2, <2>2, PaperConstants
  <2> QED BY <2>3, <2>4
<1> HIDE DEF part
<1> QED BY <1>1, <1>3, PaperConstants DEF Spend, Lesser, part

LEMMA FreshBalances ==
  ASSUME NEW c \in Capitals
  PROVE  NewBook(c) \in Book /\ Balanced(NewBook(c))
<1> DEFINE b == NewBook(c)
<1>1. [shares |-> 0, avg |-> 0] \in Position
  BY DEF Position
<1>2. b \in Book
  BY <1>1, PaperConstants DEF Book, NewBook
<1>3. \A t \in Ticker : Worth(b)[t] = 0
  BY DEF Worth, NewBook
<1>4. b.cash = c /\ b.pnl = 0 /\ b.rounding = 0 /\ b.deposit = c
  BY DEF NewBook
<1>5. Unit * c \in Nat
  BY PaperConstants
<1> HIDE DEF b
<1>6. AtCost(b) = 0
  BY <1>3, NoPositions
<1>7. Balanced(b)
  BY <1>4, <1>5, <1>6, PaperConstants DEF Balanced, Balance
<1> QED BY <1>2, <1>7 DEF b

\* Another capital is configured.
LEMMA LoadBalances ==
  ASSUME NEW b \in Book, Balanced(b), NEW c \in Capitals
  PROVE  [b EXCEPT !.capital = c] \in Book /\ Balanced([b EXCEPT !.capital = c])
<1> DEFINE d == [b EXCEPT !.capital = c]
<1>1. d \in Book
  BY DEF Book
<1>2. /\ d.cash = b.cash /\ d.pnl = b.pnl /\ d.rounding = b.rounding
      /\ d.deposit = b.deposit /\ d.pos = b.pos
  BY DEF Book
<1> HIDE DEF d
<1>3. AtCost(d) = AtCost(b)
  <2>1. Worth(d) = Worth(b)
    BY <1>2 DEF Worth
  <2>2. PICK f : Sums(f, Worth(b), Ticker) /\ AtCost(b) = f[Ticker]
    BY AtCostIsSum
  <2>3. PICK g : Sums(g, Worth(d), Ticker) /\ AtCost(d) = g[Ticker]
    BY AtCostIsSum
  <2> QED BY <2>1, <2>2, <2>3, SumsAgree, PaperConstants
<1>4. Balanced(d)
  BY <1>2, <1>3 DEF Balanced, Balance
<1> QED BY <1>1, <1>4 DEF d

LEMMA BuyBalances ==
  ASSUME book \in Book, Balanced(book), NEW t \in Ticker, Buy(t)
  PROVE  /\ book' \in Book /\ Balanced(book')
         /\ book'.capital = book.capital
         /\ (\A p \in Price : p < Unit) => book'.cash >= Reserve[book.capital]
<1>1. PICK price \in Price, asked \in Dollars \union {0}, fractional \in BOOLEAN :
        LET spend == Spend(asked)
            shares == IF fractional THEN Rounded(spend * Unit, price) ELSE (spend \div price) * Unit
            cost == Rounded(shares * price, Unit)
            pos == book.pos[t]
        IN /\ session = "open" /\ book.trades < MaxTrades
           /\ Usable > 0 /\ spend >= (IF fractional THEN MinCost ELSE price) /\ shares > 0
           /\ book' = [book EXCEPT !.cash = @ - cost, !.trades = @ + 1,
                         !.rounding = @ + pos.shares + shares,
                         !.pos[t] = [shares |-> pos.shares + shares,
                                     avg |-> AverageCost(pos, shares, cost)]]
           /\ UNCHANGED <<disk, session>>
  BY DEF Buy
<1> DEFINE spend == Spend(asked)
           shares == IF fractional THEN Rounded(spend * Unit, price) ELSE (spend \div price) * Unit
           cost == Rounded(shares * price, Unit)
           pos == book.pos[t]
           avg == AverageCost(pos, shares, cost)
<1>2. book.cash \in Int /\ book.pnl \in Int /\ book.trades \in Nat /\ book.rounding \in Nat
      /\ book.pos \in [Ticker -> Position] /\ pos \in Position
      /\ book.capital \in Capitals /\ book.deposit \in Nat
  BY DEF Book
<1>3. asked \in Nat
  BY PaperConstants
<1>4. spend \in Nat /\ spend <= Usable
  BY <1>1, <1>2, <1>3, SpendIsUsable
<1>5. shares \in Nat /\ cost \in Nat /\ (price < Unit => cost <= spend)
  <2> HIDE DEF spend
  <2> QED BY <1>4, Paid
<1>6. shares \in Nat \ {0}
  BY <1>1, <1>5
<1>7. /\ avg \in Nat /\ pos.shares \in Nat /\ pos.avg \in Nat
      /\ LET gain == (pos.shares + shares) * avg - pos.shares * pos.avg - Unit * cost
         IN 2 * gain <= pos.shares + shares /\ 0 - (pos.shares + shares) <= 2 * gain
  <2> HIDE DEF shares, cost, pos
  <2> QED BY <1>2, <1>5, <1>6, Averaged
<1> DEFINE new == [shares |-> pos.shares + shares, avg |-> avg]
<1>9. book' = [book EXCEPT !.cash = @ - cost, !.trades = @ + 1,
                 !.rounding = @ + pos.shares + shares, !.pos[t] = new]
  BY <1>1
<1>10. new \in Position /\ new.shares = pos.shares + shares /\ new.avg = avg
  <2> HIDE DEF pos, shares, avg
  <2> QED BY <1>5, <1>7 DEF Position
<1> HIDE DEF new, avg, cost, shares, spend
<1>11. book' \in Book
  <2>1. [book.pos EXCEPT ![t] = new] \in [Ticker -> Position]
    BY <1>2, <1>10
  <2>2. book.cash - cost \in Int /\ book.trades + 1 \in Nat /\ book.rounding + pos.shares + shares \in Nat
    BY <1>2, <1>5, <1>7
  <2>3. book' = [capital |-> book.capital, cash |-> book.cash - cost,
                 pos |-> [book.pos EXCEPT ![t] = new], pnl |-> book.pnl,
                 trades |-> book.trades + 1, deposit |-> book.deposit,
                 rounding |-> book.rounding + pos.shares + shares]
    BY <1>9 DEF Book
  <2> QED BY <1>2, <2>1, <2>2, <2>3 DEF Book
<1>12. /\ book'.cash = book.cash - cost /\ book'.pnl = book.pnl
       /\ book'.rounding = book.rounding + pos.shares + shares
       /\ book'.pos = [book.pos EXCEPT ![t] = new]
       /\ book'.capital = book.capital /\ book'.deposit = book.deposit
  BY <1>9 DEF Book
<1>13. book'.pos \in [Ticker -> Position] /\ book'.pos[t] = new
       /\ \A x \in Ticker \ {t} : book'.pos[x] = book.pos[x]
  BY <1>2, <1>10, <1>12
<1>14. /\ AtCost(book) \in Int /\ AtCost(book') \in Int
       /\ AtCost(book') - AtCost(book) = new.shares * new.avg - pos.shares * pos.avg
  BY <1>2, <1>13, AtCostChange
<1> HIDE DEF pos
<1>15. Balance(book') - Balance(book) = (pos.shares + shares) * avg - pos.shares * pos.avg - Unit * cost
       /\ Balance(book') \in Int /\ Balance(book) \in Int
  <2> DEFINE worth == (pos.shares + shares) * avg
             was == pos.shares * pos.avg
             held == book.cash - book.pnl
  <2>1. worth \in Int /\ was \in Int /\ held \in Int /\ AtCost(book') - AtCost(book) = worth - was
    BY <1>2, <1>5, <1>7, <1>10, <1>14
  <2>2. Unit * (book'.cash - book'.pnl) = Unit * held - Unit * cost
        /\ Unit * held \in Int /\ Unit * cost \in Int /\ Unit * book.deposit \in Int
    BY <1>2, <1>5, <1>12, PaperConstants
  <2>3. /\ Balance(book') = Unit * (book'.cash - book'.pnl) + AtCost(book') - Unit * book.deposit
        /\ Balance(book) = Unit * held + AtCost(book) - Unit * book.deposit
    BY <1>12 DEF Balance
  <2> HIDE DEF worth, was, held
  <2>4. Balance(book') - Balance(book) = worth - was - Unit * cost
        /\ Balance(book') \in Int /\ Balance(book) \in Int
    BY <1>14, <2>1, <2>2, <2>3
  <2> QED BY <2>4 DEF worth, was
<1>16. 2 * Balance(book') <= book'.rounding /\ 0 - book'.rounding <= 2 * Balance(book')
  BY <1>2, <1>5, <1>7, <1>12, <1>15 DEF Balanced
<1>17. price < Unit => book'.cash >= Reserve[book.capital]
  BY <1>2, <1>4, <1>5, <1>12, PaperConstants DEF Usable
<1> QED BY <1>11, <1>12, <1>16, <1>17 DEF Balanced

LEMMA SellBalances ==
  ASSUME book \in Book, Balanced(book), NEW t \in Ticker, Sell(t)
  PROVE  book' \in Book /\ Balanced(book') /\ book'.cash >= book.cash
<1> DEFINE pos == book.pos[t]
           avgs == pos.shares * pos.avg
           sold == Rounded(avgs, Unit)
           none == [shares |-> 0, avg |-> 0]
<1>1. PICK price \in Price :
        book' = [book EXCEPT !.cash = @ + Rounded(pos.shares * price, Unit), !.trades = @ + 1,
                     !.rounding = @ + Unit,
                     !.pnl = @ + Rounded(pos.shares * price, Unit) - sold, !.pos[t] = none]
  BY DEF Sell
<1> DEFINE proceeds == Rounded(pos.shares * price, Unit)
<1>2. book.cash \in Int /\ book.pnl \in Int /\ book.trades \in Nat /\ book.rounding \in Nat
      /\ book.pos \in [Ticker -> Position] /\ pos \in Position
      /\ book.capital \in Capitals /\ book.deposit \in Nat
  BY DEF Book
<1>3. pos.shares \in Nat /\ pos.avg \in Nat
  BY <1>2 DEF Position
<1>4. avgs \in Nat /\ pos.shares * price \in Nat
  BY <1>3, PaperConstants
<1>5. proceeds \in Nat
  <2> DEFINE a == pos.shares * price
  <2>1. a \in Nat /\ Unit \in Nat \ {0}
    BY <1>4, PaperConstants
  <2> HIDE DEF a
  <2>2. Rounded(a, Unit) \in Nat
    BY <2>1, RoundedNat, Zenon
  <2> QED BY <2>2 DEF a
<1>6. sold \in Nat /\ 2 * Unit * sold <= 2 * avgs + Unit /\ 2 * avgs - Unit < 2 * Unit * sold
  <2> HIDE DEF avgs
  <2> QED BY <1>4, RoundedNat, PaperConstants, Zenon
<1>7. none \in Position /\ none.shares * none.avg = 0
  BY DEF Position
<1>8. book' = [book EXCEPT !.cash = @ + proceeds, !.trades = @ + 1,
                 !.rounding = @ + Unit, !.pnl = @ + proceeds - sold, !.pos[t] = none]
  BY <1>1
<1> HIDE DEF none, proceeds, sold, avgs
<1>9. book' \in Book
  <2>1. [book.pos EXCEPT ![t] = none] \in [Ticker -> Position]
    BY <1>2, <1>7
  <2>2. /\ book.cash + proceeds \in Int /\ book.trades + 1 \in Nat /\ book.rounding + Unit \in Nat
        /\ book.pnl + proceeds - sold \in Int
    BY <1>2, <1>5, <1>6, PaperConstants
  <2>3. book' = [capital |-> book.capital, cash |-> book.cash + proceeds,
                 pos |-> [book.pos EXCEPT ![t] = none],
                 pnl |-> book.pnl + proceeds - sold, trades |-> book.trades + 1,
                 deposit |-> book.deposit, rounding |-> book.rounding + Unit]
    BY <1>8 DEF Book
  <2> QED BY <1>2, <2>1, <2>2, <2>3 DEF Book
<1>10. /\ book'.cash = book.cash + proceeds /\ book'.pnl = book.pnl + proceeds - sold
       /\ book'.rounding = book.rounding + Unit
       /\ book'.pos = [book.pos EXCEPT ![t] = none] /\ book'.deposit = book.deposit
  BY <1>8 DEF Book
<1>11. book'.pos \in [Ticker -> Position] /\ book'.pos[t] = none
       /\ \A x \in Ticker \ {t} : book'.pos[x] = book.pos[x]
  BY <1>2, <1>7, <1>10
<1>12. /\ AtCost(book) \in Int /\ AtCost(book') \in Int
       /\ AtCost(book') - AtCost(book) = none.shares * none.avg - pos.shares * pos.avg
  BY <1>2, <1>11, AtCostChange
<1>13. AtCost(book') - AtCost(book) = 0 - avgs
  BY <1>7, <1>12, <1>4 DEF avgs
<1>14. /\ Balance(book') - Balance(book) = Unit * sold - avgs
       /\ Balance(book') \in Int /\ Balance(book) \in Int /\ Unit * sold \in Int
  <2> DEFINE held == book.cash - book.pnl
  <2>1. held \in Int
    BY <1>2
  <2>2. Unit * (book'.cash - book'.pnl) = Unit * held + Unit * sold
        /\ Unit * held \in Int /\ Unit * sold \in Int /\ Unit * book.deposit \in Int
    BY <1>2, <1>5, <1>6, <1>10, PaperConstants
  <2>3. /\ Balance(book') = Unit * (book'.cash - book'.pnl) + AtCost(book') - Unit * book.deposit
        /\ Balance(book) = Unit * held + AtCost(book) - Unit * book.deposit
    BY <1>10 DEF Balance
  <2> HIDE DEF held
  <2> QED BY <1>4, <1>12, <1>13, <2>1, <2>2, <2>3
<1>15. 2 * (Unit * sold) <= 2 * avgs + Unit /\ 2 * avgs - Unit < 2 * (Unit * sold)
  BY <1>6, PaperConstants
<1>16. 2 * Balance(book') <= book'.rounding /\ 0 - book'.rounding <= 2 * Balance(book')
  BY <1>2, <1>4, <1>10, <1>14, <1>15, PaperConstants DEF Balanced
<1>17. book'.cash >= book.cash
  BY <1>2, <1>5, <1>10
<1> QED BY <1>9, <1>16, <1>17 DEF Balanced

LEMMA InitPaper == PaperInit => PaperInv
<1> SUFFICES ASSUME PaperInit PROVE PaperInv
  OBVIOUS
<1>1. PICK c \in Capitals : book = NewBook(c) /\ disk = [file |-> "missing", book |-> NewBook(c)]
  BY DEF PaperInit
<1>2. disk.book = NewBook(c)
  BY <1>1
<1> QED BY <1>1, <1>2, FreshBalances DEF PaperInv

LEMMA PaperStep ==
  ASSUME PaperInv, [PaperNext]_paperVars
  PROVE  /\ PaperInv'
         /\ (\A p \in Price : p < Unit) /\ session = "open" /\ book'.cash < book.cash
              => book'.cash >= Reserve[book'.capital]
<1> DEFINE Spares == (\A p \in Price : p < Unit) /\ session = "open" /\ book'.cash < book.cash
                     => book'.cash >= Reserve[book'.capital]
<1>1. /\ book \in Book /\ Balanced(book) /\ disk.book \in Book /\ Balanced(disk.book)
      /\ book.capital \in Capitals /\ book.cash \in Int
  BY DEF PaperInv, Book
<1>2. ASSUME NEW t \in Ticker, Buy(t) PROVE PaperInv' /\ Spares
  <2>1. /\ book' \in Book /\ Balanced(book') /\ book'.capital = book.capital
        /\ (\A p \in Price : p < Unit) => book'.cash >= Reserve[book.capital]
    BY <1>1, <1>2, BuyBalances
  <2>2. disk' = disk
    BY <1>2 DEF Buy
  <2> QED BY <1>1, <2>1, <2>2 DEF PaperInv
<1>3. ASSUME NEW t \in Ticker, Sell(t) PROVE PaperInv' /\ Spares
  <2>1. book' \in Book /\ Balanced(book') /\ book'.cash >= book.cash /\ book'.cash \in Int
    BY <1>1, <1>3, SellBalances DEF Book
  <2>2. disk' = disk
    BY <1>3 DEF Sell
  <2>3. PaperInv'
    BY <1>1, <2>1, <2>2 DEF PaperInv
  <2> QED BY <1>1, <2>1, <2>3
<1>4. ASSUME \/ disk' = disk /\ book' = book
             \/ book' = book /\ disk'.book \in {book, NewBook(book.capital)}
      PROVE  PaperInv' /\ Spares
  <2>1. PaperInv'
    BY <1>1, <1>4, FreshBalances DEF PaperInv
  <2> QED BY <1>1, <1>4, <2>1
<1>5. CASE Save \/ Saved
  BY <1>4, <1>5 DEF Save, Saved
<1>6. CASE Killed
  <2>1. /\ book' = NewBook(book.capital) /\ disk' = disk
        /\ book'.capital = book.capital /\ book'.cash = book.capital
    BY <1>6 DEF Killed, NewBook
  <2>2. PaperInv'
    BY <1>1, <2>1, FreshBalances DEF PaperInv
  <2> QED BY <1>1, <2>1, <2>2, PaperConstants
<1>7. CASE Load
  <2>1. PICK c \in Capitals :
          book' = IF disk.file = "whole" THEN [disk.book EXCEPT !.capital = c] ELSE NewBook(c)
    BY <1>7 DEF Load
  <2>2. book' \in Book /\ Balanced(book') /\ disk' = disk /\ session = "down"
    BY <1>1, <1>7, <2>1, FreshBalances, LoadBalances DEF Load
  <2> QED BY <1>1, <2>2 DEF PaperInv
<1>8. CASE UNCHANGED paperVars
  BY <1>4, <1>8 DEF paperVars
<1> QED BY <1>2, <1>3, <1>5, <1>6, <1>7, <1>8 DEF PaperNext

\* tools/quant/paper.py buy, sell and load: over any number of fills, saves cut
\* off, and restarts under any configured capital, cash and positions at cost
\* less the profit are what the account began with, up to the roundings of the
\* fills.
THEOREM BooksBalanceAlways == PaperSpec => []BooksBalance
<1>1. PaperInv => BooksBalance
  <2> SUFFICES ASSUME PaperInv, NEW b \in {book, disk.book}
               PROVE  Distance2(Unit * (b.cash - b.pnl) + AtCost(b), Unit * b.deposit) <= b.rounding
    BY DEF BooksBalance
  <2>1. b \in Book /\ Balanced(b)
    BY DEF PaperInv
  <2>2. /\ b.cash \in Int /\ b.pnl \in Int /\ b.rounding \in Nat /\ b.deposit \in Nat
        /\ b.pos \in [Ticker -> Position]
    BY <2>1 DEF Book
  <2>3. AtCost(b) \in Int
    <3> DEFINE w == Worth(b)
    <3>1. \A p \in Position : p.shares * p.avg \in Int
      BY DEF Position
    <3>2. w \in [Ticker -> Int]
      BY <2>2, <3>1 DEF Worth
    <3>3. PICK f : Sums(f, w, Ticker) /\ AtCost(b) = f[Ticker]
      BY AtCostIsSum
    <3> HIDE DEF w
    <3> QED BY <3>2, <3>3, SumsTake, PaperConstants
  <2>4. Unit * (b.cash - b.pnl) \in Int /\ Unit * b.deposit \in Int
    BY <2>2, PaperConstants
  <2> QED BY <2>1, <2>2, <2>3, <2>4 DEF Balanced, Balance, Distance2
<1> QED BY <1>1, InitPaper, PaperStep, PTL DEF PaperSpec

\* tools/quant/paper.py buy: while a unit of a share (10^-6) is worth less than a
\* cent - a price below $10,000 - no order takes a cent of the reserve, whatever
\* it asks for and whatever the rounding of its shares.
THEOREM ReserveKeptAlways ==
  ASSUME \A p \in Price : p < Unit
  PROVE  PaperSpec => ReserveKept
<1>1. PaperInv /\ [PaperNext]_paperVars
        => PaperInv' /\ [session = "open" /\ book'.cash < book.cash
                           => book'.cash >= Reserve[book'.capital]]_paperVars
  BY PaperStep
<1> QED BY <1>1, InitPaper, PTL DEF PaperSpec, ReserveKept
=============================================================================
