----------------------------- MODULE Critique_proofs -----------------------------
(***************************************************************************)
(* What a verdict is worth after a run and any number of reruns, for every *)
(* graph, every answer, every threshold and every bound on the retries.    *)
(***************************************************************************)
EXTENDS Critique, Orchestrator_proofs, FiniteSetTheorems

Earned(t) ==
  state[t] = "succeeded" =>
    conf[t] >= Half \/ conf[t] >= Threshold \/ ~MayRetry(attempts[t])

Doubted(t) ==
  state[t] = "needs_critique" /\ (attempts[t] > 1 \/ (Half <= Threshold /\ MayRetry(1)))
    => ShouldRerun(t)

Types ==
  /\ nodes \in SUBSET Id /\ pc \in ProgramPoint
  /\ state \in [Id -> TaskState] /\ conf \in [Id -> Conf] /\ attempts \in [Id -> Nat]

\* Reruns break what holds of a run, but only begin when it is over.
VerdictInv ==
  /\ Types
  /\ inRerun \in SUBSET nodes
  /\ pc # "returned" => RunInv /\ inRerun = {}
  /\ \A t \in Id : Earned(t) /\ Doubted(t)

LEMMA InitVerdicts == CritiqueInit => VerdictInv
<1> SUFFICES ASSUME CritiqueInit PROVE VerdictInv
  OBVIOUS
<1>1. RunInv /\ inRerun = {}
  BY InitRunInv DEF CritiqueInit
<1>2. \A t \in Id : state[t] = "pending"
  BY DEF CritiqueInit, Init
<1> QED BY <1>1, <1>2 DEF VerdictInv, Types, RunInv, TypeOK, GraphTypeOK, Earned, Doubted

\* One task is given a state, a confidence or an attempt.
LEMMA OneTask ==
  ASSUME \A t \in Id : Earned(t) /\ Doubted(t), NEW t \in Id,
         \A u \in Id \ {t} : state'[u] = state[u] /\ conf'[u] = conf[u] /\ attempts'[u] = attempts[u],
         Earned(t)' /\ Doubted(t)'
  PROVE  \A u \in Id : Earned(u)' /\ Doubted(u)'
<1>1. ASSUME NEW u \in Id \ {t} PROVE Earned(u)' /\ Doubted(u)'
  BY <1>1 DEF Earned, Doubted, ShouldRerun
<1> QED BY <1>1

\* The limits compare with a confidence after it is clamped as before.
LEMMA ClampFact ==
  ASSUME NEW v \in RawConf
  PROVE  /\ Clamp(v) \in Conf /\ Half \in Nat
         /\ v < Half => Clamp(v) < Half
         /\ ~(v < Half) => Clamp(v) >= Half
BY RunAssumption DEF Clamp, RawConf, Conf

\* A step of run itself.
LEMMA RunVerdicts ==
  ASSUME VerdictInv, RunInv, Next
  PROVE  \A t \in Id : Earned(t)' /\ Doubted(t)'
<1>1. Types /\ \A t \in Id : Earned(t) /\ Doubted(t)
  BY DEF VerdictInv
<1>2. CASE UNCHANGED <<state, conf, attempts>>
  BY <1>1, <1>2 DEF Earned, Doubted, ShouldRerun
<1>3. ASSUME Block \/ Dispatch \/ HandleException
      PROVE  \A t \in Id : Earned(t)' /\ Doubted(t)'
  <2>1. /\ at <= Len(order) /\ conf' = conf
        /\ attempts' = attempts \/ attempts' = [attempts EXCEPT ![Current] = @ + 1]
        /\ \E s \in {"blocked", "running", "failed"} : state' = [state EXCEPT ![Current] = s]
    BY <1>3 DEF RunInv, LoopInv, Block, Dispatch, HandleException
  <2>2. PICK t \in Id : t = Current
    BY <2>1, PastIsClosed DEF RunInv
  <2>3. /\ state'[t] \in {"blocked", "running", "failed"}
        /\ \A u \in Id \ {t} : state'[u] = state[u] /\ attempts'[u] = attempts[u]
    BY <1>1, <2>1, <2>2 DEF Types
  <2>4. Earned(t)' /\ Doubted(t)'
    BY <2>3 DEF Earned, Doubted
  <2> QED BY <1>1, <2>1, <2>3, <2>4, OneTask
<1>4. ASSUME NEW v \in RawConf, Answer(v)
      PROVE  \A t \in Id : Earned(t)' /\ Doubted(t)'
  <2>1. /\ at <= Len(order) /\ attempts' = attempts
        /\ conf' = [conf EXCEPT ![Current] = Clamp(v)]
        /\ state' = [state EXCEPT ![Current] = Graded(v)]
    BY <1>4 DEF RunInv, LoopInv, Answer
  <2>2. PICK t \in Id : t = Current
    BY <2>1, PastIsClosed DEF RunInv
  <2>3. /\ state'[t] = Graded(v) /\ conf'[t] = Clamp(v)
        /\ \A u \in Id \ {t} : state'[u] = state[u] /\ conf'[u] = conf[u]
    BY <1>1, <2>1, <2>2 DEF Types
  <2>4. Earned(t)'
    BY <2>3, ClampFact DEF Earned, Graded
  <2>5. attempts'[t] = 1 /\ pc = "calling"
    BY <1>4, <2>1, <2>2 DEF RunInv, LoopInv, Answer
  <2>6. Doubted(t)'
    <3> SUFFICES ASSUME state'[t] = "needs_critique", Half <= Threshold, MayRetry(1)
                 PROVE  ShouldRerun(t)'
      BY <2>5 DEF Doubted, MayRetry
    <3>1. Clamp(v) < Half /\ Clamp(v) \in Nat /\ Half \in Nat /\ Threshold \in Nat
      BY <2>3, ClampFact, CritiqueAssumption DEF Graded, Conf
    <3> QED BY <2>3, <2>5, <3>1 DEF ShouldRerun, MayRetry
  <2> QED BY <1>1, <2>1, <2>3, <2>4, <2>6, OneTask
<1>5. Decompose \/ RecordDecomposition \/ SkipRoot \/ RouterRaises \/ HandlerRaises \/ Return
        => UNCHANGED <<state, conf, attempts>>
  BY DEF Decompose, runVars, RecordDecomposition, SkipRoot, RouterRaises, HandlerRaises, Return
<1> QED BY <1>2, <1>3, <1>4, <1>5 DEF Next

LEMMA RunStep == ASSUME VerdictInv, Run PROVE VerdictInv'
<1>1. pc # "returned"
  BY DEF Run, Next, Decompose, RecordDecomposition, SkipRoot, Block, Dispatch, Answer,
         RouterRaises, HandleException, HandlerRaises, Return
<1>2. RunInv /\ inRerun = {} /\ Next /\ inRerun' = {}
  BY <1>1 DEF VerdictInv, Run
<1>3. RunInv'
  BY <1>2, NextRunInv
<1>4. \A t \in Id : Earned(t)' /\ Doubted(t)'
  BY <1>2, RunVerdicts
<1> QED BY <1>2, <1>3, <1>4 DEF VerdictInv, Types, RunInv, TypeOK, GraphTypeOK

-----------------------------------------------------------------------------
LEMMA RerunDispatchStep ==
  ASSUME VerdictInv, NEW t \in nodes, RerunDispatch(t) PROVE VerdictInv'
<1>1. /\ Types /\ t \in Id /\ pc = "returned" /\ pc' = pc /\ nodes' = nodes /\ conf' = conf
      /\ state' = [state EXCEPT ![t] = "running"] /\ attempts' = [attempts EXCEPT ![t] = @ + 1]
      /\ inRerun' \in SUBSET nodes /\ inRerun \in SUBSET nodes
  BY DEF VerdictInv, Types, RerunDispatch, Tried, graphVars
<1>2. Types'
  BY <1>1 DEF Types, TaskState
<1>3. /\ state'[t] = "running"
      /\ \A u \in Id \ {t} : state'[u] = state[u] /\ conf'[u] = conf[u] /\ attempts'[u] = attempts[u]
  BY <1>1 DEF Types
<1>4. Earned(t)' /\ Doubted(t)'
  BY <1>3 DEF Earned, Doubted
<1>5. \A u \in Id : Earned(u)' /\ Doubted(u)'
  BY <1>1, <1>3, <1>4, OneTask DEF VerdictInv
<1> QED BY <1>1, <1>2, <1>5 DEF VerdictInv

LEMMA RerunAnswerStep ==
  ASSUME VerdictInv, NEW t \in nodes, NEW v \in RawConf, RerunAnswer(t, v) PROVE VerdictInv'
<1>1. /\ Types /\ t \in Id /\ inRerun # {} /\ nodes' = nodes /\ pc' = pc /\ attempts' = attempts
      /\ conf' = [conf EXCEPT ![t] = Clamp(v)] /\ inRerun' = {}
      /\ state' = [state EXCEPT ![t] = Regraded(Clamp(v), attempts[t])]
  BY DEF VerdictInv, Types, RerunAnswer, Reconfided, graphVars
<1>2. pc = "returned"
  BY <1>1 DEF VerdictInv
<1>3. Clamp(v) \in Conf /\ Regraded(Clamp(v), attempts[t]) \in {"needs_critique", "succeeded"}
  BY ClampFact DEF Regraded
<1>4. Types'
  BY <1>1, <1>3 DEF Types, TaskState
<1>5. /\ state'[t] = Regraded(Clamp(v), attempts[t]) /\ conf'[t] = Clamp(v)
      /\ \A u \in Id \ {t} : state'[u] = state[u] /\ conf'[u] = conf[u]
  BY <1>1 DEF Types
<1>6. Earned(t)' /\ Doubted(t)'
  <2>1. Clamp(v) \in Nat /\ Threshold \in Nat
    BY <1>3, CritiqueAssumption DEF Conf
  <2>2. CASE Clamp(v) < Threshold /\ MayRetry(attempts[t])
    BY <1>1, <1>5, <2>2 DEF Earned, Doubted, Regraded, ShouldRerun
  <2>3. CASE ~(Clamp(v) < Threshold /\ MayRetry(attempts[t]))
    BY <1>1, <1>5, <2>1, <2>3 DEF Earned, Doubted, Regraded
  <2> QED BY <2>2, <2>3
<1>7. \A u \in Id : Earned(u)' /\ Doubted(u)'
  BY <1>1, <1>5, <1>6, OneTask DEF VerdictInv
<1> QED BY <1>1, <1>2, <1>4, <1>7 DEF VerdictInv

LEMMA NextVerdicts == VerdictInv /\ [CritiqueNext]_critiqueVars => VerdictInv'
<1> SUFFICES ASSUME VerdictInv, [CritiqueNext]_critiqueVars PROVE VerdictInv'
  OBVIOUS
<1>1. ASSUME UNCHANGED vars, inRerun' \in SUBSET inRerun PROVE VerdictInv'
  <2>1. RunInv => RunInv'
    BY <1>1, EndInv
  <2> QED BY <1>1, <2>1 DEF vars, VerdictInv, Types, Earned, Doubted, ShouldRerun
<1>2. CASE UNCHANGED critiqueVars
  BY <1>1, <1>2 DEF critiqueVars, vars
<1>3. ASSUME NEW t \in nodes, RerunRaises(t) PROVE VerdictInv'
  BY <1>1, <1>3 DEF RerunRaises
<1> QED BY <1>2, <1>3, RunStep, RerunDispatchStep, RerunAnswerStep DEF CritiqueNext

-----------------------------------------------------------------------------
\* critique_loop.py rerun: however often a leaf is rerun, its success stands
\* for a confidence one of the limits accepts, or for retries used up.
THEOREM SuccessIsEarnedAlways == CritiqueSpec => []SuccessIsEarned
<1>1. VerdictInv => SuccessIsEarned
  BY DEF VerdictInv, Types, Earned, SuccessIsEarned, Leaves
<1> QED BY <1>1, InitVerdicts, NextVerdicts, PTL DEF CritiqueSpec

\* critique_loop.py should_rerun: no rerun leaves a leaf in doubt that cannot
\* be rerun again, nor does run, unless the loop's threshold is below one half.
THEOREM DoubtCanBeRetriedAlways == CritiqueSpec => []DoubtCanBeRetried
<1>1. VerdictInv => DoubtCanBeRetried
  BY DEF VerdictInv, Types, Doubted, DoubtCanBeRetried, Leaves
<1> QED BY <1>1, InitVerdicts, NextVerdicts, PTL DEF CritiqueSpec

-----------------------------------------------------------------------------
\* What the ledger tells through the reruns.

\* As long as no append failed, every attempt has its dispatch entry and the
\* last entry about a task tells its state.
Told ==
  \A t \in Id :
    /\ EntriesOf(t) # {} => HasLast(t)
    /\ Cardinality(Dispatches(t)) = attempts[t]
    /\ t # Root => state[t] = ReplayedThroughReruns(t)

ToldInv ==
  /\ VerdictInv
  /\ ledger \in Seq(Entry) /\ faults \in Nat
  /\ faults = 0 => Told /\ ~cut

LEMMA AppendDispatches ==
  ASSUME ledger \in Seq(Entry), NEW e \in Entry, ledger' = Append(ledger, e), NEW t \in Id
  PROVE  /\ Cardinality(Dispatches(t)) \in Nat
         /\ Cardinality(Dispatches(t)') =
              IF t = e.task /\ e.type = "dispatch" THEN Cardinality(Dispatches(t)) + 1
              ELSE Cardinality(Dispatches(t))
<1> DEFINE n == Len(ledger) + 1
<1>1. /\ Len(ledger) \in Nat /\ Len(ledger') = n /\ ledger'[n] = e
      /\ \A i \in 1..Len(ledger) : ledger'[i] = ledger[i]
  BY DEF Entry
<1>2. IsFiniteSet(Dispatches(t)) /\ n \notin Dispatches(t)
  <2>1. Dispatches(t) \subseteq 1..Len(ledger) /\ n \notin 1..Len(ledger)
    BY <1>1 DEF Dispatches, EntriesOf
  <2>2. IsFiniteSet(1..Len(ledger))
    BY <1>1, FS_Interval
  <2>3. IsFiniteSet(Dispatches(t))
    BY <2>1, <2>2, FS_Subset
  <2> QED BY <2>1, <2>3
<1>3. CASE t = e.task /\ e.type = "dispatch"
  <2>1. Dispatches(t)' = Dispatches(t) \cup {n}
    BY <1>1, <1>3 DEF Dispatches, EntriesOf
  <2> QED BY <1>2, <1>3, <2>1, FS_AddElement, FS_CardinalityType
<1>4. CASE ~(t = e.task /\ e.type = "dispatch")
  <2>1. Dispatches(t)' = Dispatches(t)
    BY <1>1, <1>4 DEF Dispatches, EntriesOf
  <2> QED BY <1>2, <1>4, <2>1, FS_CardinalityType
<1> QED BY <1>3, <1>4

\* A step that appends the entry which says what it does to the entry's task.
LEMMA ToldStep ==
  ASSUME Told, ledger \in Seq(Entry), NEW e \in Entry, ledger' = Append(ledger, e),
         \A t \in Id : attempts'[t] = IF t = e.task /\ e.type = "dispatch"
                                      THEN attempts[t] + 1 ELSE attempts[t],
         \A t \in Id \ {e.task} : state'[t] = state[t],
         e.task # Root =>
           /\ e.type \in {"dispatch", "result", "error", "blocked", "critique"}
           /\ state'[e.task] = IF e.type = "critique" THEN Regraded(e.conf, attempts'[e.task])
                               ELSE ReadAs(e.type, e.conf)
  PROVE  Told'
<1> SUFFICES ASSUME NEW t \in Id
             PROVE  /\ EntriesOf(t)' # {} => HasLast(t)'
                    /\ Cardinality(Dispatches(t)') = attempts'[t]
                    /\ t # Root => state'[t] = ReplayedThroughReruns(t)'
  BY DEF Told
<1>1. EntriesOf(t) # {} => HasLast(t)
  BY DEF Told
<1>2. /\ EntriesOf(t)' # {} => HasLast(t)'
      /\ t = e.task => EntriesOf(t)' # {} /\ LastEntry(t)' = e
      /\ t # e.task =>
           /\ EntriesOf(t)' = EntriesOf(t) /\ Replayed(t)' = Replayed(t)
           /\ EntriesOf(t) # {} => LastEntry(t)' = LastEntry(t)
  BY <1>1, AppendEntry
<1>3. Cardinality(Dispatches(t)') = attempts'[t]
  BY AppendDispatches DEF Told
<1>4. ASSUME t # Root PROVE state'[t] = ReplayedThroughReruns(t)'
  <2>1. CASE t = e.task
    <3>1. ReplayedThroughReruns(t)' =
            IF e.type = "critique" THEN Regraded(e.conf, attempts'[t]) ELSE Replayed(t)'
      BY <1>2, <1>3, <2>1 DEF ReplayedThroughReruns, Regraded, MayRetry
    <3>2. e.type # "critique" => Replayed(t)' = ReadAs(e.type, e.conf)
      BY <1>2, <1>4, <2>1 DEF Replayed, ReadAs, Graded
    <3> QED BY <1>4, <2>1, <3>1, <3>2
  <2>2. CASE t # e.task
    <3>1. state'[t] = state[t] /\ state[t] = ReplayedThroughReruns(t)
      BY <1>4, <2>2 DEF Told
    <3>2. Cardinality(Dispatches(t)') = Cardinality(Dispatches(t))
      BY <2>2, AppendDispatches
    <3> QED BY <1>2, <2>2, <3>1, <3>2 DEF ReplayedThroughReruns, Regraded, MayRetry
  <2> QED BY <2>1, <2>2
<1> QED BY <1>2, <1>3, <1>4

\* A step that appends nothing and touches no node.
LEMMA ToldStays ==
  ASSUME Told, UNCHANGED <<state, attempts, ledger>>
  PROVE  Told'
<1> SUFFICES ASSUME NEW t \in Id
             PROVE  /\ EntriesOf(t)' # {} => HasLast(t)'
                    /\ Cardinality(Dispatches(t)') = attempts'[t]
                    /\ t # Root => state'[t] = ReplayedThroughReruns(t)'
  BY DEF Told
<1>1. /\ EntriesOf(t)' = EntriesOf(t) /\ HasLast(t)' = HasLast(t) /\ Replayed(t)' = Replayed(t)
      /\ LastEntry(t)' = LastEntry(t) /\ Dispatches(t)' = Dispatches(t)
  BY DEF EntriesOf, HasLast, Replayed, LastEntry, Dispatches
<1> QED BY <1>1 DEF Told, ReplayedThroughReruns, Regraded, MayRetry

\* An append, successful or not, keeps the types and leaves the rest to Told.
LEMMA ToldLog ==
  ASSUME ToldInv, VerdictInv', NEW t \in Id, NEW c \in Conf,
         NEW type \in {"decompose", "dispatch", "result", "critique", "error", "blocked"},
         Log(type, t, c) \/ LogFails,
         \A u \in Id : attempts'[u] = IF u = t /\ type = "dispatch"
                                      THEN attempts[u] + 1 ELSE attempts[u],
         \A u \in Id \ {t} : state'[u] = state[u],
         t # Root =>
           /\ type # "decompose"
           /\ state'[t] = IF type = "critique" THEN Regraded(c, attempts'[t])
                          ELSE ReadAs(type, c)
  PROVE  ToldInv'
<1>1. ledger \in Seq(Entry) /\ faults \in Nat
  BY DEF ToldInv
<1>2. CASE Log(type, t, c)
  <2> DEFINE e == [type |-> type, task |-> t, conf |-> c]
  <2>1. /\ e \in Entry /\ ledger' = (IF cut THEN ledger ELSE Append(ledger, e))
        /\ e.type = type /\ e.task = t /\ e.conf = c /\ ~cut' /\ faults' = faults
    BY <1>2 DEF Entry, Log
  <2> HIDE DEF e
  <2>2. Append(ledger, e) \in Seq(Entry)
    BY <1>1, <2>1, AppendProperties
  <2>3. ledger' \in Seq(Entry)
    BY <1>1, <2>1, <2>2
  <2>4. Told /\ ~cut => Told'
    BY <1>1, <2>1, ToldStep
  <2> QED BY <1>1, <2>1, <2>3, <2>4 DEF ToldInv
<1>3. CASE LogFails
  <2>1. Broken \in Entry
    BY GraphAssumption, RunAssumption DEF Entry, Broken, Conf
  <2>2. Append(ledger, Broken) \in Seq(Entry)
    BY <1>1, <2>1, AppendProperties
  <2>3. ledger' \in Seq(Entry)
    BY <1>1, <1>3, <2>2, Zenon DEF LogFails
  <2>4. faults' \in Nat /\ faults' # 0
    BY <1>1, <1>3 DEF LogFails
  <2> QED BY <2>3, <2>4 DEF ToldInv
<1> QED BY <1>2, <1>3

LEMMA InitTold == CritiqueInit => ToldInv
<1> SUFFICES ASSUME CritiqueInit PROVE ToldInv
  OBVIOUS
<1>1. ledger = <<>> /\ faults = 0 /\ ~cut /\ \A t \in Id : state[t] = "pending" /\ attempts[t] = 0
  BY DEF CritiqueInit, Init
<1>2. \A t \in Id : EntriesOf(t) = {} /\ Dispatches(t) = {}
  BY <1>1, EmptySeq DEF EntriesOf, Dispatches
<1>3. Told
  BY <1>1, <1>2, FS_EmptySet DEF Told, ReplayedThroughReruns, Replayed
<1>4. ledger \in Seq(Entry)
  BY <1>1, EmptySeq
<1> QED BY <1>1, <1>3, <1>4, InitVerdicts DEF ToldInv

LEMMA RunTold ==
  ASSUME ToldInv, Run, VerdictInv' PROVE ToldInv'
<1>1. pc # "returned"
  BY DEF Run, Next, Decompose, RecordDecomposition, SkipRoot, Block, Dispatch, Answer,
         RouterRaises, HandleException, HandlerRaises, Return
<1>2. RunInv /\ Types
  BY <1>1 DEF ToldInv, VerdictInv
<1>3. 0 \in Conf /\ Root \in Id
  BY RunAssumption, GraphAssumption DEF Conf
<1>4. at <= Len(order) => Current \in Id
  BY <1>2, PastIsClosed DEF RunInv
<1>5. CASE UNCHANGED <<state, attempts, ledger, cut, faults>>
  BY <1>5, ToldStays DEF ToldInv
<1>6. CASE RecordDecomposition
  <2>1. /\ Log("decompose", Root, 0) \/ LogFails
        /\ state' = state /\ attempts' = attempts
    BY <1>6 DEF RecordDecomposition
  <2> QED BY <1>3, <2>1, ToldLog
<1>7. CASE Block
  <2>1. /\ Current \in Id /\ attempts' = attempts
        /\ Log("blocked", Current, 0) \/ LogFails
        /\ state' = [state EXCEPT ![Current] = "blocked"]
    BY <1>4, <1>7 DEF Block
  <2>2. state'[Current] = ReadAs("blocked", 0) /\ \A u \in Id \ {Current} : state'[u] = state[u]
    BY <1>2, <2>1 DEF Types, ReadAs
  <2> QED BY <1>3, <2>1, <2>2, ToldLog
<1>8. CASE Dispatch
  <2>1. /\ Current \in Id /\ attempts' = [attempts EXCEPT ![Current] = @ + 1]
        /\ Log("dispatch", Current, 0) \/ LogFails
        /\ state' = [state EXCEPT ![Current] = "running"]
    BY <1>4, <1>8 DEF Dispatch
  <2>2. /\ state'[Current] = ReadAs("dispatch", 0)
        /\ \A u \in Id \ {Current} : state'[u] = state[u]
        /\ \A u \in Id : attempts'[u] = IF u = Current THEN attempts[u] + 1 ELSE attempts[u]
    BY <1>2, <2>1 DEF Types, ReadAs
  <2> QED BY <1>3, <2>1, <2>2, ToldLog
<1>9. ASSUME NEW v \in RawConf, Answer(v) PROVE ToldInv'
  <2>1. /\ Current \in Id /\ attempts' = attempts
        /\ Log("result", Current, Clamp(v)) \/ LogFails
        /\ state' = [state EXCEPT ![Current] = Graded(v)]
    BY <1>2, <1>4, <1>9 DEF Answer, RunInv, LoopInv
  <2>2. /\ Clamp(v) \in Conf /\ state'[Current] = ReadAs("result", Clamp(v))
        /\ \A u \in Id \ {Current} : state'[u] = state[u]
    BY <1>2, <2>1, ClampGrades DEF Types, ReadAs
  <2> QED BY <2>1, <2>2, ToldLog
<1>10. CASE HandleException
  <2>1. /\ Current \in Id /\ attempts' = attempts
        /\ Log("error", Current, 0) \/ LogFails
        /\ state' = [state EXCEPT ![Current] = "failed"]
    BY <1>2, <1>4, <1>10 DEF HandleException, RunInv, LoopInv
  <2>2. state'[Current] = ReadAs("error", 0) /\ \A u \in Id \ {Current} : state'[u] = state[u]
    BY <1>2, <2>1 DEF Types, ReadAs
  <2> QED BY <1>3, <2>1, <2>2, ToldLog
<1>11. Decompose \/ SkipRoot \/ RouterRaises \/ HandlerRaises \/ Return
         => UNCHANGED <<state, attempts, ledger, cut, faults>>
  BY DEF Decompose, runVars, SkipRoot, RouterRaises, HandlerRaises, Return
<1> QED BY <1>5, <1>6, <1>7, <1>8, <1>9, <1>10, <1>11 DEF Run, Next

LEMMA RerunTold ==
  ASSUME ToldInv, VerdictInv', NEW t \in nodes
  PROVE  /\ RerunDispatch(t) => ToldInv'
         /\ RerunRaises(t) => ToldInv'
         /\ \A v \in RawConf : RerunAnswer(t, v) => ToldInv'
<1>1. /\ t \in Id /\ 0 \in Conf
      /\ state \in [Id -> TaskState] /\ attempts \in [Id -> Nat]
  BY RunAssumption DEF ToldInv, VerdictInv, Types, Conf
<1>2. CASE RerunDispatch(t)
  <2>1. /\ attempts' = [attempts EXCEPT ![t] = @ + 1]
        /\ Log("dispatch", t, 0) \/ LogFails
        /\ state' = [state EXCEPT ![t] = "running"]
    BY <1>2 DEF RerunDispatch, Tried
  <2>2. /\ state'[t] = ReadAs("dispatch", 0)
        /\ \A u \in Id \ {t} : state'[u] = state[u]
        /\ \A u \in Id : attempts'[u] = IF u = t THEN attempts[u] + 1 ELSE attempts[u]
    BY <1>1, <2>1 DEF ReadAs
  <2> QED BY <1>1, <2>1, <2>2, ToldLog
<1>3. CASE RerunRaises(t)
  BY <1>3, ToldStays DEF RerunRaises, vars, ToldInv
<1>4. ASSUME NEW v \in RawConf, RerunAnswer(t, v) PROVE ToldInv'
  <2>1. /\ attempts' = attempts
        /\ Log("critique", t, Clamp(v)) \/ LogFails
        /\ state' = [state EXCEPT ![t] = Regraded(Clamp(v), attempts[t])]
    BY <1>4 DEF RerunAnswer
  <2>2. /\ Clamp(v) \in Conf /\ state'[t] = Regraded(Clamp(v), attempts'[t])
        /\ \A u \in Id \ {t} : state'[u] = state[u]
    BY <1>1, <2>1, ClampFact
  <2> QED BY <1>1, <2>1, <2>2, ToldLog
<1> QED BY <1>2, <1>3, <1>4

LEMMA NextTold == ToldInv /\ [CritiqueNext]_critiqueVars => ToldInv'
<1> SUFFICES ASSUME ToldInv, [CritiqueNext]_critiqueVars PROVE ToldInv'
  OBVIOUS
<1>1. VerdictInv'
  BY NextVerdicts DEF ToldInv
<1>2. CASE UNCHANGED critiqueVars
  BY <1>1, <1>2, ToldStays DEF critiqueVars, ToldInv
<1> QED BY <1>1, <1>2, RunTold, RerunTold DEF CritiqueNext

\* critique_loop.py rerun: as long as no append failed, the ledger tells the
\* state of every leaf through the run and all its reruns, the ones whose
\* worker raised included.
THEOREM LedgerTellsRerunStateAlways == CritiqueSpec => []LedgerTellsRerunState
<1>1. ToldInv => LedgerTellsRerunState
  BY DEF ToldInv, VerdictInv, Types, Told, LedgerTellsRerunState, Leaves
<1> QED BY <1>1, InitTold, NextTold, PTL DEF CritiqueSpec
=============================================================================
