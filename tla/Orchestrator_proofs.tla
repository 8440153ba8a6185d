------------------------- MODULE Orchestrator_proofs -------------------------
(***************************************************************************)
(* Safety of decompose and run for every DAG, every answer of the workers  *)
(* and every pattern of failing appends.                                   *)
(***************************************************************************)
EXTENDS Orchestrator, TaskGraph_proofs

Settled == {"succeeded", "failed", "needs_critique", "blocked"}

\* Where the loop stands: nothing has happened to the nodes ahead of it, and
\* a call in flight belongs to a leaf all of whose dependencies succeeded.
Ahead(k) == \A i \in k..Len(order) : state[order[i]] = "pending" /\ attempts[order[i]] = 0

LoopInv ==
  /\ pc = "decomposing" =>
       at = 1 /\ \A n \in Id : state[n] = "pending" /\ attempts[n] = 0
  /\ pc \in {"looping", "returned"} => Ahead(at)
  /\ pc \in {"calling", "handling"} =>
       /\ at <= Len(order)
       /\ Current # Root
       /\ UnmetDeps(Current) = {}
       /\ state[Current] \in {"running", "succeeded", "needs_critique"}
       /\ pc = "calling" => state[Current] = "running"
       /\ attempts[Current] = 1
       /\ Ahead(at + 1)

RunInv ==
  /\ TypeOK
  /\ GraphInv
  /\ LoopInv
  /\ \A t \in Past \ {Root} : state[t] \in Settled
  /\ BlockedExactly
  /\ BlockedHasCulprit

-----------------------------------------------------------------------------
\* The order's two properties, in terms of what lies behind the loop.
LEMMA PastIsClosed ==
  ASSUME TypeOK, GraphInv
  PROVE  /\ Past \subseteq nodes
         /\ nodes \subseteq Id
         /\ \A t \in Past : deps[t] \subseteq Past
         /\ at <= Len(order) =>
              /\ Current \in nodes
              /\ Current \notin Past
              /\ deps[Current] \subseteq Past
<1>1. /\ order \in Seq(nodes) /\ Len(order) \in Nat /\ at \in 1..(Len(order) + 1)
      /\ \A i \in 1..Len(order) : order[i] \in nodes
      /\ nodes \subseteq Id
  BY ElementOfSeq DEF TypeOK, GraphTypeOK
<1>2. \A i \in 1..Len(order) : \A d \in deps[order[i]] : \E j \in 1..(i - 1) : order[j] = d
  BY DEF GraphInv, SoundOrder, OrderRespectsDeps
<1>3. \A i, j \in 1..Len(order) : order[i] = order[j] => i = j
  BY DEF GraphInv, SoundOrder, OrderHasNoRepeats
<1>4. Past \subseteq nodes
  BY <1>1 DEF Past
<1>5. ASSUME NEW t \in Past, NEW d \in deps[t]
      PROVE  d \in Past
  <2>1. PICK i \in 1..Len(order) : i < at /\ t = order[i]
    BY DEF Past
  <2>2. PICK j \in 1..(i - 1) : order[j] = d
    BY <1>2, <2>1
  <2>3. j \in 1..Len(order) /\ j < at
    BY <1>1, <2>1
  <2> QED BY <2>2, <2>3 DEF Past
<1>6. ASSUME at <= Len(order)
      PROVE  Current \in nodes /\ Current \notin Past /\ deps[Current] \subseteq Past
  <2>1. at \in 1..Len(order) /\ Current = order[at]
    BY <1>1, <1>6 DEF Current
  <2>2. Current \notin Past
    <3> SUFFICES ASSUME NEW i \in 1..Len(order), i < at, order[i] = order[at]
                 PROVE  FALSE
      BY <2>1 DEF Past
    <3> QED BY <1>1, <1>3, <2>1
  <2>3. ASSUME NEW d \in deps[Current] PROVE d \in Past
    <3>1. PICK j \in 1..(at - 1) : order[j] = d
      BY <1>2, <2>1, <2>3
    <3>2. j \in 1..Len(order) /\ j < at
      BY <1>1, <2>1
    <3> QED BY <3>1, <3>2 DEF Past
  <2> QED BY <1>1, <2>1, <2>2, <2>3
<1> QED BY <1>1, <1>4, <1>5, <1>6

\* Moving the loop forward puts the current node behind it, and no other.
LEMMA PastGrows ==
  ASSUME TypeOK, GraphInv, at <= Len(order), at' = at + 1, order' = order
  PROVE  Past' = Past \cup {Current}
<1>1. Len(order) \in Nat /\ at \in 1..Len(order) /\ Current = order[at]
  BY LenProperties DEF TypeOK, GraphTypeOK, Current
<1>2. \A i \in 1..Len(order) : i < at + 1 <=> i < at \/ i = at
  BY <1>1
<1> QED BY <1>1, <1>2 DEF Past

LEMMA PastStays ==
  ASSUME at' = at, order' = order
  PROVE  Past' = Past
BY DEF Past

LEMMA InitRunInv == Init => RunInv
<1> SUFFICES ASSUME Init PROVE RunInv
  OBVIOUS
<1>1. GraphInv
  BY GraphInitInv DEF Init
<1>2. order = <<>> /\ Len(order) = 0
  BY EmptySeq DEF Init, GraphInit
<1>3. TypeOK
  <2>1. ledger \in Seq(Entry)
    BY EmptySeq DEF Init
  <2>2. cut \in BOOLEAN
    BY Zenon DEF Init
  <2> QED BY <1>1, <1>2, <2>1, <2>2, RunAssumption
          DEF Init, TypeOK, GraphInv, TaskState, Conf, ProgramPoint
<1>4. Past = {}
  BY <1>2 DEF Past
<1>5. LoopInv
  BY DEF Init, LoopInv
<1> QED BY <1>1, <1>3, <1>4, <1>5 DEF RunInv, BlockedExactly, BlockedHasCulprit

LEMMA DecomposeInv == RunInv /\ Decompose => RunInv'
<1> SUFFICES ASSUME RunInv, Decompose PROVE RunInv'
  OBVIOUS
<1>1. GraphInv'
  BY GraphNextInv DEF RunInv, Decompose
<1>2. /\ pc = "decomposing" /\ at = 1
      /\ UNCHANGED <<state, conf, attempts, at, pc, ledger, cut, faults>>
  BY DEF RunInv, LoopInv, Decompose, runVars
<1>3. TypeOK'
  <2>1. GraphTypeOK' /\ Len(order') \in Nat
    BY <1>1, LenProperties DEF GraphInv, GraphTypeOK
  <2> QED BY <1>2, <2>1 DEF RunInv, TypeOK
<1>4. Past' = {}
  <2>1. at' = 1
    BY <1>2
  <2> QED BY <2>1 DEF Past
<1>5. LoopInv'
  BY <1>2 DEF RunInv, LoopInv
<1> QED BY <1>1, <1>3, <1>4, <1>5 DEF RunInv, BlockedExactly, BlockedHasCulprit

-----------------------------------------------------------------------------
PastInv ==
  /\ \A t \in Past \ {Root} : state[t] \in Settled
  /\ BlockedExactly
  /\ BlockedHasCulprit

\* A step that gives the current node a new state does not disturb what is
\* behind the loop, and may put the node there if its verdict is the right one.
LEMMA CurrentStep ==
  ASSUME RunInv, at <= Len(order), Current # Root, NEW s \in TaskState,
         state' = [state EXCEPT ![Current] = s],
         UNCHANGED graphVars,
         \/ state[Current] \notin {"blocked", "failed", "needs_critique"}
         \/ s \in {"failed", "needs_critique"},
         \/ at' = at
         \/ /\ at' = at + 1
            /\ s \in Settled
            /\ s = "blocked" <=> UnmetDeps(Current) # {}
  PROVE  PastInv'
<1>1. /\ TypeOK /\ GraphInv
      /\ order' = order /\ deps' = deps /\ nodes' = nodes
  BY DEF RunInv, graphVars
<1>2. /\ Past \subseteq nodes /\ nodes \subseteq Id
      /\ \A t \in Past : deps[t] \subseteq Past
      /\ Current \in nodes /\ Current \notin Past /\ deps[Current] \subseteq Past
  BY <1>1, PastIsClosed
<1>3. /\ \A n \in Id \ {Current} : state'[n] = state[n]
      /\ state'[Current] = s
  BY <1>1, <1>2 DEF TypeOK
<1>4. /\ Past' = Past \/ Past' = Past \cup {Current}
      /\ at' = at + 1 \/ Past' = Past
  BY <1>1, PastGrows, PastStays
<1> PICK cur \in Id : cur = Current
  BY <1>2
<1>5. ASSUME NEW t \in Past \ {Root}
      PROVE  /\ state'[t] \in Settled
             /\ state'[t] = "blocked" <=> \E d \in deps'[t] : state'[d] # "succeeded"
             /\ state'[t] = "blocked" => Culprit(t)'
  <2>1. state'[t] = state[t] /\ \A d \in deps[t] : state'[d] = state[d]
    BY <1>2, <1>3
  <2>2. /\ state[t] \in Settled
        /\ state[t] = "blocked" <=> \E d \in deps[t] : state[d] # "succeeded"
    BY DEF RunInv, BlockedExactly
  <2>3. ASSUME state[t] = "blocked" PROVE Culprit(t)'
    <3>1. PICK S \in SUBSET nodes :
            /\ t \in S
            /\ \E c \in S : c = Root \/ state[c] \in {"failed", "needs_critique"}
            /\ \A m \in S : \/ m = Root
                            \/ state[m] \in {"failed", "needs_critique"}
                            \/ state[m] = "blocked" /\ deps[m] \cap S # {}
      BY <2>3 DEF RunInv, BlockedHasCulprit, Culprit
    <3>2. \A m \in S : state'[m] = state[m] \/ m = Current
      BY <1>2, <1>3
    <3>3. \A m \in S : m = Current => s \in {"failed", "needs_critique"}
      BY <3>1
    <3>4. \A m \in S : \/ m = Root
                       \/ state'[m] \in {"failed", "needs_critique"}
                       \/ state'[m] = "blocked" /\ deps'[m] \cap S # {}
      BY <1>1, <1>3, <3>1, <3>2, <3>3
    <3>5. \E c \in S : c = Root \/ state'[c] \in {"failed", "needs_critique"}
      BY <1>3, <3>1, <3>2, <3>3
    <3> QED BY <1>1, <3>1, <3>4, <3>5 DEF Culprit
  <2> QED BY <1>1, <2>1, <2>2, <2>3
<1>6. ASSUME at' = at + 1
      PROVE  /\ state'[Current] \in Settled
             /\ state'[Current] = "blocked" <=> \E d \in deps'[Current] : state'[d] # "succeeded"
             /\ state'[Current] = "blocked" => Culprit(cur)'
  <2>1. at \in Nat /\ at' # at
    BY <1>1, <1>6 DEF TypeOK
  <2>2. s \in Settled /\ (s = "blocked" <=> UnmetDeps(Current) # {})
    BY <2>1
  <2>3. \A d \in deps[Current] : state'[d] = state[d]
    BY <1>2, <1>3
  <2>4. ASSUME s = "blocked" PROVE Culprit(cur)'
    <3>1. PICK d \in deps[Current] : state[d] # "succeeded"
      BY <2>2, <2>4 DEF UnmetDeps
    <3>2. d \in Past /\ d \in nodes /\ state'[d] = state[d] /\ d # Current
      BY <1>2, <2>3
    <3>3. ASSUME d = Root \/ state[d] \in {"failed", "needs_critique"}
          PROVE  Culprit(cur)'
      <4> DEFINE S == {d, cur}
      <4>1. S \in SUBSET nodes' /\ cur \in S /\ d \in S /\ deps'[Current] \cap S # {}
        BY <1>1, <1>2, <3>2
      <4>2. \A m \in S : m = d \/ m = cur
        OBVIOUS
      <4> HIDE DEF S
      <4> QED BY <1>3, <2>4, <3>2, <3>3, <4>1, <4>2 DEF Culprit
    <3>4. ASSUME d # Root, state[d] = "blocked"
          PROVE  Culprit(cur)'
      <4>1. Culprit(d)'
        BY <1>5, <3>2, <3>4
      <4>2. PICK S \in SUBSET nodes' :
              /\ d \in S
              /\ \E c \in S : c = Root \/ state'[c] \in {"failed", "needs_critique"}
              /\ \A m \in S : \/ m = Root
                              \/ state'[m] \in {"failed", "needs_critique"}
                              \/ state'[m] = "blocked" /\ deps'[m] \cap S # {}
        BY <4>1 DEF Culprit
      <4> DEFINE T == S \cup {cur}
      <4>3. /\ T \in SUBSET nodes' /\ cur \in T /\ d \in T /\ S \subseteq T
            /\ \A m \in T : m \in S \/ m = Current
        BY <1>1, <1>2, <4>2
      <4> HIDE DEF T
      <4>4. \E c \in T : c = Root \/ state'[c] \in {"failed", "needs_critique"}
        BY <4>2, <4>3
      <4>5. deps'[Current] \cap T # {}
        BY <1>1, <3>1, <4>3
      <4>6. \A m \in T : \/ m = Root
                         \/ state'[m] \in {"failed", "needs_critique"}
                         \/ state'[m] = "blocked" /\ deps'[m] \cap T # {}
        BY <1>3, <2>4, <4>2, <4>3, <4>5
      <4> QED BY <4>3, <4>4, <4>6 DEF Culprit
    <3>5. d = Root \/ state[d] \in {"failed", "needs_critique", "blocked"}
      BY <3>1, <3>2 DEF RunInv, Settled
    <3> QED BY <3>3, <3>4, <3>5
  <2> QED BY <1>1, <1>3, <2>2, <2>3, <2>4 DEF UnmetDeps
<1>7. \A t \in Past' \ {Root} : t \in Past \ {Root} \/ (t = Current /\ at' = at + 1)
  BY <1>4
<1>8. \A t \in Past' \ {Root} :
        /\ state'[t] \in Settled
        /\ state'[t] = "blocked" <=> \E d \in deps'[t] : state'[d] # "succeeded"
        /\ state'[t] = "blocked" => Culprit(t)'
  <2> SUFFICES ASSUME NEW t \in Past' \ {Root}
               PROVE  /\ state'[t] \in Settled
                      /\ state'[t] = "blocked" <=> \E d \in deps'[t] : state'[d] # "succeeded"
                      /\ state'[t] = "blocked" => Culprit(t)'
    OBVIOUS
  <2>1. CASE t \in Past \ {Root}
    BY <1>5, <2>1
  <2>2. CASE t = Current /\ at' = at + 1
    BY <1>6, <2>2
  <2> QED BY <1>7, <2>1, <2>2
<1> QED BY <1>8 DEF PastInv, BlockedExactly, BlockedHasCulprit

\* Steps that leave the nodes alone, and the loop too unless it skips the root.
LEMMA QuietStep ==
  ASSUME RunInv, UNCHANGED graphVars, UNCHANGED state,
         \/ UNCHANGED at
         \/ at' = at + 1 /\ at <= Len(order) /\ Current = Root
  PROVE  GraphInv' /\ PastInv'
<1>1. TypeOK /\ GraphInv /\ order' = order /\ deps' = deps /\ nodes' = nodes
  BY DEF RunInv, graphVars
<1>2. GraphInv'
  BY <1>1, GraphNextInv
<1>3. \A t \in Past' \ {Root} : t \in Past
  BY <1>1, PastGrows, PastStays
<1>4. ASSUME NEW t \in Id PROVE Culprit(t)' <=> Culprit(t)
  BY <1>1 DEF Culprit
<1>5. \A t \in Past' : t \in Id
  <2>1. Past' \subseteq nodes
    BY <1>1, PastGrows, PastStays, PastIsClosed
  <2> QED BY <2>1, <1>1, PastIsClosed
<1>6. ASSUME NEW t \in Past' \ {Root}
      PROVE  /\ state'[t] \in Settled
             /\ state'[t] = "blocked" <=> \E d \in deps'[t] : state'[d] # "succeeded"
             /\ state'[t] = "blocked" => Culprit(t)'
  <2>1. t \in Past \ {Root} /\ t \in Id
    BY <1>3, <1>5
  <2>2. Culprit(t)' <=> Culprit(t)
    BY <1>4, <2>1
  <2>3. state[t] = "blocked" => Culprit(t)
    BY <2>1 DEF RunInv, BlockedHasCulprit
  <2>4. /\ state[t] \in Settled
        /\ state[t] = "blocked" <=> \E d \in deps[t] : state[d] # "succeeded"
    BY <2>1 DEF RunInv, BlockedExactly
  <2> QED BY <1>1, <2>2, <2>3, <2>4
<1>7. PastInv'
  BY <1>6 DEF PastInv, BlockedExactly, BlockedHasCulprit
<1> QED BY <1>2, <1>7

\* An append, successful or not, keeps the ledger's types.
LEMMA LogType ==
  ASSUME TypeOK, NEW type \in {"decompose", "dispatch", "result", "critique", "error", "blocked"},
         NEW t \in Id, NEW c \in Conf,
         Log(type, t, c) \/ LogFails
  PROVE  ledger' \in Seq(Entry) /\ cut' \in BOOLEAN /\ faults' \in 0..MaxFaults
<1>1. [type |-> type, task |-> t, conf |-> c] \in Entry /\ Broken \in Entry
  BY GraphAssumption, RunAssumption DEF Entry, Broken, Conf
<1>2. ledger \in Seq(Entry) /\ faults \in 0..MaxFaults /\ cut \in BOOLEAN
  BY DEF TypeOK
<1>3. ASSUME NEW e \in Entry PROVE Append(ledger, e) \in Seq(Entry)
  BY <1>2, AppendProperties
<1>4. CASE Log(type, t, c)
  BY <1>1, <1>2, <1>3, <1>4 DEF Log
<1>5. CASE LogFails
  <2>1. faults' \in 0..MaxFaults
    BY <1>2, <1>5, RunAssumption DEF LogFails
  <2>2. ledger' \in Seq(Entry) /\ cut' \in BOOLEAN
    BY <1>1, <1>2, <1>3, <1>5, Zenon DEF LogFails
  <2> QED BY <2>1, <2>2
<1> QED BY <1>4, <1>5

LEMMA OrderBounds ==
  ASSUME TypeOK, GraphInv
  PROVE  /\ Len(order) \in Nat /\ at \in Nat /\ at <= Len(order) + 1
         /\ \A i \in 1..Len(order) : order[i] \in Id
         /\ at <= Len(order) =>
              \A i \in (at + 1)..Len(order) : order[i] # Current
<1>1. /\ order \in Seq(nodes) /\ nodes \subseteq Id /\ Len(order) \in Nat
      /\ at \in 1..(Len(order) + 1)
  BY LenProperties DEF TypeOK, GraphTypeOK
<1>2. \A i \in 1..Len(order) : order[i] \in Id
  BY <1>1, ElementOfSeq
<1>3. \A i, j \in 1..Len(order) : order[i] = order[j] => i = j
  BY DEF GraphInv, SoundOrder, OrderHasNoRepeats
<1> QED BY <1>1, <1>2, <1>3 DEF Current

LEMMA RecordInv == RunInv /\ RecordDecomposition => RunInv'
<1> SUFFICES ASSUME RunInv, RecordDecomposition PROVE RunInv'
  OBVIOUS
<1>1. GraphInv' /\ PastInv'
  <2>1. UNCHANGED graphVars /\ UNCHANGED state /\ UNCHANGED at
    BY DEF RecordDecomposition
  <2> QED BY <2>1, QuietStep
<1>2. TypeOK /\ Root \in Id /\ 0 \in Conf
  BY GraphAssumption, RunAssumption DEF RunInv, Conf
<1>3. ledger' \in Seq(Entry) /\ cut' \in BOOLEAN /\ faults' \in 0..MaxFaults
  BY <1>2, LogType DEF RecordDecomposition
<1>4. TypeOK'
  BY <1>1, <1>2, <1>3 DEF TypeOK, GraphInv, ProgramPoint, RecordDecomposition, graphVars
<1>5. LoopInv'
  <2>1. at = 1 /\ \A n \in Id : state[n] = "pending" /\ attempts[n] = 0
    BY DEF RunInv, LoopInv, RecordDecomposition
  <2>2. \A i \in 1..Len(order) : order[i] \in Id
    BY OrderBounds DEF RunInv
  <2> QED BY <2>1, <2>2 DEF LoopInv, Ahead, RecordDecomposition, graphVars
<1> QED BY <1>1, <1>4, <1>5 DEF RunInv, PastInv

LEMMA SkipRootInv == RunInv /\ SkipRoot => RunInv'
<1> SUFFICES ASSUME RunInv, SkipRoot PROVE RunInv'
  OBVIOUS
<1>1. GraphInv' /\ PastInv'
  BY QuietStep DEF SkipRoot
<1>2. /\ Len(order) \in Nat /\ at \in Nat /\ at <= Len(order)
      /\ order' = order /\ at' = at + 1
  BY OrderBounds DEF RunInv, SkipRoot, graphVars
<1>3. TypeOK'
  BY <1>1, <1>2 DEF RunInv, TypeOK, GraphInv, SkipRoot
<1>4. LoopInv'
  <2>1. pc = "looping" /\ pc' = "looping" /\ state' = state /\ attempts' = attempts
    BY DEF SkipRoot
  <2>2. Ahead(at)
    BY <2>1 DEF RunInv, LoopInv
  <2>3. Ahead(at)'
    BY <1>2, <2>1, <2>2 DEF Ahead
  <2> QED BY <2>1, <2>3 DEF LoopInv
<1> QED BY <1>1, <1>3, <1>4 DEF RunInv, PastInv

LEMMA BlockInv == RunInv /\ Block => RunInv'
<1> SUFFICES ASSUME RunInv, Block PROVE RunInv'
  OBVIOUS
<1>1. /\ TypeOK /\ GraphInv /\ at <= Len(order) /\ Current # Root
      /\ UNCHANGED graphVars /\ order' = order
  BY DEF RunInv, Block, graphVars
<1>2. /\ Len(order) \in Nat /\ at \in 1..Len(order) /\ Current \in Id
      /\ \A i \in (at + 1)..Len(order) : order[i] # Current /\ order[i] \in Id
  BY <1>1, OrderBounds DEF TypeOK, Current
<1>3. state[Current] = "pending"
  BY <1>2 DEF RunInv, LoopInv, Ahead, Block, Current
<1>4. at' = at \/ at' = at + 1
  BY DEF Block
<1>5. PastInv'
  BY <1>1, <1>3, <1>4, CurrentStep DEF Block, TaskState, Settled
<1>6. GraphInv'
  BY <1>1, GraphNextInv
<1>7. ledger' \in Seq(Entry) /\ cut' \in BOOLEAN /\ faults' \in 0..MaxFaults
  BY <1>1, <1>2, LogType, RunAssumption DEF Block, Conf
<1>8. TypeOK'
  BY <1>1, <1>2, <1>4, <1>6, <1>7 DEF TypeOK, GraphInv, ProgramPoint, TaskState, Block
<1>9. LoopInv'
  <2>1. Ahead(at + 1)
    BY <1>2 DEF RunInv, LoopInv, Ahead, Block
  <2>3. CASE pc' = "looping" /\ at' = at + 1
    <3>1. Ahead(at)'
      BY <1>1, <1>2, <2>1, <2>3 DEF Ahead, TypeOK, Block
    <3> QED BY <2>3, <3>1 DEF LoopInv
  <2>4. CASE pc' = "raised"
    BY <2>4 DEF LoopInv
  <2> QED BY <2>3, <2>4 DEF Block
<1> QED BY <1>5, <1>6, <1>8, <1>9 DEF RunInv, PastInv

LEMMA DispatchInv == RunInv /\ Dispatch => RunInv'
<1> SUFFICES ASSUME RunInv, Dispatch PROVE RunInv'
  OBVIOUS
<1>1. /\ TypeOK /\ GraphInv /\ at <= Len(order) /\ Current # Root
      /\ UNCHANGED graphVars /\ order' = order /\ deps' = deps /\ at' = at
  BY DEF RunInv, Dispatch, graphVars
<1>2. /\ Len(order) \in Nat /\ at \in 1..Len(order) /\ Current \in Id /\ Current' = Current
      /\ \A i \in (at + 1)..Len(order) : order[i] # Current /\ order[i] \in Id
  BY <1>1, OrderBounds DEF TypeOK, Current
<1>3. state[Current] = "pending" /\ attempts[Current] = 0
  BY <1>2 DEF RunInv, LoopInv, Ahead, Dispatch, Current
<1>4. PastInv'
  BY <1>1, <1>3, CurrentStep DEF Dispatch, TaskState
<1>5. GraphInv'
  BY <1>1, GraphNextInv
<1>6. ledger' \in Seq(Entry) /\ cut' \in BOOLEAN /\ faults' \in 0..MaxFaults
  BY <1>1, <1>2, LogType, RunAssumption DEF Dispatch, Conf
<1>7. TypeOK'
  BY <1>1, <1>2, <1>5, <1>6 DEF TypeOK, GraphInv, ProgramPoint, TaskState, Dispatch
<1>8. UnmetDeps(Current)' = {}
  <2>1. Current \notin deps[Current] /\ deps[Current] \subseteq Id
    BY <1>1, PastIsClosed
  <2> QED BY <1>1, <1>2, <2>1 DEF Dispatch, UnmetDeps, TypeOK
<1>9. LoopInv'
  <2>1. Ahead(at + 1)
    BY <1>2 DEF RunInv, LoopInv, Ahead, Dispatch
  <2>2. Ahead(at + 1)'
    BY <1>1, <1>2, <2>1 DEF Ahead, TypeOK, Dispatch
  <2>3. attempts'[Current] = 1
    BY <1>1, <1>2, <1>3 DEF TypeOK, Dispatch
  <2> QED BY <1>1, <1>2, <1>8, <2>2, <2>3 DEF LoopInv, TypeOK, Dispatch
<1> QED BY <1>4, <1>5, <1>7, <1>9 DEF RunInv, PastInv

\* What holds while a call is in flight or its exception is being handled.
LEMMA InFlight ==
  ASSUME RunInv, pc \in {"calling", "handling"}, UNCHANGED graphVars
  PROVE  /\ TypeOK /\ GraphInv /\ GraphInv'
         /\ at <= Len(order) /\ Current # Root /\ Current \in Id
         /\ UnmetDeps(Current) = {} /\ Ahead(at + 1)
         /\ state[Current] \in {"running", "succeeded", "needs_critique"}
         /\ attempts[Current] = 1
         /\ Current \notin deps[Current] /\ deps[Current] \subseteq Id
         /\ Len(order) \in Nat /\ at \in 1..Len(order)
         /\ \A i \in (at + 1)..Len(order) : order[i] # Current /\ order[i] \in Id
         /\ order' = order /\ deps' = deps
<1>1. TypeOK /\ GraphInv /\ LoopInv /\ order' = order /\ deps' = deps
  BY DEF RunInv, graphVars
<1>2. at <= Len(order) /\ Current # Root /\ UnmetDeps(Current) = {} /\ Ahead(at + 1)
      /\ state[Current] \in {"running", "succeeded", "needs_critique"}
      /\ attempts[Current] = 1
  BY <1>1 DEF LoopInv
<1>3. Len(order) \in Nat /\ at \in 1..Len(order) /\ Current \in Id
      /\ \A i \in (at + 1)..Len(order) : order[i] # Current /\ order[i] \in Id
  BY <1>1, <1>2, OrderBounds DEF TypeOK, Current
<1>4. Current \notin deps[Current] /\ deps[Current] \subseteq Id
  BY <1>1, <1>2, PastIsClosed
<1>5. GraphInv'
  BY <1>1, GraphNextInv
<1> QED BY <1>1, <1>2, <1>3, <1>4, <1>5

LEMMA AnswerInv == ASSUME NEW v \in RawConf, RunInv, Answer(v) PROVE RunInv'
<1>1. UNCHANGED graphVars /\ pc = "calling" /\ attempts' = attempts
  BY DEF Answer
<1>2. state[Current] = "running"
  BY <1>1 DEF RunInv, LoopInv
<1>3. /\ Graded(v) \in {"succeeded", "needs_critique"}
      /\ Clamp(v) \in Conf
  BY RunAssumption DEF Graded, Clamp, Conf, RawConf
<1>4. at' = at \/ at' = at + 1
  BY DEF Answer
<1>5. state' = [state EXCEPT ![Current] = Graded(v)]
  BY DEF Answer
<1>6. PastInv'
  BY <1>1, <1>2, <1>3, <1>4, <1>5, InFlight, CurrentStep DEF TaskState, Settled
<1>7. ledger' \in Seq(Entry) /\ cut' \in BOOLEAN /\ faults' \in 0..MaxFaults
  BY <1>1, <1>3, InFlight, LogType DEF Answer
<1>8. TypeOK'
  BY <1>1, <1>3, <1>4, <1>5, <1>7, InFlight
  DEF TypeOK, GraphInv, ProgramPoint, TaskState, Answer
<1>9. LoopInv'
  <2>1. CASE pc' = "looping" /\ at' = at + 1
    <3>1. Ahead(at)'
      BY <1>1, <1>5, <2>1, InFlight DEF Ahead, TypeOK
    <3> QED BY <2>1, <3>1 DEF LoopInv
  <2>2. CASE pc' = "handling" /\ at' = at
    <3>1. Ahead(at + 1)' /\ Current' = Current /\ state'[Current] = Graded(v)
      BY <1>1, <1>5, <2>2, InFlight DEF Ahead, Current, TypeOK
    <3>2. UnmetDeps(Current)' = {}
      BY <1>1, <1>5, <3>1, InFlight DEF UnmetDeps, TypeOK
    <3> QED BY <1>1, <1>3, <2>2, <3>1, <3>2, InFlight DEF LoopInv
  <2> QED BY <2>1, <2>2 DEF Answer
<1> QED BY <1>1, <1>6, <1>8, <1>9, InFlight DEF RunInv, PastInv

LEMMA RouterRaisesInv == RunInv /\ RouterRaises => RunInv'
<1> SUFFICES ASSUME RunInv, RouterRaises PROVE RunInv'
  OBVIOUS
<1>1. /\ UNCHANGED graphVars /\ pc = "calling" /\ pc' = "handling"
      /\ state' = state /\ conf' = conf /\ attempts' = attempts /\ at' = at
      /\ ledger' = ledger /\ cut' = cut /\ faults' = faults
  BY DEF RouterRaises
<1>2. GraphInv' /\ PastInv'
  BY <1>1, QuietStep
<1>3. TypeOK'
  BY <1>1, <1>2, InFlight DEF TypeOK, GraphInv, ProgramPoint
<1>4. LoopInv'
  <2>1. Ahead(at + 1)' /\ Current' = Current /\ UnmetDeps(Current)' = {}
    BY <1>1, InFlight DEF Ahead, Current, UnmetDeps
  <2> QED BY <1>1, <2>1, InFlight DEF LoopInv
<1> QED BY <1>2, <1>3, <1>4 DEF RunInv, PastInv

LEMMA HandleExceptionInv == RunInv /\ HandleException => RunInv'
<1> SUFFICES ASSUME RunInv, HandleException PROVE RunInv'
  OBVIOUS
<1>1. UNCHANGED graphVars /\ pc = "handling" /\ attempts' = attempts /\ conf' = conf
  BY DEF HandleException
<1>2. at' = at \/ at' = at + 1
  BY DEF HandleException
<1>3. state' = [state EXCEPT ![Current] = "failed"]
  BY DEF HandleException
<1>4. PastInv'
  BY <1>1, <1>2, <1>3, InFlight, CurrentStep DEF TaskState, Settled
<1>5. ledger' \in Seq(Entry) /\ cut' \in BOOLEAN /\ faults' \in 0..MaxFaults
  BY <1>1, InFlight, LogType, RunAssumption DEF HandleException, Conf
<1>6. TypeOK'
  BY <1>1, <1>2, <1>3, <1>5, InFlight
  DEF TypeOK, GraphInv, ProgramPoint, TaskState, HandleException
<1>7. LoopInv'
  <2>1. CASE pc' = "looping" /\ at' = at + 1
    <3>1. Ahead(at)'
      BY <1>1, <1>3, <2>1, InFlight DEF Ahead, TypeOK
    <3> QED BY <2>1, <3>1 DEF LoopInv
  <2>2. CASE pc' = "raised"
    BY <2>2 DEF LoopInv
  <2> QED BY <2>1, <2>2 DEF HandleException
<1> QED BY <1>1, <1>4, <1>6, <1>7, InFlight DEF RunInv, PastInv

\* The exception that escapes, the return and stuttering.
LEMMA EndInv == RunInv /\ (HandlerRaises \/ Return \/ UNCHANGED vars) => RunInv'
<1> SUFFICES ASSUME RunInv, HandlerRaises \/ Return \/ UNCHANGED vars
             PROVE  RunInv'
  OBVIOUS
<1>1. /\ UNCHANGED graphVars /\ order' = order /\ deps' = deps
      /\ pc' = "escaped" \/ (pc = "looping" /\ pc' = "returned") \/ pc' = pc
      /\ state' = state /\ conf' = conf /\ attempts' = attempts /\ at' = at
      /\ ledger' = ledger /\ cut' = cut /\ faults' = faults
  BY DEF HandlerRaises, Return, vars, graphVars
<1>2. GraphInv' /\ PastInv'
  BY <1>1, QuietStep
<1>3. TypeOK'
  BY <1>1, <1>2 DEF RunInv, TypeOK, GraphInv, ProgramPoint
<1>4. LoopInv'
  <2>1. /\ Ahead(at)' = Ahead(at) /\ Ahead(at + 1)' = Ahead(at + 1)
        /\ Current' = Current /\ UnmetDeps(Current)' = UnmetDeps(Current)
    BY <1>1 DEF Ahead, Current, UnmetDeps
  <2> QED BY <1>1, <2>1 DEF RunInv, LoopInv
<1> QED BY <1>2, <1>3, <1>4 DEF RunInv, PastInv

LEMMA NextRunInv == RunInv /\ [Next]_vars => RunInv'
BY DecomposeInv, RecordInv, SkipRootInv, BlockInv, DispatchInv, AnswerInv,
   RouterRaisesInv, HandleExceptionInv, EndInv DEF Next

-----------------------------------------------------------------------------
THEOREM RunInvariance == Spec => []RunInv
BY InitRunInv, NextRunInv, PTL DEF Spec

\* Type correctness of decompose and run.
THEOREM TypeCorrect == Spec => []TypeOK
BY RunInvariance, PTL DEF RunInv

\* orchestrator.py run: for every DAG, a leaf behind the loop is BLOCKED if and
\* only if one of its dependencies did not succeed.
THEOREM BlockedExactlyAlways == Spec => []BlockedExactly
BY RunInvariance, PTL DEF RunInv

\* orchestrator.py run: every BLOCKED leaf traces back, through BLOCKED leaves,
\* to a leaf that failed or was doubted, or to the root.
THEOREM BlockedHasCulpritAlways == Spec => []BlockedHasCulprit
BY RunInvariance, PTL DEF RunInv

-----------------------------------------------------------------------------
\* What a reader of the ledger concludes.

HasLast(t) == \E i \in EntriesOf(t) : \A j \in EntriesOf(t) : j <= i

\* Every task with an entry has a last one; a file that can be read tells the
\* state of every task but the root, and but the one whose exception is being
\* handled.
TellsState ==
  /\ \A t \in Id : EntriesOf(t) # {} => HasLast(t)
  /\ cut => ~Readable
  /\ pc = "decomposing" => ledger = <<>>
  /\ Readable /\ pc \in {"looping", "calling", "returned"} =>
       \A t \in Id \ {Root} : state[t] = Replayed(t)
  /\ Readable /\ pc = "handling" =>
       \A t \in Id \ {Root, Current} : state[t] = Replayed(t)

\* An entry is the last one of its task, and leaves those of the others.
LEMMA AppendEntry ==
  ASSUME ledger \in Seq(Entry), NEW e \in Entry, ledger' = Append(ledger, e), NEW t \in Id,
         EntriesOf(t) # {} => HasLast(t)
  PROVE  /\ EntriesOf(t)' # {} => HasLast(t)'
         /\ t = e.task => EntriesOf(t)' # {} /\ LastEntry(t)' = e
         /\ t # e.task =>
              /\ EntriesOf(t)' = EntriesOf(t) /\ Replayed(t)' = Replayed(t)
              /\ EntriesOf(t) # {} => LastEntry(t)' = LastEntry(t)
<1> DEFINE n == Len(ledger) + 1
<1>1. /\ Len(ledger) \in Nat /\ Len(ledger') = n /\ ledger'[n] = e
      /\ \A i \in 1..Len(ledger) : ledger'[i] = ledger[i]
  BY DEF Entry
<1>2. CASE t = e.task
  <2>1. EntriesOf(t)' = EntriesOf(t) \cup {n}
    BY <1>1, <1>2 DEF EntriesOf
  <2>2. n \in EntriesOf(t)' /\ \A j \in EntriesOf(t)' : j <= n
    BY <1>1, <2>1 DEF EntriesOf
  <2>3. ASSUME NEW i \in EntriesOf(t)', \A j \in EntriesOf(t)' : j <= i
        PROVE  i = n
    BY <1>1, <2>1, <2>2, <2>3 DEF EntriesOf
  <2>4. LastEntry(t)' = ledger'[n]
    BY <2>2, <2>3 DEF LastEntry
  <2> QED BY <1>1, <1>2, <2>2, <2>4 DEF HasLast
<1>3. CASE t # e.task
  <2>1. EntriesOf(t)' = EntriesOf(t)
    BY <1>1, <1>3 DEF EntriesOf
  <2>2. CASE EntriesOf(t) = {}
    BY <1>3, <2>1, <2>2 DEF Replayed
  <2>3. CASE EntriesOf(t) # {}
    <3>1. LastEntry(t)' = LastEntry(t)
      <4> DEFINE k == CHOOSE i \in EntriesOf(t) : \A j \in EntriesOf(t) : j <= i
      <4>1. k \in EntriesOf(t)
        BY <2>3 DEF HasLast
      <4>2. k \in 1..Len(ledger)
        BY <4>1 DEF EntriesOf
      <4> QED BY <1>1, <2>1, <4>2 DEF LastEntry
    <3> QED BY <1>3, <2>1, <2>3, <3>1 DEF Replayed, HasLast
  <2> QED BY <2>2, <2>3
<1> QED BY <1>2, <1>3

LEMMA SameLedger ==
  ASSUME UNCHANGED ledger, NEW t \in Id
  PROVE  Replayed(t)' = Replayed(t) /\ EntriesOf(t)' = EntriesOf(t) /\ HasLast(t)' = HasLast(t)
BY DEF Replayed, EntriesOf, LastEntry, HasLast

\* A file that cannot be read stays so.
LEMMA AppendReads ==
  ASSUME ledger \in Seq(Entry), NEW e \in Entry, ledger' = Append(ledger, e)
  PROVE  Readable' <=> Readable /\ e.type # "broken"
<1>1. /\ Len(ledger) \in Nat /\ Len(ledger') = Len(ledger) + 1
      /\ ledger'[Len(ledger) + 1] = e
      /\ \A i \in 1..Len(ledger) : ledger'[i] = ledger[i]
  BY DEF Entry
<1> QED BY <1>1 DEF Readable

\* An append that fails leaves the file as it was, or unreadable.
LEMMA FailedAppend ==
  ASSUME ledger \in Seq(Entry), TellsState, LogFails
  PROVE  /\ \A t \in Id : EntriesOf(t)' # {} => HasLast(t)'
         /\ cut' => ~Readable'
         /\ Readable' => Readable /\ \A t \in Id : Replayed(t)' = Replayed(t)
<1>1. Broken \in Entry /\ Broken.type = "broken"
  BY GraphAssumption, RunAssumption DEF Entry, Broken, Conf
<1>2. CASE ledger' = ledger /\ (cut' => cut)
  BY <1>2, SameLedger DEF TellsState, Readable
<1>3. CASE cut /\ ledger' = ledger
  BY <1>3, SameLedger DEF TellsState, Readable
<1>4. CASE ledger' = Append(ledger, Broken)
  <2>1. \A t \in Id : EntriesOf(t)' # {} => HasLast(t)'
    BY <1>1, <1>4, AppendEntry DEF TellsState
  <2> QED BY <1>1, <1>4, <2>1, AppendReads
<1> QED BY <1>2, <1>3, <1>4 DEF LogFails

\* What the entry of a step about the current node is read as.
ReadAs(type, c) ==
  CASE type = "dispatch" -> "running"
    [] type = "result"   -> Graded(c)
    [] type = "error"    -> "failed"
    [] type = "blocked"  -> "blocked"

\* A step gives the current node a new state and appends the entry that says
\* so, or loses it in a line no reader can parse.
LEMMA CurrentLogged ==
  ASSUME RunInv, TellsState, pc \in {"looping", "calling", "handling"}, Current \in Id,
         NEW type \in {"dispatch", "result", "error", "blocked"}, NEW c \in Conf,
         state' = [state EXCEPT ![Current] = ReadAs(type, c)],
         Log(type, Current, c)
  PROVE  /\ \A t \in Id : EntriesOf(t)' # {} => HasLast(t)'
         /\ ~cut'
         /\ Readable' => \A t \in Id \ {Root} : state'[t] = Replayed(t)'
<1> DEFINE e == [type |-> type, task |-> Current, conf |-> c]
<1>1. /\ e \in Entry /\ ledger \in Seq(Entry) /\ state \in [Id -> TaskState]
      /\ ledger' = (IF cut THEN ledger ELSE Append(ledger, e)) /\ ~cut'
      /\ e.type = type /\ e.task = Current /\ e.conf = c
  BY DEF Entry, Log, RunInv, TypeOK
<1> HIDE DEF e
<1>2. \A t \in Id : EntriesOf(t) # {} => HasLast(t)
  BY DEF TellsState
<1>3. CASE cut
  BY <1>1, <1>2, <1>3, SameLedger DEF TellsState, Readable
<1>4. CASE ~cut
  <2>1. ASSUME NEW t \in Id
        PROVE  /\ EntriesOf(t)' # {} => HasLast(t)'
               /\ t = Current => EntriesOf(t)' # {} /\ LastEntry(t)' = e
               /\ t # Current => Replayed(t)' = Replayed(t)
    BY <1>1, <1>2, <1>4, AppendEntry
  <2>2. Readable' => Readable
    BY <1>1, <1>4, AppendReads
  <2>3. ASSUME NEW t \in Id \ {Root}, Readable' PROVE state'[t] = Replayed(t)'
    <3>1. CASE t = Current
      <4>1. EntriesOf(t)' # {} /\ LastEntry(t)' = e
        BY <2>1, <3>1
      <4>2. Replayed(t)' = ReadAs(type, c)
        BY <1>1, <4>1 DEF Replayed, ReadAs, Graded
      <4> QED BY <1>1, <3>1, <4>2
    <3>2. CASE t # Current
      <4>1. state[t] = Replayed(t)
        BY <2>2, <2>3, <3>2 DEF TellsState
      <4> QED BY <1>1, <2>1, <3>2, <4>1
    <3> QED BY <3>1, <3>2
  <2> QED BY <1>1, <2>1, <2>3
<1> QED BY <1>3, <1>4

\* A step that appends nothing keeps the file's claims about all but a node it
\* touches.
LEMMA NothingLogged ==
  ASSUME TellsState, UNCHANGED <<ledger, cut>>
  PROVE  /\ \A t \in Id : EntriesOf(t)' # {} => HasLast(t)'
         /\ Readable' = Readable /\ (cut' => ~Readable')
         /\ \A t \in Id : state'[t] = state[t] /\ state[t] = Replayed(t)
                            => state'[t] = Replayed(t)'
BY SameLedger DEF TellsState, Readable

LEMMA InitTells == Init => TellsState
<1> SUFFICES ASSUME Init PROVE TellsState
  OBVIOUS
<1>1. \A t \in Id : EntriesOf(t) = {}
  BY EmptySeq DEF Init, EntriesOf
<1> QED BY <1>1 DEF Init, TellsState

LEMMA DecomposeTells ==
  ASSUME RunInv, TellsState, Decompose \/ RecordDecomposition
  PROVE  TellsState'
<1>1. CASE Decompose
  <2>1. pc' = pc /\ ledger' = ledger /\ cut' = cut /\ pc = "decomposing"
    BY <1>1 DEF Decompose, runVars
  <2> QED BY <2>1, NothingLogged DEF TellsState
<1>2. CASE RecordDecomposition
  <2>1. /\ pc = "decomposing" /\ ledger = <<>> /\ state' = state
        /\ \A t \in Id : state[t] = "pending"
    BY <1>2 DEF RunInv, LoopInv, TellsState, RecordDecomposition
  <2>2. \A t \in Id : EntriesOf(t) = {} /\ Replayed(t) = "pending"
    BY <2>1, EmptySeq DEF EntriesOf, Replayed
  <2>3. CASE Log("decompose", Root, 0) /\ pc' = "looping"
    <3> DEFINE e == [type |-> "decompose", task |-> Root, conf |-> 0]
    <3>1. /\ e \in Entry /\ ledger \in Seq(Entry) /\ e.task = Root /\ ~cut'
          /\ ledger' = ledger \/ ledger' = Append(ledger, e)
      BY <2>3, GraphAssumption, RunAssumption DEF Entry, Conf, Log, RunInv, TypeOK
    <3> HIDE DEF e
    <3>2. CASE ledger' = Append(ledger, e)
      <4>1. \A t \in Id : /\ EntriesOf(t)' # {} => HasLast(t)'
                          /\ t # Root => Replayed(t)' = Replayed(t)
        BY <2>2, <3>1, <3>2, AppendEntry
      <4> QED BY <2>1, <2>2, <2>3, <3>1, <4>1 DEF TellsState
    <3>3. CASE ledger' = ledger
      BY <2>1, <2>2, <2>3, <3>1, <3>3, SameLedger DEF TellsState
    <3> QED BY <3>1, <3>2, <3>3
  <2>4. CASE LogFails /\ pc' = "raised"
    BY <2>4, FailedAppend DEF TellsState, RunInv, TypeOK
  <2> QED BY <1>2, <2>3, <2>4 DEF RecordDecomposition
<1> QED BY <1>1, <1>2

LEMMA LoopTells ==
  ASSUME RunInv, TellsState, Block \/ Dispatch
  PROVE  TellsState'
<1>1. pc = "looping" /\ Current \in Id /\ 0 \in Conf
  <2>1. at <= Len(order)
    BY DEF Block, Dispatch
  <2> QED BY <2>1, PastIsClosed, RunAssumption DEF RunInv, Block, Dispatch, Conf
<1>2. CASE Block
  <2>1. CASE Log("blocked", Current, 0) /\ pc' = pc
    <3>1. state' = [state EXCEPT ![Current] = ReadAs("blocked", 0)]
      BY <1>2 DEF Block, ReadAs
    <3> QED BY <1>1, <2>1, <3>1, CurrentLogged DEF TellsState
  <2>2. CASE LogFails /\ pc' = "raised"
    BY <2>2, FailedAppend DEF TellsState, RunInv, TypeOK
  <2> QED BY <1>2, <2>1, <2>2 DEF Block
<1>3. CASE Dispatch
  <2>1. CASE Log("dispatch", Current, 0) /\ pc' = "calling"
    <3>1. state' = [state EXCEPT ![Current] = ReadAs("dispatch", 0)]
      BY <1>3 DEF Dispatch, ReadAs
    <3> QED BY <1>1, <2>1, <3>1, CurrentLogged DEF TellsState
  <2>2. CASE LogFails /\ pc' = "raised"
    BY <2>2, FailedAppend DEF TellsState, RunInv, TypeOK
  <2> QED BY <1>3, <2>1, <2>2 DEF Dispatch
<1> QED BY <1>2, <1>3

\* The confidence in the entry is the clamped one, the grade is of the raw one.
LEMMA ClampGrades == ASSUME NEW v \in RawConf
                     PROVE  Clamp(v) \in Conf /\ Graded(Clamp(v)) = Graded(v)
BY RunAssumption DEF Clamp, Graded, Conf, RawConf

LEMMA AnswerTells ==
  ASSUME RunInv, TellsState, NEW v \in RawConf, Answer(v)
  PROVE  TellsState'
<1>1. pc = "calling" /\ UNCHANGED graphVars
  BY DEF Answer
<1>2. Current \in Id /\ state \in [Id -> TaskState]
  BY <1>1, InFlight DEF RunInv, TypeOK
<1>3. CASE Log("result", Current, Clamp(v)) /\ pc' = "looping"
  <2>1. state' = [state EXCEPT ![Current] = ReadAs("result", Clamp(v))]
    BY ClampGrades DEF Answer, ReadAs
  <2> QED BY <1>1, <1>2, <1>3, <2>1, ClampGrades, CurrentLogged DEF TellsState
<1>4. CASE LogFails /\ pc' = "handling" /\ at' = at
  <2>1. Current' = Current /\ \A t \in Id \ {Current} : state'[t] = state[t]
    BY <1>1, <1>2, <1>4 DEF Current, Answer, graphVars
  <2>2. Readable => \A t \in Id \ {Root} : state[t] = Replayed(t)
    BY <1>1 DEF TellsState
  <2> QED BY <1>4, <2>1, <2>2, FailedAppend DEF TellsState, RunInv, TypeOK
<1> QED BY <1>3, <1>4 DEF Answer

LEMMA HandlingTells ==
  ASSUME RunInv, TellsState, HandleException
  PROVE  TellsState'
<1>1. pc = "handling" /\ UNCHANGED graphVars /\ 0 \in Conf
  BY RunAssumption DEF HandleException, Conf
<1>2. Current \in Id
  BY <1>1, InFlight
<1>3. CASE Log("error", Current, 0) /\ pc' = "looping"
  <2>1. state' = [state EXCEPT ![Current] = ReadAs("error", 0)]
    BY DEF HandleException, ReadAs
  <2> QED BY <1>1, <1>2, <1>3, <2>1, CurrentLogged DEF TellsState
<1>4. CASE LogFails /\ pc' = "raised"
  BY <1>4, FailedAppend DEF TellsState, RunInv, TypeOK
<1> QED BY <1>3, <1>4 DEF HandleException

\* The steps that neither touch a node nor append an entry.
LEMMA QuietTells ==
  ASSUME RunInv, TellsState,
         SkipRoot \/ RouterRaises \/ HandlerRaises \/ Return \/ UNCHANGED vars
  PROVE  TellsState'
<1>1. /\ state' = state /\ ledger' = ledger /\ cut' = cut
      /\ \/ pc' = pc /\ Current' = Current
         \/ pc = "looping" /\ pc' \in {"looping", "returned"}
         \/ pc = "calling" /\ pc' = "handling"
         \/ pc' = "escaped"
  BY DEF SkipRoot, RouterRaises, HandlerRaises, Return, vars, Current
<1> QED BY <1>1, NothingLogged DEF TellsState

LEMMA NextTells == RunInv /\ TellsState /\ [Next]_vars => TellsState'
BY DecomposeTells, LoopTells, AnswerTells, HandlingTells, QuietTells DEF Next

\* orchestrator.py run: as long as it goes on, and when it has returned, the
\* last entry about a leaf says what state the leaf is in, in every file that
\* read_all can still parse.  A failed append that tears a line costs the whole
\* file, never a part of what it says.
THEOREM LedgerTellsStateAlways == Spec => []LedgerTellsState
<1>1. RunInv /\ TellsState => LedgerTellsState
  BY DEF RunInv, TypeOK, GraphTypeOK, TellsState, LedgerTellsState, Leaves
<1> QED BY <1>1, RunInvariance, InitTells, NextTells, PTL DEF Spec

-----------------------------------------------------------------------------
(* decompose and run implement DelegationContract, for every DAG, every     *)
(* answer of the workers and every pattern of failing appends.              *)

\* What the contract's variables stand for.
Tasks == IF pc = "decomposing" THEN {} ELSE nodes
Waits == IF pc = "decomposing" THEN [n \in Id |-> {}] ELSE deps
Busy == IF pc \in {"calling", "handling"} THEN {Current} ELSE {}
Verdicts == [t \in Id |-> Verdict(t)]

\* The graph that leaves the sort is closed: every dependency is a node, and
\* run only walks such a graph.
ClosedGraph ==
  /\ Root \in nodes
  /\ \A n \in Id \ nodes : deps[n] = {}
  /\ phase = "valid" => \A n \in nodes : deps[n] \subseteq nodes
  /\ pc # "decomposing" => phase = "valid"

ContractInv == RunInv /\ ClosedGraph

-----------------------------------------------------------------------------
LEMMA InitContractInv == Init => ContractInv
<1> SUFFICES ASSUME Init PROVE ContractInv
  OBVIOUS
<1>1. RunInv
  BY InitRunInv
<1>2. ClosedGraph
  BY DEF Init, GraphInit, ClosedGraph
<1> QED BY <1>1, <1>2 DEF ContractInv

LEMMA NextContractInv == ContractInv /\ [Next]_vars => ContractInv'
<1> SUFFICES ASSUME ContractInv, [Next]_vars PROVE ContractInv'
  OBVIOUS
<1>1. RunInv /\ ClosedGraph /\ RunInv'
  BY NextRunInv DEF ContractInv
<1>2. CASE Decompose
  <2>1. pc = "decomposing" /\ pc' = pc
    BY <1>2 DEF Decompose, runVars
  <2>2. CASE AddLeaf
    <3>1. /\ nodes' = nodes \cup {NextLeaf.id} /\ phase' # "valid"
          /\ deps' = [deps EXCEPT ![NextLeaf.id] = NextLeaf.deps]
      BY <2>2 DEF AddLeaf, WithLeaf
    <3>2. \A n \in Id \ nodes' : deps'[n] = {}
      BY <1>1, <3>1 DEF ClosedGraph, RunInv, TypeOK, GraphTypeOK
    <3> QED BY <1>1, <2>1, <3>1, <3>2 DEF ClosedGraph, ContractInv
  <2>3. CASE Finish
    BY <1>1, <2>1, <2>3 DEF Finish, ClosedGraph, ContractInv, RunInv, GraphInv, KahnInv
  <2>4. CASE RejectLeaf \/ UnknownDependency \/ StartSort \/ Pop
    BY <1>1, <2>1, <2>4 DEF RejectLeaf, UnknownDependency, StartSort, Pop, ClosedGraph, ContractInv
  <2> QED BY <1>2, <2>2, <2>3, <2>4 DEF Decompose, GraphNext
<1>3. CASE RecordDecomposition
  BY <1>1, <1>3 DEF RecordDecomposition, graphVars, ClosedGraph, ContractInv
<1>4. CASE UNCHANGED graphVars /\ pc # "decomposing"
  BY <1>1, <1>4 DEF graphVars, ClosedGraph, ContractInv
<1>5. CASE UNCHANGED vars
  BY <1>1, <1>5 DEF vars, ClosedGraph, ContractInv
<1>6. SkipRoot \/ Block \/ Dispatch \/ (\E v \in RawConf : Answer(v)) \/ RouterRaises
        \/ HandleException \/ HandlerRaises \/ Return
        => UNCHANGED graphVars /\ pc # "decomposing"
  BY DEF SkipRoot, Block, Dispatch, Answer, RouterRaises, HandleException, HandlerRaises, Return
<1> QED BY <1>2, <1>3, <1>4, <1>5, <1>6 DEF Next

-----------------------------------------------------------------------------
\* A step after acceptance that keeps the graph.
Running == UNCHANGED graphVars /\ pc # "decomposing" /\ pc' # "decomposing"

LEMMA RunningKeepsTasks == ASSUME Running PROVE UNCHANGED <<Tasks, Waits>>
BY DEF Running, Tasks, Waits, graphVars

\* Nothing of the contract's state changes.
Stutters == UNCHANGED <<Tasks, Waits, Busy, Verdicts>>

LEMMA StutterMaps == Stutters => UNCHANGED Contract!contractVars
BY DEF Stutters, Contract!contractVars, Tasks, Waits, Busy, Verdicts

\* A task whose state stays has the verdict it had, outside the handler.
LEMMA SameVerdict ==
  ASSUME NEW t \in Id, state'[t] = state[t],
         pc = "handling" => t # Current,
         pc' = "handling" => t # Current'
  PROVE  Verdict(t)' = Verdict(t)
BY DEF Verdict

LEMMA SameVerdicts ==
  ASSUME UNCHANGED state, pc # "handling", pc' # "handling"
  PROVE  UNCHANGED Verdicts
<1>1. \A t \in Id : Verdict(t)' = Verdict(t)
  BY SameVerdict
<1> QED BY <1>1 DEF Verdicts

\* One task gets a verdict.
LEMMA NewVerdict ==
  ASSUME NEW t \in Id, \A u \in Id \ {t} : Verdict(u)' = Verdict(u)
  PROVE  Verdicts' = [Verdicts EXCEPT ![t] = Verdict(t)']
BY DEF Verdicts

-----------------------------------------------------------------------------
LEMMA InitMaps == Init => Contract!Init
<1> SUFFICES ASSUME Init PROVE Contract!Init
  OBVIOUS
<1>1. \A t \in Id : Verdict(t) = "open"
  BY DEF Init, Verdict
<1> QED BY <1>1 DEF Init, Contract!Init

LEMMA DecomposeMaps == ContractInv /\ Decompose => Stutters
<1> SUFFICES ASSUME ContractInv, Decompose PROVE Stutters
  OBVIOUS
<1>1. pc = "decomposing" /\ pc' = pc /\ state' = state
  BY DEF Decompose, runVars
<1> QED BY <1>1, SameVerdicts DEF Stutters, Tasks, Waits, Busy

LEMMA RecordMaps == ContractInv /\ RecordDecomposition => Contract!Accept
<1> SUFFICES ASSUME ContractInv, RecordDecomposition PROVE Contract!Accept
  OBVIOUS
<1>1. /\ pc = "decomposing" /\ pc' \in {"looping", "raised"}
      /\ state' = state /\ nodes' = nodes /\ deps' = deps /\ phase = "valid"
  BY DEF RecordDecomposition, graphVars
<1>2. Tasks = {} /\ Tasks' = nodes /\ Waits' = deps /\ Busy = {} /\ Busy' = {}
  BY <1>1 DEF Tasks, Waits, Busy
<1>3. UNCHANGED Verdicts
  BY <1>1, SameVerdicts
<1>4. nodes \in SUBSET Id /\ deps \in [Id -> SUBSET Id] /\ ~HasCycle(deps) /\ GraphInv
  BY DEF ContractInv, RunInv, TypeOK, GraphTypeOK, GraphInv
<1>5. deps \in [Id -> SUBSET nodes]
  BY <1>1, <1>4 DEF ContractInv, ClosedGraph
<1>6. Root \in nodes
  BY DEF ContractInv, ClosedGraph
<1>7. ~Contract!CircularWait(Waits')
  BY <1>2, <1>4 DEF HasCycle, Contract!CircularWait
<1> QED BY <1>2, <1>3, <1>4, <1>5, <1>6, <1>7 DEF Contract!Accept, Tasks, Waits, Busy, Verdicts

-----------------------------------------------------------------------------
\* The node the loop is at, before it is worked on.
LEMMA AtTheLoop ==
  ASSUME ContractInv, pc = "looping", at <= Len(order)
  PROVE  /\ Current \in nodes /\ Current \in Id
         /\ state[Current] = "pending" /\ Verdict(Current) = "open"
         /\ \A d \in deps[Current] :
              d \in Id /\ (d = Root \/ state[d] \in Settled) /\ d # Current
<1>1. RunInv /\ TypeOK /\ GraphInv
  BY DEF ContractInv, RunInv
<1>2. Current \in nodes /\ Current \in Id /\ Current \notin Past
      /\ deps[Current] \subseteq Past /\ Past \subseteq Id
  BY <1>1, PastIsClosed
<1>3. state[Current] = "pending"
  <2>1. at \in at..Len(order) /\ Ahead(at)
    BY <1>1, OrderBounds DEF RunInv, LoopInv
  <2> QED BY <2>1 DEF Ahead, Current
<1>4. \A d \in Past : d = Root \/ state[d] \in Settled
  BY <1>1 DEF RunInv
<1> QED BY <1>2, <1>3, <1>4 DEF Verdict

LEMMA SkipRootMaps == ContractInv /\ SkipRoot => Stutters
<1> SUFFICES ASSUME ContractInv, SkipRoot PROVE Stutters
  OBVIOUS
<1>1. Running /\ pc = "looping" /\ pc' = "looping" /\ state' = state
  BY DEF SkipRoot, Running
<1> QED BY <1>1, RunningKeepsTasks, SameVerdicts DEF Stutters, Busy

LEMMA BlockMaps == ContractInv /\ Block => \E t \in Id : Contract!Block(t)
<1> SUFFICES ASSUME ContractInv, Block PROVE \E t \in Id : Contract!Block(t)
  OBVIOUS
<1>1. /\ Running /\ pc = "looping" /\ pc' \in {"looping", "raised"}
      /\ at <= Len(order) /\ Current # Root /\ UnmetDeps(Current) # {}
      /\ state' = [state EXCEPT ![Current] = "blocked"]
  BY DEF Block, Running
<1>2. PICK t \in Id : t = Current
  BY <1>1, AtTheLoop
<1>3. state \in [Id -> TaskState] /\ state'[t] = "blocked"
  BY <1>1, <1>2 DEF ContractInv, RunInv, TypeOK
<1>4. Verdicts' = [Verdicts EXCEPT ![t] = "blocked"]
  <2>1. \A u \in Id \ {t} : Verdict(u)' = Verdict(u)
    BY <1>1, <1>2, <1>3, SameVerdict
  <2>2. Verdict(t)' = "blocked"
    BY <1>1, <1>3 DEF Verdict
  <2> QED BY <2>1, <2>2, NewVerdict
<1>5. t \in Tasks \ {Root} /\ t \notin Busy /\ Verdicts[t] = "open" /\ Waits = deps
  BY <1>1, <1>2, AtTheLoop DEF Tasks, Busy, Verdicts, Waits
<1>6. \E d \in deps[t] : d = Root \/ Verdicts[d] \in {"weak", "failed", "blocked"}
  <2>1. PICK d \in deps[t] : state[d] # "succeeded"
    BY <1>1, <1>2 DEF UnmetDeps
  <2>2. d \in Id /\ (d = Root \/ state[d] \in {"failed", "needs_critique", "blocked"})
    BY <1>1, <1>2, <2>1, AtTheLoop DEF Settled
  <2>3. d = Root \/ Verdict(d) \in {"weak", "failed", "blocked"}
    BY <1>1, <2>2 DEF Verdict
  <2> QED BY <2>2, <2>3 DEF Verdicts
<1>7. UNCHANGED <<Tasks, Waits, Busy>>
  BY <1>1, RunningKeepsTasks DEF Busy
<1>8. Contract!Block(t)
  BY <1>4, <1>5, <1>6, <1>7
  DEF Contract!Block, Contract!Undecided, Tasks, Waits, Busy, Verdicts
<1> QED BY <1>8

\* A call whose dispatch entry cannot be written is never made.
LEMMA DispatchMaps ==
  ContractInv /\ Dispatch => Stutters \/ \E t \in Id : Contract!Start(t)
<1> SUFFICES ASSUME ContractInv, Dispatch
             PROVE  Stutters \/ \E t \in Id : Contract!Start(t)
  OBVIOUS
<1>1. /\ Running /\ pc = "looping" /\ pc' \in {"calling", "raised"} /\ at' = at
      /\ order' = order /\ at <= Len(order) /\ Current # Root /\ UnmetDeps(Current) = {}
      /\ state' = [state EXCEPT ![Current] = "running"]
  BY DEF Dispatch, Running, graphVars
<1>2. PICK t \in Id : t = Current
  BY <1>1, AtTheLoop
<1>3. Current' = t /\ state \in [Id -> TaskState] /\ state'[t] = "running"
  BY <1>1, <1>2 DEF ContractInv, RunInv, TypeOK, Current
<1>4. UNCHANGED Verdicts
  <2>1. \A u \in Id \ {t} : Verdict(u)' = Verdict(u)
    BY <1>1, <1>2, <1>3, SameVerdict
  <2>2. Verdict(t) = "open" /\ Verdict(t)' = "open"
    BY <1>1, <1>2, <1>3, AtTheLoop DEF Verdict
  <2> QED BY <2>1, <2>2 DEF Verdicts
<1>5. UNCHANGED <<Tasks, Waits>>
  BY <1>1, RunningKeepsTasks
<1>6. CASE pc' = "raised"
  BY <1>1, <1>4, <1>5, <1>6 DEF Stutters, Busy
<1>7. CASE pc' = "calling"
  <2>1. Busy = {} /\ Busy' = {t}
    BY <1>1, <1>3, <1>7 DEF Busy
  <2>2. t \in Tasks \ {Root} /\ Verdicts[t] = "open" /\ Waits = deps
    BY <1>1, <1>2, AtTheLoop DEF Tasks, Verdicts, Waits
  <2>3. \A d \in deps[t] : Verdicts[d] = "done"
    <3>1. \A d \in deps[t] : d \in Id /\ state[d] = "succeeded"
      BY <1>1, <1>2, AtTheLoop DEF UnmetDeps
    <3> QED BY <1>1, <3>1 DEF Verdicts, Verdict
  <2>4. Contract!Start(t)
    BY <1>4, <1>5, <2>1, <2>2, <2>3
    DEF Contract!Start, Contract!Undecided, Tasks, Waits, Busy, Verdicts
  <2> QED BY <2>4
<1> QED BY <1>1, <1>6, <1>7

-----------------------------------------------------------------------------
\* The end of a call: the node leaves the set of those worked on with a
\* verdict of its own.
LEMMA EndOfCall ==
  ASSUME ContractInv, Running, pc \in {"calling", "handling"},
         pc' \notin {"calling", "handling"}, NEW s \in {"succeeded", "needs_critique", "failed"},
         state' = [state EXCEPT ![Current] = s]
  PROVE  \E t \in Id : Contract!End(t)
<1>1. RunInv /\ UNCHANGED graphVars
  BY DEF ContractInv, Running
<1>2. PICK t \in Id : t = Current
  BY <1>1, InFlight
<1>3. state \in [Id -> TaskState] /\ state'[t] = s
  BY <1>1, <1>2 DEF RunInv, TypeOK
<1>4. PICK v \in {"done", "weak", "failed"} : Verdict(t)' = v
  BY <1>3 DEF Verdict
<1>5. Verdicts' = [Verdicts EXCEPT ![t] = v]
  <2>1. \A u \in Id \ {t} : Verdict(u)' = Verdict(u)
    BY <1>2, <1>3, SameVerdict
  <2> QED BY <1>4, <2>1, NewVerdict
<1>6. Busy = {t} /\ Busy' = {}
  BY <1>2 DEF Busy
<1>7. UNCHANGED <<Tasks, Waits>>
  BY RunningKeepsTasks
<1>8. Contract!End(t)
  BY <1>5, <1>6, <1>7 DEF Contract!End, Tasks, Waits, Busy, Verdicts
<1> QED BY <1>8

\* An answer that cannot be logged is still open: the handler decides.
LEMMA AnswerMaps ==
  ASSUME ContractInv, NEW v \in RawConf, Answer(v)
  PROVE  Stutters \/ \E t \in Id : Contract!End(t)
<1>1. /\ Running /\ pc = "calling" /\ UNCHANGED graphVars /\ order' = order
      /\ state' = [state EXCEPT ![Current] = Graded(v)]
      /\ pc' = "looping" \/ (pc' = "handling" /\ at' = at)
  BY DEF Answer, Running, graphVars
<1>2. CASE pc' = "looping"
  BY <1>1, <1>2, EndOfCall DEF Graded
<1>3. CASE pc' = "handling" /\ at' = at
  <2>1. PICK t \in Id : t = Current
    BY <1>1, InFlight DEF ContractInv
  <2>2. Current' = t /\ state \in [Id -> TaskState] /\ state[t] = "running"
    BY <1>1, <1>3, <2>1 DEF ContractInv, RunInv, TypeOK, LoopInv, Current
  <2>3. UNCHANGED Verdicts
    <3>1. \A u \in Id \ {t} : Verdict(u)' = Verdict(u)
      BY <1>1, <1>3, <2>1, <2>2, SameVerdict
    <3>2. Verdict(t) = "open" /\ Verdict(t)' = "open"
      BY <1>1, <1>3, <2>2 DEF Verdict
    <3> QED BY <3>1, <3>2 DEF Verdicts
  <2> QED BY <1>1, <1>3, <2>1, <2>2, <2>3, RunningKeepsTasks DEF Stutters, Busy
<1> QED BY <1>1, <1>2, <1>3

LEMMA RouterRaisesMaps == ContractInv /\ RouterRaises => Stutters
<1> SUFFICES ASSUME ContractInv, RouterRaises PROVE Stutters
  OBVIOUS
<1>1. /\ Running /\ pc = "calling" /\ pc' = "handling" /\ UNCHANGED graphVars
      /\ UNCHANGED <<state, order, at>> /\ Current' = Current
  BY DEF RouterRaises, Running, graphVars, Current
<1>2. PICK t \in Id : t = Current
  BY <1>1, InFlight DEF ContractInv
<1>3. state[t] = "running"
  BY <1>1, <1>2 DEF ContractInv, RunInv, LoopInv
<1>4. \A u \in Id : Verdict(u)' = Verdict(u)
  <2>1. \A u \in Id \ {t} : Verdict(u)' = Verdict(u)
    BY <1>1, <1>2, SameVerdict
  <2>2. Verdict(t) = "open" /\ Verdict(t)' = "open"
    BY <1>1, <1>2, <1>3 DEF Verdict
  <2> QED BY <2>1, <2>2
<1> QED BY <1>1, <1>4, RunningKeepsTasks DEF Stutters, Busy, Verdicts

LEMMA HandleExceptionMaps == ContractInv /\ HandleException => \E t \in Id : Contract!End(t)
<1> SUFFICES ASSUME ContractInv, HandleException PROVE \E t \in Id : Contract!End(t)
  OBVIOUS
<1>1. /\ Running /\ pc = "handling" /\ pc' \in {"looping", "raised"}
      /\ state' = [state EXCEPT ![Current] = "failed"]
  BY DEF HandleException, Running
<1> QED BY <1>1, EndOfCall

\* The exception that leaves run belongs to an answer that had been accepted.
LEMMA HandlerRaisesMaps == ContractInv /\ HandlerRaises => \E t \in Id : Contract!End(t)
<1> SUFFICES ASSUME ContractInv, HandlerRaises PROVE \E t \in Id : Contract!End(t)
  OBVIOUS
<1>1. /\ Running /\ pc = "handling" /\ pc' = "escaped" /\ UNCHANGED graphVars
      /\ state' = state /\ ~IsValidTransition(state[Current], "failed")
  BY DEF HandlerRaises, Running
<1>2. /\ Current \in Id /\ state \in [Id -> TaskState]
      /\ state[Current] \in {"running", "succeeded", "needs_critique"}
  BY <1>1, InFlight DEF ContractInv, TypeOK
<1>3. state[Current] = "succeeded"
  <2>1. /\ ValidTransitions["running"] = {"succeeded", "failed", "needs_critique"}
        /\ ValidTransitions["needs_critique"] = {"ready", "succeeded", "failed", "blocked"}
    BY DEF ValidTransitions, TaskState
  <2> QED BY <1>1, <1>2, <2>1 DEF IsValidTransition
<1>4. state' = [state EXCEPT ![Current] = "succeeded"]
  BY <1>1, <1>2, <1>3
<1> QED BY <1>1, <1>4, EndOfCall

LEMMA ReturnMaps == ContractInv /\ Return => Stutters
<1> SUFFICES ASSUME ContractInv, Return PROVE Stutters
  OBVIOUS
<1>1. Running /\ pc = "looping" /\ pc' = "returned" /\ state' = state
  BY DEF Return, Running
<1> QED BY <1>1, RunningKeepsTasks, SameVerdicts DEF Stutters, Busy

LEMMA StepMaps ==
  ContractInv /\ [Next]_vars => Contract!Next \/ UNCHANGED Contract!contractVars
<1> SUFFICES ASSUME ContractInv, [Next]_vars
             PROVE  Contract!Next \/ UNCHANGED Contract!contractVars
  OBVIOUS
<1>1. CASE UNCHANGED vars
  BY <1>1 DEF vars, Contract!contractVars, Verdict, Current
<1>2. CASE Decompose \/ SkipRoot \/ RouterRaises \/ Return
  BY <1>2, DecomposeMaps, SkipRootMaps, RouterRaisesMaps, ReturnMaps, StutterMaps
<1>3. CASE RecordDecomposition
  BY <1>3, RecordMaps DEF Contract!Next
<1>4. CASE Block
  BY <1>4, BlockMaps DEF Contract!Next
<1>5. CASE Dispatch
  BY <1>5, DispatchMaps, StutterMaps DEF Contract!Next
<1>6. CASE \E v \in RawConf : Answer(v)
  BY <1>6, AnswerMaps, StutterMaps DEF Contract!Next
<1>7. CASE HandleException \/ HandlerRaises
  BY <1>7, HandleExceptionMaps, HandlerRaisesMaps DEF Contract!Next
<1> QED BY <1>1, <1>2, <1>3, <1>4, <1>5, <1>6, <1>7 DEF Next

-----------------------------------------------------------------------------
\* orchestrator.py decompose and run keep the contract: one call at a time, on
\* a task whose dependencies are done, a block only with a cause, and verdicts
\* that are final.
THEOREM ContractKept == Spec => KeepsContract
<1>1. Spec => []ContractInv
  BY InitContractInv, NextContractInv, PTL DEF Spec
<1>2. Spec => Contract!Spec
  BY <1>1, InitMaps, StepMaps, PTL DEF Spec, Contract!Spec
<1> QED BY <1>2 DEF KeepsContract
=============================================================================
