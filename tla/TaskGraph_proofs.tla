--------------------------- MODULE TaskGraph_proofs --------------------------
(***************************************************************************)
(* For every finite set of task ids and every list of leaves: the order    *)
(* topological_order computes is sound, the cycle detector and the sort    *)
(* agree, and decompose accepts exactly the well-formed lists.             *)
(***************************************************************************)
EXTENDS TaskGraph, Counting_proofs

-----------------------------------------------------------------------------
\* Two facts about sequences of distinct members.

\* sorted(S) lists every member of S, once.
LEMMA AscendingIsListing ==
  ASSUME NEW S \in SUBSET Id, NEW s \in Ascending(S)
  PROVE  /\ s \in Seq(S)
         /\ Len(s) = Cardinality(S)
         /\ \A i, j \in 1..Len(s) : s[i] = s[j] => i = j
         /\ {s[i] : i \in 1..Len(s)} = S
<1> DEFINE n == Cardinality(S)
<1>1. IsFiniteSet(S) /\ n \in Nat
  BY GraphAssumption, FS_Subset, FS_CardinalityType
<1>2. s \in [1..n -> S]
  BY DEF Ascending
<1>3. s \in Seq(S) /\ Len(s) = n
  BY <1>1, <1>2
<1>4. ASSUME NEW i \in 1..n, NEW j \in 1..n, s[i] = s[j]
      PROVE  i = j
  <2>1. s[i] \in Nat
    BY <1>2, GraphAssumption
  <2>2. i < j => s[i] < s[j]
    BY DEF Ascending
  <2>3. j < i => s[j] < s[i]
    BY DEF Ascending
  <2> QED BY <1>1, <1>4, <2>1, <2>2, <2>3
<1>5. s \in Injection(1..n, S)
  BY <1>2, <1>4 DEF Injection, IsInjective
<1>6. Cardinality(1..n) = n
  BY <1>1, FS_Interval
<1>7. s \in Surjection(1..n, S)
  BY <1>1, <1>5, <1>6, FS_Injection
<1>8. {s[i] : i \in 1..n} = S
  BY <1>2, <1>7 DEF Surjection
<1> QED BY <1>3, <1>4, <1>8

\* The step of the queue: its head leaves and a batch of others joins.
LEMMA QueueStep ==
  ASSUME NEW S, NEW q \in Seq(S), NEW b \in Seq(S), q # <<>>,
         \A i, j \in 1..Len(q) : q[i] = q[j] => i = j,
         \A i, j \in 1..Len(b) : b[i] = b[j] => i = j,
         \A i \in 1..Len(q), j \in 1..Len(b) : q[i] # b[j]
  PROVE  LET r == Tail(q) \o b IN
         /\ r \in Seq(S)
         /\ \A i, j \in 1..Len(r) : r[i] = r[j] => i = j
         /\ {r[i] : i \in 1..Len(r)} =
              ({q[i] : i \in 1..Len(q)} \ {Head(q)}) \cup {b[i] : i \in 1..Len(b)}
<1> DEFINE r == Tail(q) \o b
           k == Len(q) - 1
<1>1. /\ Len(q) \in Nat \ {0}
      /\ Len(b) \in Nat
      /\ Head(q) = q[1]
  BY EmptySeq, LenProperties
<1>2. /\ Tail(q) \in Seq(S)
      /\ Len(Tail(q)) = k
      /\ \A i \in 1..k : Tail(q)[i] = q[i + 1]
  BY HeadTailProperties
<1>3. /\ r \in Seq(S)
      /\ Len(r) = k + Len(b)
      /\ \A i \in 1..(k + Len(b)) : r[i] = IF i <= k THEN Tail(q)[i] ELSE b[i - k]
  BY <1>2, ConcatProperties
<1>4. \A i \in 1..k : r[i] = q[i + 1]
  BY <1>1, <1>2, <1>3
<1>5. \A i \in (k + 1)..Len(r) : r[i] = b[i - k]
  BY <1>1, <1>3
<1>6. ASSUME NEW i \in 1..Len(r), NEW j \in 1..Len(r), r[i] = r[j]
      PROVE  i = j
  <2>1. CASE i <= k /\ j <= k
    BY <1>1, <1>4, <1>6, <2>1
  <2>2. CASE i > k /\ j > k
    <3>1. i - k \in 1..Len(b) /\ j - k \in 1..Len(b)
      BY <1>1, <1>3, <2>2
    <3>2. b[i - k] = b[j - k]
      BY <1>1, <1>3, <1>5, <1>6, <2>2
    <3>3. i - k = j - k
      BY <3>1, <3>2
    <3> QED BY <1>1, <1>3, <3>3
  <2>3. CASE i <= k /\ j > k
    BY <1>1, <1>3, <1>4, <1>5, <1>6, <2>3
  <2>4. CASE i > k /\ j <= k
    BY <1>1, <1>3, <1>4, <1>5, <1>6, <2>4
  <2> QED BY <1>1, <1>3, <2>1, <2>2, <2>3, <2>4
<1>7. ASSUME NEW i \in 1..Len(r)
      PROVE  r[i] \in ({q[m] : m \in 1..Len(q)} \ {Head(q)}) \cup {b[m] : m \in 1..Len(b)}
  <2>1. CASE i <= k
    <3>1. i + 1 \in 1..Len(q) /\ i + 1 # 1
      BY <1>1, <1>3, <2>1
    <3> QED BY <1>1, <1>4, <2>1, <3>1
  <2>2. CASE i > k
    <3>1. i - k \in 1..Len(b)
      BY <1>1, <1>3, <2>2
    <3> QED BY <1>1, <1>3, <1>5, <2>2, <3>1
  <2> QED BY <1>1, <1>3, <2>1, <2>2
<1>8. ASSUME NEW m \in 1..Len(q), q[m] # Head(q)
      PROVE  q[m] \in {r[i] : i \in 1..Len(r)}
  <2>1. m # 1
    BY <1>1, <1>8
  <2>2. m - 1 \in 1..k /\ m - 1 \in 1..Len(r) /\ (m - 1) + 1 = m
    BY <1>1, <1>3, <2>1
  <2>3. r[m - 1] = q[m]
    BY <1>4, <2>2
  <2> QED BY <2>2, <2>3
<1>9. ASSUME NEW m \in 1..Len(b)
      PROVE  b[m] \in {r[i] : i \in 1..Len(r)}
  <2>1. m + k \in (k + 1)..Len(r) /\ m + k \in 1..Len(r) /\ (m + k) - k = m
    BY <1>1, <1>3
  <2>2. r[m + k] = b[m]
    BY <1>5, <2>1
  <2> QED BY <2>1, <2>2
<1>10. {r[i] : i \in 1..Len(r)} =
         ({q[i] : i \in 1..Len(q)} \ {Head(q)}) \cup {b[i] : i \in 1..Len(b)}
  <2> DEFINE R == {r[i] : i \in 1..Len(r)}
             Q == {q[i] : i \in 1..Len(q)}
             B == {b[i] : i \in 1..Len(b)}
  <2>1. R \subseteq (Q \ {Head(q)}) \cup B
    BY <1>7
  <2>2. Q \ {Head(q)} \subseteq R
    BY <1>8
  <2>3. ASSUME NEW x \in B PROVE x \in R
    <3>1. PICK m \in 1..Len(b) : x = b[m]
      OBVIOUS
    <3> QED BY <1>9, <3>1
  <2> HIDE DEF R, Q, B
  <2>4. R = (Q \ {Head(q)}) \cup B
    BY <2>1, <2>2, <2>3
  <2> QED BY <2>4 DEF R, Q, B
<1> QED BY <1>3, <1>6, <1>10

-----------------------------------------------------------------------------
\* Between StartSort and the end, an in-degree counts the dependencies still
\* to come and the queue holds exactly the nodes that have none left.
KahnInv ==
  /\ \A n \in nodes : deps[n] \subseteq nodes
  /\ \A n \in Id : indeg[n] = Cardinality(deps[n] \ Popped)
  /\ \A i, j \in 1..Len(queue) : queue[i] = queue[j] => i = j
  /\ Queued = {n \in nodes \ Popped : deps[n] \subseteq Popped}

GraphInv ==
  /\ GraphTypeOK
  /\ ~HasCycle(deps)
  /\ phase = "adding" => order = <<>> /\ queue = <<>>
  /\ phase = "sorting" => KahnInv
  /\ SoundOrder

LEMMA GraphInitInv == GraphInit => GraphInv
<1> SUFFICES ASSUME GraphInit PROVE GraphInv
  OBVIOUS
<1>1. GraphTypeOK
  BY GraphAssumption, EmptySeq DEF GraphInit, GraphTypeOK
<1>2. ~HasCycle(deps)
  BY DEF GraphInit, HasCycle
<1>3. SoundOrder
  BY DEF GraphInit, SoundOrder, OrderRespectsDeps, OrderHasNoRepeats
<1> QED BY <1>1, <1>2, <1>3 DEF GraphInit, GraphInv

LEMMA AddLeafInv == GraphInv /\ AddLeaf => GraphInv'
<1> SUFFICES ASSUME GraphInv, AddLeaf PROVE GraphInv'
  OBVIOUS
<1>1. NextLeaf \in Leaf
  BY ElementOfSeq DEF GraphInv, GraphTypeOK, AddLeaf, NextLeaf
<1>2. order = <<>> /\ queue = <<>> /\ phase = "adding" /\ phase' = "adding"
  BY DEF GraphInv, AddLeaf
<1>3. GraphTypeOK'
  BY <1>1, <1>2, EmptySeq DEF GraphInv, GraphTypeOK, AddLeaf, WithLeaf, Leaf
<1>4. ~HasCycle(deps')
  BY DEF AddLeaf, Acceptable
<1>5. SoundOrder'
  BY <1>2 DEF AddLeaf, SoundOrder, OrderRespectsDeps, OrderHasNoRepeats
<1> QED BY <1>2, <1>3, <1>4, <1>5 DEF GraphInv, AddLeaf, HasCycle

LEMMA StartSortInv == GraphInv /\ StartSort => GraphInv'
<1> SUFFICES ASSUME GraphInv, StartSort PROVE GraphInv'
  OBVIOUS
<1> DEFINE ready == {n \in nodes : deps[n] = {}}
<1>1. GraphTypeOK /\ order = <<>> /\ order' = <<>> /\ Popped = {} /\ Popped' = {}
  BY DEF GraphInv, StartSort, Popped
<1>2. \A n \in Id : IsFiniteSet(deps[n]) /\ Cardinality(deps[n]) \in Nat
  BY <1>1, GraphAssumption, FS_Subset, FS_CardinalityType DEF GraphTypeOK
<1>3. ready \in SUBSET Id /\ queue' \in Ascending(ready)
  BY <1>1 DEF GraphTypeOK, StartSort
<1>4. /\ queue' \in Seq(ready)
      /\ \A i, j \in 1..Len(queue') : queue'[i] = queue'[j] => i = j
      /\ {queue'[i] : i \in 1..Len(queue')} = ready
  <2> HIDE DEF ready
  <2> QED BY <1>3, AscendingIsListing
<1>5. queue' \in Seq(nodes')
  BY <1>4, SeqMonotonic DEF StartSort
<1>6. GraphTypeOK'
  BY <1>1, <1>2, <1>5 DEF GraphTypeOK, StartSort
<1>7. KahnInv'
  <2>1. Queued' = {n \in nodes' \ Popped' : deps'[n] \subseteq Popped'}
    BY <1>1, <1>4 DEF Queued, StartSort
  <2>2. \A n \in Id : indeg'[n] = Cardinality(deps'[n] \ Popped')
    BY <1>1 DEF StartSort
  <2> QED BY <1>4, <2>1, <2>2 DEF KahnInv, StartSort
<1>8. SoundOrder'
  BY <1>1 DEF StartSort, SoundOrder, OrderRespectsDeps, OrderHasNoRepeats
<1> QED BY <1>6, <1>7, <1>8 DEF GraphInv, StartSort, HasCycle

LEMMA PopInv == GraphInv /\ Pop => GraphInv'
<1> SUFFICES ASSUME GraphInv, Pop PROVE GraphInv'
  OBVIOUS
<1> DEFINE t == Head(queue)
<1>1. /\ GraphTypeOK /\ KahnInv /\ SoundOrder
      /\ queue \in Seq(nodes) /\ queue # <<>>
      /\ order \in Seq(nodes) /\ order' = Append(order, t)
      /\ nodes' = nodes /\ deps' = deps /\ nodes \subseteq Id
  BY DEF GraphInv, GraphTypeOK, Pop
<1>2. PICK batch \in Ascending(Freed(t)) : queue' = Tail(queue) \o batch
  BY DEF Pop
<1>3. t \in Queued
  <2>1. Len(queue) \in Nat \ {0} /\ t = queue[1]
    BY <1>1, EmptySeq
  <2> QED BY <2>1 DEF Queued
<1>4. t \in nodes /\ t \notin Popped /\ deps[t] \subseteq Popped
  BY <1>1, <1>3 DEF KahnInv
<1>5. /\ order' \in Seq(nodes)
      /\ Len(order') = Len(order) + 1 /\ Len(order) \in Nat
      /\ \A i \in 1..Len(order) : order'[i] = order[i]
      /\ order'[Len(order) + 1] = t
  BY <1>1, <1>4, AppendProperties, LenProperties
<1>6. Popped' = Popped \cup {t}
  <2>1. ASSUME NEW i \in 1..Len(order') PROVE order'[i] \in Popped \cup {t}
    BY <1>5 DEF Popped
  <2>2. ASSUME NEW i \in 1..Len(order) PROVE order[i] \in Popped'
    <3>1. i \in 1..Len(order') /\ order'[i] = order[i]
      BY <1>5
    <3> QED BY <3>1 DEF Popped
  <2>3. t \in Popped'
    BY <1>5 DEF Popped
  <2>4. Popped' \subseteq Popped \cup {t}
    BY <2>1 DEF Popped
  <2>5. Popped \subseteq Popped'
    BY <2>2 DEF Popped
  <2> QED BY <2>3, <2>4, <2>5
<1>7. \A n \in Id : /\ IsFiniteSet(deps[n] \ Popped)
                   /\ Cardinality(deps[n] \ Popped) \in Nat
  <2> SUFFICES ASSUME NEW n \in Id
               PROVE  IsFiniteSet(deps[n] \ Popped) /\ Cardinality(deps[n] \ Popped) \in Nat
    OBVIOUS
  <2>1. deps[n] \ Popped \in SUBSET Id
    BY <1>1 DEF GraphTypeOK
  <2> QED BY <2>1, GraphAssumption, FS_Subset, FS_CardinalityType
<1>8. \A n \in Id : /\ Decremented(t)[n] = Cardinality(deps[n] \ Popped')
                   /\ Decremented(t)[n] \in Nat
  <2> SUFFICES ASSUME NEW n \in Id
               PROVE  /\ Decremented(t)[n] = Cardinality(deps[n] \ Popped')
                      /\ Decremented(t)[n] \in Nat
    OBVIOUS
  <2> DEFINE W == deps[n] \ Popped
  <2>1. indeg[n] = Cardinality(W) /\ IsFiniteSet(W) /\ Cardinality(W) \in Nat
    BY <1>1, <1>7 DEF KahnInv
  <2>2. CASE t \in deps[n]
    <3>1. deps[n] \ Popped' = W \ {t} /\ t \in W
      BY <1>4, <1>6, <2>2
    <3>2. Cardinality(W \ {t}) = Cardinality(W) - 1 /\ Cardinality(W \ {t}) \in Nat
      <4> HIDE DEF W
      <4>1. IsFiniteSet(W \ {t}) /\ Cardinality(W \ {t}) = Cardinality(W) - 1
        BY <2>1, <3>1, FS_RemoveElement
      <4> QED BY <4>1, FS_CardinalityType
    <3> QED BY <2>1, <2>2, <3>1, <3>2 DEF Decremented
  <2>3. CASE t \notin deps[n]
    <3>1. deps[n] \ Popped' = W
      BY <1>6, <2>3
    <3> QED BY <2>1, <2>3, <3>1 DEF Decremented
  <2> QED BY <2>2, <2>3
<1>9. \A n \in nodes : n \in Freed(t) <=> deps[n] \ Popped = {t}
  <2> SUFFICES ASSUME NEW n \in nodes
               PROVE  n \in Freed(t) <=> deps[n] \ Popped = {t}
    OBVIOUS
  <2> DEFINE W == deps[n] \ Popped
  <2>1. n \in Id /\ indeg[n] = Cardinality(W) /\ IsFiniteSet(W)
    BY <1>1, <1>7 DEF KahnInv
  <2>2. Cardinality(W) = 1 <=> \E x : W = {x}
    <3> HIDE DEF W
    <3> QED BY <2>1, FS_Singleton
  <2>3. n \in Freed(t) <=> t \in deps[n] /\ Cardinality(W) = 1
    BY <2>1 DEF Freed
  <2>4. t \in deps[n] <=> t \in W
    BY <1>4
  <2> QED BY <2>2, <2>3, <2>4
<1>10. Freed(t) \subseteq nodes /\ Freed(t) \in SUBSET Id
  BY <1>1 DEF Freed
<1>11. /\ batch \in Seq(Freed(t))
       /\ \A i, j \in 1..Len(batch) : batch[i] = batch[j] => i = j
       /\ {batch[i] : i \in 1..Len(batch)} = Freed(t)
  BY <1>2, <1>10, AscendingIsListing
<1>12. batch \in Seq(nodes)
  BY <1>10, <1>11, SeqMonotonic
<1>13. \A i \in 1..Len(queue), j \in 1..Len(batch) : queue[i] # batch[j]
  <2> SUFFICES ASSUME NEW i \in 1..Len(queue), NEW j \in 1..Len(batch)
               PROVE  queue[i] # batch[j]
    OBVIOUS
  <2>1. queue[i] \in Queued
    BY DEF Queued
  <2>2. deps[queue[i]] \subseteq Popped
    BY <1>1, <2>1 DEF KahnInv
  <2>3. batch[j] \in Freed(t)
    BY <1>11
  <2>4. t \in deps[batch[j]]
    BY <2>3 DEF Freed
  <2> QED BY <1>4, <2>2, <2>4
<1>14. /\ queue' \in Seq(nodes)
       /\ \A i, j \in 1..Len(queue') : queue'[i] = queue'[j] => i = j
       /\ Queued' = (Queued \ {t}) \cup Freed(t)
  <2>1. \A i, j \in 1..Len(queue) : queue[i] = queue[j] => i = j
    BY <1>1 DEF KahnInv
  <2> DEFINE r == Tail(queue) \o batch
  <2>2. /\ r \in Seq(nodes)
        /\ \A i, j \in 1..Len(r) : r[i] = r[j] => i = j
        /\ {r[i] : i \in 1..Len(r)} =
             ({queue[i] : i \in 1..Len(queue)} \ {t}) \cup {batch[i] : i \in 1..Len(batch)}
    <3>1. \A i, j \in 1..Len(batch) : batch[i] = batch[j] => i = j
      BY <1>11
    <3>2. queue \in Seq(nodes) /\ queue # <<>>
      BY <1>1
    <3> QED BY <1>12, <1>13, <2>1, <3>1, <3>2, QueueStep, Zenon
  <2>3. Queued' = {r[i] : i \in 1..Len(r)}
    BY <1>2 DEF Queued
  <2> HIDE DEF r
  <2> QED BY <1>2, <1>11, <2>2, <2>3 DEF Queued, r
<1>15. ASSUME NEW n \in Popped PROVE deps[n] \subseteq Popped
  <2>1. PICK i \in 1..Len(order) : n = order[i]
    BY DEF Popped
  <2>2. \A d \in deps[n] : \E j \in 1..(i - 1) : order[j] = d
    BY <1>1, <2>1 DEF SoundOrder, OrderRespectsDeps
  <2>3. \A j \in 1..(i - 1) : order[j] \in Popped
    BY <1>5, <2>1 DEF Popped
  <2> QED BY <2>2, <2>3
<1>16. Queued' = {n \in nodes \ Popped' : deps[n] \subseteq Popped'}
  <2>1. ASSUME NEW n \in Freed(t)
        PROVE  n \in nodes \ Popped' /\ deps[n] \subseteq Popped'
    <3>1. n \in nodes /\ deps[n] \ Popped = {t}
      BY <1>9, <1>10
    <3>2. n \notin Popped /\ n # t
      BY <1>4, <1>15, <3>1
    <3> QED BY <1>6, <3>1, <3>2
  <2>2. ASSUME NEW n \in nodes \ Popped', deps[n] \subseteq Popped', ~(deps[n] \subseteq Popped)
        PROVE  n \in Freed(t)
    <3>1. deps[n] \ Popped = {t}
      BY <1>6, <2>2
    <3> QED BY <1>9, <2>2, <3>1
  <2>3. Queued = {n \in nodes \ Popped : deps[n] \subseteq Popped}
    BY <1>1 DEF KahnInv
  <2> QED BY <1>6, <1>14, <2>1, <2>2, <2>3
<1>17. KahnInv'
  BY <1>1, <1>8, <1>14, <1>16 DEF KahnInv, Pop
<1>18. GraphTypeOK'
  <2>1. indeg' \in [Id -> Nat]
    BY <1>8 DEF Pop, Decremented
  <2> QED BY <1>1, <1>5, <1>14, <2>1 DEF GraphTypeOK, Pop
<1>19. OrderRespectsDeps'
  <2> SUFFICES ASSUME NEW i \in 1..Len(order'), NEW d \in deps[order'[i]]
               PROVE  \E j \in 1..(i - 1) : order'[j] = d
    BY <1>1 DEF OrderRespectsDeps
  <2>1. CASE i \in 1..Len(order)
    <3>1. PICK j \in 1..(i - 1) : order[j] = d
      BY <1>1, <1>5, <2>1 DEF SoundOrder, OrderRespectsDeps
    <3> QED BY <1>5, <2>1, <3>1
  <2>2. CASE i = Len(order) + 1
    <3>1. d \in Popped
      BY <1>4, <1>5, <2>2
    <3> QED BY <1>5, <2>2, <3>1 DEF Popped
  <2> QED BY <1>5, <2>1, <2>2
<1>20. OrderHasNoRepeats'
  <2>1. \A i \in 1..Len(order) : order[i] # t
    BY <1>4 DEF Popped
  <2> QED BY <1>1, <1>5, <2>1 DEF SoundOrder, OrderHasNoRepeats
<1> QED BY <1>1, <1>17, <1>18, <1>19, <1>20 DEF GraphInv, Pop, SoundOrder, HasCycle

\* The steps that only close the phase keep everything else.
LEMMA CloseInv ==
  GraphInv /\ (RejectLeaf \/ UnknownDependency \/ Finish \/ UNCHANGED graphVars) => GraphInv'
<1> SUFFICES ASSUME GraphInv,
                    RejectLeaf \/ UnknownDependency \/ Finish \/ UNCHANGED graphVars
             PROVE  GraphInv'
  OBVIOUS
<1>1. /\ UNCHANGED <<input, added, nodes, deps, indeg, queue, order>>
      /\ phase' = phase \/ phase' \in {"valid", "rejected"}
  BY DEF RejectLeaf, UnknownDependency, Finish, graphVars
<1>2. GraphTypeOK' /\ SoundOrder'
  BY <1>1 DEF GraphInv, GraphTypeOK, SoundOrder, OrderRespectsDeps, OrderHasNoRepeats
<1> QED BY <1>1, <1>2 DEF GraphInv, KahnInv, Popped, Queued, HasCycle

LEMMA GraphNextInv == GraphInv /\ [GraphNext]_graphVars => GraphInv'
BY AddLeafInv, StartSortInv, PopInv, CloseInv DEF GraphNext

\* A node left out when the queue runs dry would be in a set each member of
\* which waits for another: a cycle the detector has excluded.
LEMMA InvImpliesComplete == GraphInv => SortIsComplete
<1> SUFFICES ASSUME GraphInv, phase = "sorting", queue = <<>> PROVE Popped = nodes
  BY DEF SortIsComplete
<1> DEFINE S == nodes \ Popped
<1>1. GraphTypeOK /\ KahnInv /\ ~HasCycle(deps)
  BY DEF GraphInv
<1>2. Popped \subseteq nodes /\ S \in SUBSET Id
  BY <1>1 DEF GraphTypeOK, Popped
<1>3. Queued = {}
  BY DEF Queued
<1>4. ASSUME NEW n \in S PROVE deps[n] \cap S # {}
  <2>1. ~(deps[n] \subseteq Popped)
    BY <1>1, <1>3, <1>4 DEF KahnInv
  <2>2. deps[n] \subseteq nodes
    BY <1>1, <1>4 DEF KahnInv
  <2> QED BY <2>1, <2>2
<1>5. S = {}
  BY <1>1, <1>2, <1>4 DEF HasCycle
<1> QED BY <1>2, <1>5

-----------------------------------------------------------------------------
\* The inductive invariant of the graph.
THEOREM GraphInvariance == GraphSpec => []GraphInv
BY GraphInitInv, GraphNextInv, PTL DEF GraphSpec

\* Type correctness of decompose and topological_order.
THEOREM GraphTypeCorrect == GraphSpec => []GraphTypeOK
BY GraphInvariance, PTL DEF GraphInv

\* orchestrator.py topological_order: for every input, no prefix of the order
\* repeats a task or puts one before a dependency of its own.
THEOREM SoundOrderAlways == GraphSpec => []SoundOrder
BY GraphInvariance, PTL DEF GraphInv

\* self_healing.py CycleDetector and orchestrator.py topological_order agree:
\* what the detector accepts the sort orders completely.
THEOREM ChecksAgree == GraphSpec => []SortIsComplete
BY GraphInvariance, InvImpliesComplete, PTL
-----------------------------------------------------------------------------
\* The DAG so far is the list so far.
Taken ==
  /\ nodes = {Root} \cup {input[i].id : i \in 1..added}
  /\ \A i \in 1..added : input[i].id # Root /\ deps[input[i].id] = input[i].deps
  /\ \A i, j \in 1..added : input[i].id = input[j].id => i = j
  /\ \A n \in Id : deps[n] # {} => \E i \in 1..added : n = input[i].id

\* In each phase, what was found of the list; a list taken whole is judged by
\* the graph it became.
AcceptInv ==
  /\ GraphInv
  /\ Taken
  /\ phase \in {"sorting", "valid"} => added = Len(input)
  /\ phase = "valid" => KahnInv /\ Popped = nodes
  /\ phase = "rejected" => ~WellFormed(input)

LEMMA InitTaken == GraphInit => AcceptInv
<1> SUFFICES ASSUME GraphInit PROVE AcceptInv
  OBVIOUS
<1>1. Taken /\ phase = "adding"
  BY DEF GraphInit, Taken
<1> QED BY <1>1, GraphInitInv DEF AcceptInv

\* A leaf of the list is an id and its dependencies.
LEMMA LeafTyped ==
  ASSUME GraphTypeOK
  PROVE  /\ Len(input) \in Nat
         /\ \A i \in 1..Len(input) : input[i].id \in Id /\ input[i].deps \in SUBSET Id
<1>1. \A i \in 1..Len(input) : input[i] \in Leaf
  BY ElementOfSeq DEF GraphTypeOK
<1> QED BY <1>1 DEF Leaf, GraphTypeOK

LEMMA AddLeafTaken ==
  ASSUME AcceptInv, AddLeaf
  PROVE  AcceptInv'
<1> DEFINE k == added + 1
           l == input[k]
<1>1. /\ GraphTypeOK /\ Taken /\ added \in Nat /\ added < Len(input)
      /\ phase = "adding" /\ phase' = "adding" /\ input' = input /\ added' = k
      /\ nodes' = nodes \cup {l.id} /\ l.id \notin nodes /\ l.id \in Id
      /\ deps' = [deps EXCEPT ![l.id] = l.deps]
  BY LeafTyped DEF AcceptInv, GraphInv, GraphTypeOK, AddLeaf, Acceptable, NextLeaf, WithLeaf
<1>2. /\ deps \in [Id -> SUBSET Id] /\ deps'[l.id] = l.deps
      /\ \A n \in Id \ {l.id} : deps'[n] = deps[n]
  BY <1>1 DEF GraphTypeOK
<1>3. \A i \in 1..k : i \in 1..added \/ i = k
  BY <1>1
<1>4. \A i \in 1..added : input[i].id \in nodes /\ input[i].id # l.id
  BY <1>1 DEF Taken
<1>5. nodes' = {Root} \cup {input[i].id : i \in 1..k}
  <2>1. {input[i].id : i \in 1..k} = {input[i].id : i \in 1..added} \cup {l.id}
    BY <1>1, <1>3
  <2> HIDE DEF k
  <2> QED BY <1>1, <2>1 DEF Taken
<1>6. \A i \in 1..k : input[i].id # Root /\ deps'[input[i].id] = input[i].deps
  <2>1. \A i \in 1..added : input[i].id # Root /\ deps'[input[i].id] = input[i].deps
    BY <1>1, <1>2, <1>4, LeafTyped DEF Taken
  <2>2. l.id # Root
    BY <1>1 DEF Taken
  <2> QED BY <1>2, <1>3, <2>1, <2>2
<1>7. \A i, j \in 1..k : input[i].id = input[j].id => i = j
  BY <1>1, <1>3, <1>4 DEF Taken
<1>8. \A n \in Id : deps'[n] # {} => \E i \in 1..k : n = input[i].id
  <2> SUFFICES ASSUME NEW n \in Id, deps'[n] # {} PROVE \E i \in 1..k : n = input[i].id
    OBVIOUS
  <2>1. CASE n = l.id
    <3>1. k \in 1..k
      BY <1>1
    <3> QED BY <2>1, <3>1
  <2>2. CASE n # l.id
    <3>1. PICK i \in 1..added : n = input[i].id
      BY <1>1, <1>2, <2>2 DEF Taken
    <3> QED BY <1>1, <3>1
  <2> QED BY <2>1, <2>2
<1>9. Taken'
  BY <1>1, <1>5, <1>6, <1>7, <1>8 DEF Taken
<1> QED BY <1>1, <1>9, AddLeafInv DEF AcceptInv

\* In a well-formed list no set of tasks waits for itself: its lowest-ranking
\* member would wait for a lower one.
LEMMA WellFormedHasNoCycle ==
  ASSUME GraphTypeOK, WellFormed(input), NEW d,
         \A n \in Id : d[n] # {} => \E i \in 1..Len(input) : n = input[i].id /\ d[n] = input[i].deps
  PROVE  ~HasCycle(d)
<1> SUFFICES ASSUME NEW S \in SUBSET Id, S # {}, \A n \in S : d[n] \cap S # {}
             PROVE  FALSE
  BY DEF HasCycle
<1> DEFINE ids == {input[i].id : i \in 1..Len(input)}
<1>1. PICK rank \in [ids \cup {Root} -> 0..Len(input)] :
        \A i \in 1..Len(input) : \A e \in input[i].deps : rank[e] < rank[input[i].id]
  BY DEF WellFormed
<1>2. \A n \in S : n \in ids /\ rank[n] \in Nat
  BY <1>1, LeafTyped
<1> DEFINE T == {rank[n] : n \in S}
<1>3. T \in SUBSET Nat /\ T # {}
  <2>1. PICK n \in S : TRUE
    OBVIOUS
  <2>2. rank[n] \in T
    BY <2>1
  <2>3. \A x \in T : x \in Nat
    BY <1>2
  <2> HIDE DEF T
  <2> QED BY <2>2, <2>3
<1>4. PICK r \in T : \A s \in T : r <= s
  <2> HIDE DEF T
  <2> QED BY <1>3, LeastNat
<1>5. PICK n \in S : r = rank[n]
  BY <1>4
<1>6. PICK e \in S : e \in d[n]
  OBVIOUS
<1>7. PICK i \in 1..Len(input) : n = input[i].id /\ d[n] = input[i].deps
  BY <1>6
<1>8. rank[e] < rank[n] /\ rank[e] \in T
  BY <1>1, <1>6, <1>7
<1>9. r <= rank[e] /\ r \in Nat /\ rank[e] \in Nat
  BY <1>2, <1>4, <1>5, <1>8
<1> QED BY <1>5, <1>8, <1>9

LEMMA RejectTaken ==
  ASSUME AcceptInv, RejectLeaf
  PROVE  AcceptInv'
<1> DEFINE k == added + 1
           l == input[k]
<1>1. /\ GraphTypeOK /\ Taken /\ added \in Nat /\ added < Len(input) /\ Len(input) \in Nat
      /\ k \in 1..Len(input) /\ l.id \in Id
      /\ UNCHANGED <<input, added, nodes, deps, indeg, queue, order>> /\ phase' = "rejected"
      /\ ~Acceptable(l)
  BY LeafTyped DEF AcceptInv, GraphInv, GraphTypeOK, RejectLeaf, NextLeaf
<1>2. ASSUME WellFormed(input), l.id \in nodes
      PROVE  FALSE
  <2>1. l.id # Root /\ \A i \in 1..added : input[i].id # l.id
    BY <1>1, <1>2 DEF WellFormed
  <2> QED BY <1>1, <1>2, <2>1 DEF Taken
<1>3. ASSUME WellFormed(input), HasCycle(WithLeaf(l))
      PROVE  FALSE
  <2> DEFINE d == WithLeaf(l)
  <2>1. \A n \in Id : d[n] = IF n = l.id THEN l.deps ELSE deps[n]
    BY <1>1 DEF WithLeaf, GraphTypeOK
  <2>2. ASSUME NEW n \in Id, d[n] # {}
        PROVE  \E i \in 1..Len(input) : n = input[i].id /\ d[n] = input[i].deps
    <3>1. CASE n = l.id
      BY <1>1, <2>1, <3>1
    <3>2. CASE n # l.id
      <4>1. PICK i \in 1..added : n = input[i].id
        BY <1>1, <2>1, <2>2, <3>2 DEF Taken
      <4> QED BY <1>1, <2>1, <3>2, <4>1 DEF Taken
    <3> QED BY <3>1, <3>2
  <2> HIDE DEF d
  <2>3. ~HasCycle(d)
    BY <1>1, <1>3, <2>2, WellFormedHasNoCycle
  <2> QED BY <1>3, <2>3 DEF d
<1>4. ~WellFormed(input')
  BY <1>1, <1>2, <1>3 DEF Acceptable
<1>5. Taken'
  BY <1>1 DEF Taken
<1> QED BY <1>1, <1>4, <1>5, CloseInv DEF AcceptInv

LEMMA UnknownTaken ==
  ASSUME AcceptInv, UnknownDependency
  PROVE  AcceptInv'
<1>1. /\ GraphTypeOK /\ Taken /\ added = Len(input) /\ phase' = "rejected"
      /\ UNCHANGED <<input, added, nodes, deps, indeg, queue, order>>
  BY DEF AcceptInv, GraphInv, UnknownDependency
<1>2. PICK n \in nodes : ~(deps[n] \subseteq nodes)
  BY DEF UnknownDependency
<1>3. PICK i \in 1..Len(input) : n = input[i].id /\ deps[n] = input[i].deps
  <2>1. n \in Id /\ deps[n] # {}
    BY <1>1, <1>2 DEF GraphTypeOK
  <2> QED BY <1>1, <2>1 DEF Taken
<1>4. ~WellFormed(input)
  BY <1>1, <1>2, <1>3 DEF WellFormed, Taken
<1>5. Taken'
  BY <1>1 DEF Taken
<1> QED BY <1>1, <1>4, <1>5, CloseInv DEF AcceptInv

\* The sort ends with every node popped, so it never raises.
LEMMA FinishTaken ==
  ASSUME AcceptInv, Finish
  PROVE  AcceptInv' /\ phase' = "valid"
<1>1. /\ GraphTypeOK /\ Taken /\ KahnInv /\ SoundOrder /\ added = Len(input)
      /\ UNCHANGED <<input, added, nodes, deps, indeg, queue, order>>
      /\ phase' = IF Len(order) = Cardinality(nodes) THEN "valid" ELSE "rejected"
  BY DEF AcceptInv, GraphInv, Finish
<1>2. Popped = nodes
  BY InvImpliesComplete DEF AcceptInv, Finish, SortIsComplete
<1>3. Len(order) = Cardinality(nodes)
  <2>1. order \in [1..Len(order) -> nodes] /\ Len(order) \in Nat
    BY <1>1 DEF GraphTypeOK
  <2>2. \A n \in nodes : \E i \in 1..Len(order) : order[i] = n
    BY <1>2 DEF Popped
  <2>3. order \in Bijection(1..Len(order), nodes)
    BY <1>1, <2>1, <2>2 DEF Bijection, Injection, Surjection, IsInjective, SoundOrder, OrderHasNoRepeats
  <2>4. ExistsBijection(1..Len(order), nodes)
    BY <2>3 DEF ExistsBijection
  <2> QED BY <2>1, <2>4, FS_CountingElements
<1>4. phase' = "valid"
  BY <1>1, <1>3
<1>5. Popped' = Popped /\ Queued' = Queued
  BY <1>1 DEF Popped, Queued
<1>6. Taken' /\ KahnInv' /\ Popped' = nodes'
  BY <1>1, <1>2, <1>5 DEF Taken, KahnInv
<1> QED BY <1>1, <1>4, <1>6, CloseInv DEF AcceptInv

LEMMA SortTaken ==
  ASSUME AcceptInv, StartSort \/ Pop \/ UNCHANGED graphVars
  PROVE  AcceptInv'
<1>1. CASE StartSort \/ Pop
  <2>1. UNCHANGED <<input, added, nodes, deps>> /\ phase' = "sorting" /\ added = Len(input)
    BY <1>1 DEF StartSort, Pop, AcceptInv
  <2>2. Taken'
    BY <2>1 DEF AcceptInv, Taken
  <2> QED BY <1>1, <2>1, <2>2, StartSortInv, PopInv DEF AcceptInv
<1>2. CASE UNCHANGED graphVars
  <2>1. UNCHANGED <<input, added, nodes, deps, indeg, queue, order, phase>>
    BY <1>2 DEF graphVars
  <2>2. Taken' /\ Popped' = Popped /\ Queued' = Queued
    BY <2>1 DEF AcceptInv, Taken, Popped, Queued
  <2>3. phase' = "valid" => KahnInv'
    BY <2>1, <2>2 DEF AcceptInv, KahnInv
  <2> QED BY <1>2, <2>1, <2>2, <2>3, CloseInv DEF AcceptInv
<1> QED BY <1>1, <1>2

LEMMA AcceptNextInv == AcceptInv /\ [GraphNext]_graphVars => AcceptInv'
BY AddLeafTaken, RejectTaken, UnknownTaken, FinishTaken, SortTaken DEF GraphNext

\* The place in the order is a rank.
LEMMA ValidIsWellFormed ==
  ASSUME AcceptInv, phase = "valid"
  PROVE  WellFormed(input)
<1> DEFINE n == Len(input)
           ids == {input[i].id : i \in 1..n}
           place == [t \in nodes |-> CHOOSE i \in 1..Len(order) : order[i] = t]
           rank == [t \in nodes |-> place[t] - 1]
<1>1. /\ GraphTypeOK /\ Taken /\ KahnInv /\ SoundOrder /\ added = n
      /\ Popped = nodes /\ n \in Nat /\ nodes = ids \cup {Root}
  BY LeafTyped DEF AcceptInv, GraphInv, Taken
<1>2. Len(order) \in Nat /\ Len(order) <= n + 1
  <2>1. order \in [1..Len(order) -> nodes] /\ Len(order) \in Nat
    BY <1>1 DEF GraphTypeOK
  <2>2. \A t \in nodes : \E i \in 1..Len(order) : order[i] = t
    BY <1>1 DEF Popped
  <2>3. order \in Bijection(1..Len(order), nodes)
    BY <1>1, <2>1, <2>2 DEF Bijection, Injection, Surjection, IsInjective, SoundOrder, OrderHasNoRepeats
  <2>4. Cardinality(nodes) = Len(order)
    BY <2>1, <2>3, FS_CountingElements DEF ExistsBijection
  <2> DEFINE f == [i \in 1..(n + 1) |-> IF i = n + 1 THEN Root ELSE input[i].id]
  <2>5. f \in [1..(n + 1) -> nodes]
    BY <1>1
  <2>6. \A t \in nodes : \E i \in 1..(n + 1) : f[i] = t
    <3> SUFFICES ASSUME NEW t \in nodes PROVE \E i \in 1..(n + 1) : f[i] = t
      OBVIOUS
    <3>1. CASE t = Root
      <4>1. n + 1 \in 1..(n + 1) /\ f[n + 1] = Root
        BY <1>1
      <4> QED BY <3>1, <4>1
    <3>2. CASE t # Root
      <4>1. PICK i \in 1..n : t = input[i].id
        BY <1>1, <3>2
      <4>2. i \in 1..(n + 1) /\ f[i] = t
        BY <1>1, <4>1
      <4> QED BY <4>2
    <3> QED BY <3>1, <3>2
  <2>7. f \in Surjection(1..(n + 1), nodes)
    <3> HIDE DEF f
    <3> QED BY <2>5, <2>6 DEF Surjection
  <2>8. Cardinality(nodes) <= n + 1
    <3> HIDE DEF f
    <3> QED BY <1>1, <2>7, FS_SurjCardinalityBound DEF ExistsSurjection
  <2> QED BY <2>1, <2>4, <2>8
<1>3. \A t \in nodes : place[t] \in 1..Len(order) /\ order[place[t]] = t
  BY <1>1 DEF Popped
<1> HIDE DEF place
<1>4. rank \in [nodes -> 0..n]
  <2>1. \A t \in nodes : place[t] - 1 \in 0..n
    BY <1>1, <1>2, <1>3
  <2> QED BY <2>1
<1>5. ASSUME NEW i \in 1..n, NEW d \in input[i].deps
      PROVE  d \in nodes /\ rank[d] < rank[input[i].id]
  <2> DEFINE t == input[i].id
  <2>1. t \in nodes /\ deps[t] = input[i].deps
    BY <1>1 DEF Taken
  <2>2. d \in nodes
    BY <1>1, <1>5, <2>1 DEF KahnInv
  <2> HIDE DEF t
  <2>3. place[t] \in 1..Len(order) /\ order[place[t]] = t /\ d \in deps[order[place[t]]]
    BY <1>3, <1>5, <2>1
  <2>4. PICK j \in 1..(place[t] - 1) : order[j] = d
    BY <1>1, <2>3 DEF SoundOrder, OrderRespectsDeps
  <2>5. place[d] \in 1..Len(order) /\ order[place[d]] = d /\ j \in 1..Len(order)
    BY <1>2, <1>3, <2>2, <2>3, <2>4
  <2>6. place[d] = j
    BY <1>1, <2>4, <2>5 DEF SoundOrder, OrderHasNoRepeats
  <2>7. place[d] < place[t] /\ place[d] \in Nat /\ place[t] \in Nat
    BY <1>2, <2>3, <2>4, <2>5, <2>6
  <2> QED BY <2>1, <2>2, <2>7 DEF t
<1>6. \E r \in [ids \cup {Root} -> 0..n] :
        \A i \in 1..n : \A d \in input[i].deps : r[d] < r[input[i].id]
  <2> HIDE DEF rank, ids
  <2> QED BY <1>1, <1>4, <1>5
<1>7. Root \notin ids /\ (\A i, j \in 1..n : input[i].id = input[j].id => i = j)
  BY <1>1 DEF Taken
<1>8. \A i \in 1..n : input[i].deps \subseteq ids \cup {Root}
  BY <1>1, <1>5
<1> QED BY <1>6, <1>7, <1>8 DEF WellFormed

LEMMA InvImpliesAccepts == AcceptInv => AcceptsExactlyWellFormed
<1> SUFFICES ASSUME AcceptInv PROVE AcceptsExactlyWellFormed
  OBVIOUS
<1>1. ASSUME phase = "valid"
      PROVE  /\ WellFormed(input)
             /\ nodes = {Root} \cup {input[i].id : i \in 1..Len(input)}
             /\ \A i \in 1..Len(input) : deps[input[i].id] = input[i].deps
  <2>1. WellFormed(input)
    BY <1>1, ValidIsWellFormed
  <2> QED BY <1>1, <2>1 DEF AcceptInv, Taken
<1> QED BY <1>1 DEF AcceptInv, AcceptsExactlyWellFormed

\* orchestrator.py decompose: a list of leaves is accepted exactly when ids are
\* unique and known and some ranking puts each leaf above its dependencies, and
\* the graph then holds those leaves with those dependencies: for lists of any
\* length.
THEOREM AcceptsExactlyAlways == GraphSpec => []AcceptsExactlyWellFormed
BY InitTaken, AcceptNextInv, InvImpliesAccepts, PTL DEF GraphSpec
=============================================================================
