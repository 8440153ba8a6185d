------------------------------ MODULE TaskGraph ------------------------------
(***************************************************************************)
(* The graph half of tools/delegation/orchestrator.py: decompose builds a  *)
(* DAG leaf by leaf, asking a cycle detector after every edge, and then    *)
(* topological_order (Kahn's algorithm with a queue of ready nodes, each   *)
(* batch in name order) computes the order in which run dispatches.        *)
(*                                                                         *)
(* Task ids are naturals standing for names in lexicographic order.  A     *)
(* leaf's depends_on tuple is the set of its members: a repeated member    *)
(* adds one to the in-degree and is decremented once more, to no effect.   *)
(***************************************************************************)
EXTENDS Naturals, Sequences, FiniteSets

CONSTANTS
  Id,       \* the task ids that can be mentioned
  Root,     \* root_id, the node decompose creates itself
  Inputs    \* the lists of leaves decompose may be called with

Leaf == [id : Id, deps : SUBSET Id]

ASSUME GraphAssumption ==
  /\ Id \subseteq Nat
  /\ IsFiniteSet(Id)
  /\ Root \in Id
  /\ Inputs \subseteq Seq(Leaf)

VARIABLES
  input,    \* the leaves argument of decompose
  added,    \* how many of them are in the DAG
  nodes,    \* the keys of dag.nodes
  deps,     \* depends_on of each node ({} for an id that is no node)
  indeg,    \* indeg of topological_order
  queue,    \* queue of topological_order
  order,    \* order of topological_order
  phase     \* "adding", "sorting", "valid" or "rejected" (ValueError)

graphVars == <<input, added, nodes, deps, indeg, queue, order, phase>>

-----------------------------------------------------------------------------
\* CycleDetector.has_cycle: some task waits, directly or not, for itself.  In
\* a finite graph this is the existence of a set of tasks each of which
\* depends on a member of the set.
HasCycle(d) ==
  \E S \in SUBSET Id : S # {} /\ \A n \in S : d[n] \cap S # {}

\* sorted(S): the one ascending sequence of the members of S.
Ascending(S) ==
  {s \in [1..Cardinality(S) -> S] :
     \A i, j \in 1..Cardinality(S) : i < j => s[i] < s[j]}

GraphInit ==
  /\ input \in Inputs
  /\ added = 0
  /\ nodes = {Root}
  /\ deps = [n \in Id |-> {}]
  /\ indeg = [n \in Id |-> 0]
  /\ queue = <<>>
  /\ order = <<>>
  /\ phase = "adding"

NextLeaf == input[added + 1]

\* detector.add_edge for every dependency of the leaf.
WithLeaf(l) == [deps EXCEPT ![l.id] = l.deps]

\* Mutated form: the detector only sees the edges that were there before.
AcceptableLate(l) == l.id \notin nodes /\ ~HasCycle(deps)

\* Mutated form: duplicate ids overwrite the earlier leaf.
AcceptableTwice(l) == ~HasCycle(WithLeaf(l))

\* A leaf is taken unless its id is in use or one of its edges closes a cycle.
Acceptable(l) == l.id \notin nodes /\ ~HasCycle(WithLeaf(l))

AddLeaf ==
  /\ phase = "adding"
  /\ added < Len(input)
  /\ Acceptable(NextLeaf)
  /\ nodes' = nodes \cup {NextLeaf.id}
  /\ deps' = WithLeaf(NextLeaf)
  /\ added' = added + 1
  /\ UNCHANGED <<input, indeg, queue, order, phase>>

RejectLeaf ==
  /\ phase = "adding"
  /\ added < Len(input)
  /\ ~Acceptable(NextLeaf)
  /\ phase' = "rejected"
  /\ UNCHANGED <<input, added, nodes, deps, indeg, queue, order>>

\* topological_order up to its loop: an unknown dependency raises, otherwise
\* the in-degrees are counted and the nodes without dependencies queued.
StartSort ==
  /\ phase = "adding"
  /\ added = Len(input)
  /\ \A n \in nodes : deps[n] \subseteq nodes
  /\ indeg' = [n \in Id |-> Cardinality(deps[n])]
  /\ queue' \in Ascending({n \in nodes : deps[n] = {}})
  /\ phase' = "sorting"
  /\ UNCHANGED <<input, added, nodes, deps, order>>

UnknownDependency ==
  /\ phase = "adding"
  /\ added = Len(input)
  /\ \E n \in nodes : ~(deps[n] \subseteq nodes)
  /\ phase' = "rejected"
  /\ UNCHANGED <<input, added, nodes, deps, indeg, queue, order>>

\* Mutated form: a child is released by its first finished dependency.
FreedEarly(t) ==
  {n \in nodes : t \in deps[n] /\ indeg[n] = Cardinality(deps[n])}

\* The children whose in-degree the removal of t brings to zero.
Freed(t) == {n \in nodes : t \in deps[n] /\ indeg[n] = 1}

\* Every child of t waits for one dependency less.
Decremented(t) ==
  [n \in Id |-> IF t \in deps[n] THEN indeg[n] - 1 ELSE indeg[n]]

Pop ==
  /\ phase = "sorting"
  /\ queue # <<>>
  /\ LET t == Head(queue) IN
       /\ order' = Append(order, t)
       /\ indeg' = Decremented(t)
       /\ \E batch \in Ascending(Freed(t)) : queue' = Tail(queue) \o batch
  /\ UNCHANGED <<input, added, nodes, deps, phase>>

Finish ==
  /\ phase = "sorting"
  /\ queue = <<>>
  /\ phase' = IF Len(order) = Cardinality(nodes) THEN "valid" ELSE "rejected"
  /\ UNCHANGED <<input, added, nodes, deps, indeg, queue, order>>

GraphNext ==
  AddLeaf \/ RejectLeaf \/ StartSort \/ UnknownDependency \/ Pop \/ Finish

GraphSpec == GraphInit /\ [][GraphNext]_graphVars

-----------------------------------------------------------------------------
Popped == {order[i] : i \in 1..Len(order)}
Queued == {queue[i] : i \in 1..Len(queue)}

\* Every variable stays in its range; the queue and the order hold nodes only.
GraphTypeOK ==
  /\ input \in Seq(Leaf)
  /\ added \in 0..Len(input)
  /\ nodes \in SUBSET Id
  /\ deps \in [Id -> SUBSET Id]
  /\ indeg \in [Id -> Nat]
  /\ queue \in Seq(nodes)
  /\ order \in Seq(nodes)
  /\ phase \in {"adding", "sorting", "valid", "rejected"}

\* What run relies on: in topological_order's result (and in every prefix of
\* it) no task is repeated and each one comes after all its dependencies.
OrderRespectsDeps ==
  \A i \in 1..Len(order) :
    \A d \in deps[order[i]] : \E j \in 1..(i - 1) : order[j] = d

OrderHasNoRepeats ==
  \A i, j \in 1..Len(order) : order[i] = order[j] => i = j

SoundOrder == OrderRespectsDeps /\ OrderHasNoRepeats

\* The two cycle checks agree: a DAG the detector let through is never found
\* cyclic by the sort, so the ValueError at the end of topological_order
\* cannot be raised for a DAG that decompose built.
SortIsComplete ==
  phase = "sorting" /\ queue = <<>> => Popped = nodes

\* A list of leaves is well formed when its ids are distinct, none is the
\* root's, every dependency is some node, and the tasks can be ranked so that
\* dependencies rank strictly lower (a definition independent of both checks).
WellFormed(in) ==
  LET ids == {in[i].id : i \in 1..Len(in)}
  IN  /\ Root \notin ids
      /\ \A i, j \in 1..Len(in) : in[i].id = in[j].id => i = j
      /\ \A i \in 1..Len(in) : in[i].deps \subseteq ids \cup {Root}
      /\ \E rank \in [ids \cup {Root} -> 0..Len(in)] :
           \A i \in 1..Len(in) : \A d \in in[i].deps : rank[d] < rank[in[i].id]

\* decompose accepts exactly the well-formed inputs, and the DAG it accepts
\* holds exactly the leaves it was given.
AcceptsExactlyWellFormed ==
  /\ phase = "valid" =>
       /\ WellFormed(input)
       /\ nodes = {Root} \cup {input[i].id : i \in 1..Len(input)}
       /\ \A i \in 1..Len(input) : deps[input[i].id] = input[i].deps
  /\ phase = "rejected" => ~WellFormed(input)
=============================================================================
