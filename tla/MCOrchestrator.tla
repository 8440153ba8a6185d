---------------------------- MODULE MCOrchestrator ----------------------------
(***************************************************************************)
(* A root and three leaves with every dependency relation among the four,  *)
(* the cyclic ones included; and all shorter lists, whose leaves may name  *)
(* the root, repeat an id, or depend on a task that is not in the list.    *)
(* Two or three confidences, and up to two failing appends.                *)
(***************************************************************************)
EXTENDS Orchestrator, SequencesExt

MCId == 0..3
MCRoot == 1
MCLeafId == <<0, 2, 3>>
MCInputs ==
  {[i \in 1..3 |-> [id |-> MCLeafId[i], deps |-> d[i]]] : d \in [1..3 -> SUBSET MCId]}
    \cup SeqOf([id : MCId, deps : SUBSET MCId], 2)
=============================================================================
