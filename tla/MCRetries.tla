------------------------------ MODULE MCRetries ------------------------------
(***************************************************************************)
(* The two parts that try a failed piece of work again.  They share no     *)
(* state, so a behaviour is that of one of them, with the other left at    *)
(* its start.                                                              *)
(*   critique: two leaves, independent or one after the other, confidences *)
(*     0, 0.5 and 1 and a threshold of 1, so that run accepts what the     *)
(*     critique doubts; up to one failing append;                          *)
(*   engine: two calls, two permits, one retry, a breaker of two failures. *)
(***************************************************************************)
EXTENDS Critique, Engine

VARIABLE part

MCId == 0..2
MCRoot == 1
MCInputs == {<<[id |-> 0, deps |-> {}], [id |-> 2, deps |-> d]>> : d \in {{}, {0}}}

RetriesInit ==
  /\ part \in {"critique", "engine"}
  /\ CritiqueInit /\ EngineInit

RetriesNext ==
  \/ part = "critique" /\ CritiqueNext /\ UNCHANGED <<part, engineVars>>
  \/ part = "engine" /\ EngineNext /\ UNCHANGED <<part, critiqueVars>>

\* The fairness of Critique and Engine.
RetriesFairSpec ==
  /\ RetriesInit /\ [][RetriesNext]_<<part, critiqueVars, engineVars>>
  /\ WF_critiqueVars(part = "critique" /\ CritiqueNext)
  /\ \A c \in Client : /\ WF_engineVars(part = "engine" /\ ClientStep(c))
                       /\ SF_engineVars(part = "engine" /\ Acquire(c))
  /\ WF_engineVars(part = "engine" /\ Pass)
=============================================================================
