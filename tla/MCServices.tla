------------------------------ MODULE MCServices ------------------------------
(***************************************************************************)
(* The services behind the front ends side by side: they share no state,   *)
(* so a behaviour is that of one of the six parts, with the others left at *)
(* their start.                                                            *)
(*   gateway: three calls through a chain of two gateways that admit one   *)
(*     call each, two endpoints;                                           *)
(*   choice: one task type, two models, a ladder with a name the registry  *)
(*     does not know, three levels of quality;                             *)
(*   kilo: one probe, a watching process and a second one, a crash;        *)
(*   skills: three skills with any dependencies, one of them perhaps in    *)
(*     the later root as well;                                             *)
(*   executor: three tasks, two threads, a queue of one;                   *)
(*   consensus: lists of three or four models, one of them Kilo's.         *)
(***************************************************************************)
EXTENDS Gateway, ModelChoice, KiloWatch, SkillHub, Executors, Consensus

VARIABLE part

servicesVars ==
  <<part, gatewayVars, choiceVars, kiloVars, skillVars, executorVars,
    consensusVars>>

MCRanked == [t \in Task |-> <<"m1", "m2">>]
MCLadder == [t \in Task |-> <<"m2", "gone", "m1">>]
MCPrior == [t \in Task |-> [m \in Known |-> IF m = "m1" THEN 1 ELSE 0]]
MCSlow == [m \in Known |-> 0]
MCQuality == 0..2
MCModelLists == {<<"m1", "m2", "m3">>, <<"m1", "kilo", "m2", "m3">>, <<"m1", "kilo", "m2">>}

ServicesInit ==
  /\ part \in {"gateway", "choice", "kilo", "skills", "executor", "consensus"}
  /\ GatewayInit /\ ChoiceInit /\ KiloInit /\ SkillInit /\ ExecutorInit /\ ConsensusInit
  /\ part # "choice" => kind = "free"
  /\ IF part = "skills" THEN tree.later \in {Absent, {"c"}}
     ELSE tree = [first |-> [s \in Skill |-> Absent], later |-> Absent]
  /\ part # "executor" => mode = "submit"

ServicesNext ==
  \/ /\ part = "gateway" /\ GatewayNext
     /\ UNCHANGED <<part, choiceVars, kiloVars, skillVars, executorVars, consensusVars>>
  \/ /\ part = "choice" /\ ChoiceNext
     /\ UNCHANGED <<part, gatewayVars, kiloVars, skillVars, executorVars, consensusVars>>
  \/ /\ part = "kilo" /\ KiloNext
     /\ UNCHANGED <<part, gatewayVars, choiceVars, skillVars, executorVars, consensusVars>>
  \/ /\ part = "skills" /\ SkillNext
     /\ UNCHANGED <<part, gatewayVars, choiceVars, kiloVars, executorVars, consensusVars>>
  \/ /\ part = "executor" /\ ExecutorNext
     /\ UNCHANGED <<part, gatewayVars, choiceVars, kiloVars, skillVars, consensusVars>>
  \/ /\ part = "consensus" /\ ConsensusNext
     /\ UNCHANGED <<part, gatewayVars, choiceVars, kiloVars, skillVars, executorVars>>

\* The fairness of Gateway and KiloWatch.
ServicesFairSpec ==
  /\ ServicesInit /\ [][ServicesNext]_servicesVars
  /\ \A c \in Call : WF_gatewayVars(part = "gateway" /\ CallStep(c))
  /\ \A w \in Watcher : WF_kiloVars(part = "kilo" /\ CycleStep(w))
  /\ \A w \in Daemon : WF_kiloVars(part = "kilo" /\ LoadPending(w))
=============================================================================
