------------------------------- MODULE Consensus -------------------------------
(***************************************************************************)
(* tools/delegation/multi_model_consensus.py: run_consensus asks three     *)
(* models about one leaf, one after the other, through router_fn, which    *)
(* answers with confidence 1, gives up with an empty text and confidence   *)
(* 0, or raises; where the texts differ a critic, if there is one, breaks  *)
(* the tie.  A caller may start over once a consensus is reached.          *)
(***************************************************************************)
EXTENDS Naturals, Sequences, FiniteSets, Listing

CONSTANTS
  ModelLists,   \* bound: the lists of models a caller names
  Kilo,         \* the models whose name contains "kilo"
  Text,         \* bound: the answers
  NoText        \* the empty text of a vote that failed, no winner

Named == UNION {{models[i] : i \in DOMAIN models} : models \in ModelLists}

ASSUME ConsensusAssumption == NoText \notin Text /\ \A models \in ModelLists : models \in Seq(Named)

VARIABLES
  votes,    \* the votes so far: model, text, confidence
  leaf      \* the locals and the result of run_consensus

consensusVars == <<votes, leaf>>

NewLeaf == [pc |-> "idle", chain |-> <<>>, critic |-> 0, winner |-> 0, agreed |-> FALSE]

ConsensusInit == votes = <<>> /\ leaf = NewLeaf

-----------------------------------------------------------------------------
\* _exclude_kilo, then the first three; fewer raise ValueError.
FanOut ==
  /\ leaf.pc = "idle"
  /\ \E models \in ModelLists :
       LET chain == Kept(models, {i \in DOMAIN models : models[i] \notin Kilo}) IN
       leaf' = [leaf EXCEPT !.pc = IF Len(chain) < 3 THEN "raised" ELSE "voting",
                            !.chain = chain]
  /\ UNCHANGED votes

Vote ==
  /\ leaf.pc = "voting" /\ Len(votes) < 3
  /\ \E text \in Text \union {NoText} :
       votes' = Append(votes, [model |-> leaf.chain[Len(votes) + 1], text |-> text,
                               conf |-> IF text = NoText THEN 0 ELSE 1])
  /\ UNCHANGED leaf

\* Whatever router_fn or the critic raises goes to the caller.
ConsensusRaises ==
  /\ leaf.pc = "voting"
  /\ leaf' = [leaf EXCEPT !.pc = "raised"]
  /\ UNCHANGED votes

Texts == {votes[i].text : i \in DOMAIN votes}

\* Mutated form: the last vote replaces an equal or better one.
Latest == Len(votes)

\* max keeps the first vote of the highest confidence.
Best ==
  CHOOSE i \in DOMAIN votes :
    /\ \A j \in DOMAIN votes : votes[j].conf <= votes[i].conf
    /\ \A j \in 1..(i - 1) : votes[j].conf < votes[i].conf

Agree ==
  /\ leaf.pc = "voting" /\ Len(votes) = 3 /\ Cardinality(Texts) = 1
  /\ leaf' = [leaf EXCEPT !.pc = "won", !.winner = Best, !.agreed = TRUE]
  /\ UNCHANGED votes

\* The critic's verdict: any index (0 is none, 4 one too many) and findings
\* that are critical or not; no critic gives neither.
BreakTie ==
  /\ leaf.pc = "voting" /\ Len(votes) = 3 /\ Cardinality(Texts) > 1
  /\ \E index \in 0..4, critical \in BOOLEAN :
       leaf' = IF critical THEN [leaf EXCEPT !.pc = "blocked", !.critic = index]
               ELSE [leaf EXCEPT !.pc = "won", !.critic = index,
                                 !.winner = IF index \in DOMAIN votes THEN index ELSE Best]
  /\ UNCHANGED votes

StartOver ==
  /\ leaf.pc \in {"won", "blocked", "raised"}
  /\ votes' = <<>> /\ leaf' = NewLeaf

ConsensusNext ==
  FanOut \/ Vote \/ ConsensusRaises \/ Agree \/ BreakTie \/ StartOver

ConsensusSpec == ConsensusInit /\ [][ConsensusNext]_consensusVars

-----------------------------------------------------------------------------
\* A model that failed wins only when the critic chose it or no model answered:
\* one good answer among failures is never lost; only equal texts count as
\* agreement; and the votes are those of three models of the list, none of
\* them Kilo's.
AnswerWins ==
  /\ leaf.pc = "won" =>
       /\ leaf.agreed <=> \A i, j \in DOMAIN votes : votes[i].text = votes[j].text
       /\ leaf.critic \notin DOMAIN votes /\ Texts # {NoText} =>
            votes[leaf.winner].text # NoText
  /\ \A i \in DOMAIN votes : votes[i].model = leaf.chain[i] /\ votes[i].model \notin Kilo
=============================================================================
