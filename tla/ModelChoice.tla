---------------------------- MODULE ModelChoice ----------------------------
(***************************************************************************)
(* How a model is chosen: FreeModelRouter (one per process) and            *)
(* DomainAwareRouter (one per project), which rank the models of a list by *)
(* what the health tracker and the feedback loop know, drop the closed     *)
(* ones, and take turns among those as good as the first.                  *)
(*                                                                         *)
(* pick holds the router's lock from end to end, so one pick at a time is  *)
(* under way; the tracker and the feedback loop have locks of their own    *)
(* and go on being told of answers and errors by other threads, between    *)
(* any two reads of one pick.                                              *)
(*                                                                         *)
(* Scores are small integers. The turn counter of FreeModelRouter grows    *)
(* for ever and is only used modulo the number of models in the tie, so it *)
(* is kept modulo Rotation, a multiple of all those numbers. The daily     *)
(* quota is left out: no caller counts a dispatch, it is never used up.    *)
(***************************************************************************)
EXTENDS Integers, Sequences, FiniteSets, Listing

CONSTANTS Known,        \* the models of the registry
          Task,         \* task types
          Ranked,       \* Ranked[t]: models_for_task(t), best static score first
          Ladder,       \* Ladder[t]: the project's ladder for the role of t
          Prior,        \* Prior[t][m]: affinity (or primary) and weight, as rank counts them
          Slow,         \* Slow[m]: what the expected latency takes off a score
          Quality,      \* the levels of an EMA, an interval of integers
          Epsilon,      \* TIE_EPSILON
          Rotation      \* bound on the turn counter

ASSUME ChoiceAssumption ==
  /\ \A t \in Task : /\ Ranked[t] \in Seq(Known)
                     /\ Ladder[t] \in Seq({Ladder[t][i] : i \in DOMAIN Ladder[t]})
                     /\ \A n \in 1..Len(Ranked[t]) : Rotation % n = 0
                     /\ \A m \in Known : Prior[t][m] \in Int
  /\ \A m \in Known : Slow[m] \in Int
  /\ Quality \subseteq Int /\ Quality # {}
  /\ {Epsilon, Rotation} \subseteq Nat

VARIABLES kind,         \* which of the two routers this is
          ema,          \* feedback loop: moving average of each model
          health,       \* tracker: "fine", "shaky" (errors on record) or "closed"
          turn,         \* _tiebreak
          pick,         \* the pick that holds the lock
          raced         \* history: the head of the pick's chain was scored anew meanwhile

choiceVars == <<kind, ema, health, turn, pick, raced>>

Idle == [at |-> "idle"]
Health == {"fine", "shaky", "closed"}

ChoiceInit ==
  /\ kind \in {"free", "domain"}
  /\ ema = [m \in Known |-> CHOOSE q \in Quality : TRUE]
  /\ health = [m \in Known |-> "fine"]
  /\ turn = [t \in Task |-> 0]
  /\ pick = Idle
  /\ raced = FALSE

---------------------------------------------------------------------------
(* The models a pick starts from: the registry's order for the task, or    *)
(* the project's ladder without the names the registry does not know.      *)
Candidates(t) == IF kind = "free" THEN Ranked[t]
                 ELSE Kept(Ladder[t], {i \in DOMAIN Ladder[t] : Ladder[t][i] \in Known})

Rank(t, m, scores) == Prior[t][m] + scores[m] - (IF health[m] = "shaky" THEN 1 ELSE 0) - Slow[m]

(* Sorted by rank, ties in list order (the sort is stable); the quarantined *)
(* and those in their retry-after go.                                       *)
BuiltChain(t, scores) ==
  LET list == Candidates(t)
      open == {i \in DOMAIN list : health[list[i]] # "closed"}
      rank(i) == Rank(t, list[i], scores)
  IN  Listed(list, open, {p \in open \X open :
        rank(p[1]) > rank(p[2]) \/ (rank(p[1]) = rank(p[2]) /\ p[1] <= p[2])})

(* The score ties are made of, unlike the rank, leaves the task out.       *)
ChainScore(m) == ema[m] - Slow[m]
Distance(a, b) == IF a > b THEN a - b ELSE b - a
Tied(chain, top) ==
  Kept(chain, {i \in DOMAIN chain : Distance(ChainScore(chain[i]), top) <= Epsilon})

(* FreeModelRouter counts on, DomainAwareRouter stores the index it used.  *)
(* Plausible bug: the turn is used and stored unchanged.                   *)
SameTurn(t, n) == IF kind = "free" THEN turn[t] ELSE turn[t] % n
TurnAfter(t, n) == IF kind = "free" THEN (turn[t] + 1) % Rotation ELSE (turn[t] % n) + 1

---------------------------------------------------------------------------
(* pick, read by read.                                                     *)
Ask(t) ==
  /\ pick.at = "idle"
  /\ pick' = [at |-> "chain", task |-> t, scores |-> ema]
  /\ raced' = FALSE
  /\ UNCHANGED <<kind, ema, health, turn>>

(* Build the chain; RuntimeError when nothing is available. The domain     *)
(* router asks for the averages as it goes, the other had copied them.     *)
Build ==
  /\ pick.at = "chain"
  /\ LET chain == BuiltChain(pick.task, IF kind = "free" THEN pick.scores ELSE ema)
     IN  pick' = IF chain = <<>> THEN Idle
                 ELSE [at |-> "top", task |-> pick.task, chain |-> chain]
  /\ UNCHANGED <<kind, ema, health, turn, raced>>

(* Plausible bug: the top is read off the list, before it is sorted and    *)
(* the closed models are gone.                                             *)
TopOfList(t, chain) == ChainScore(Head(Candidates(t)))
TopOf(t, chain) == ChainScore(Head(chain))
ReadTop ==
  /\ pick.at = "top"
  /\ pick' = [at |-> "tie", task |-> pick.task, chain |-> pick.chain, top |-> TopOf(pick.task, pick.chain)]
  /\ UNCHANGED <<kind, ema, health, turn, raced>>

(* An empty tie is a division by zero, which leaves the lock free.         *)
Choose ==
  /\ pick.at = "tie"
  /\ LET tied == Tied(pick.chain, pick.top)
         t == pick.task
     IN  IF tied = <<>>
           THEN pick' = [at |-> "crash"] /\ UNCHANGED turn
           ELSE /\ pick' = [at |-> "chosen", task |-> t,
                            model |-> tied[(turn[t] % Len(tied)) + 1]]
                /\ turn' = [turn EXCEPT ![t] = TurnAfter(t, Len(tied))]
  /\ UNCHANGED <<kind, ema, health, raced>>

Answer ==
  /\ pick.at \in {"chosen", "crash"}
  /\ pick' = Idle
  /\ raced' = FALSE
  /\ UNCHANGED <<kind, ema, health, turn>>

---------------------------------------------------------------------------
(* The other threads: a response is scored and moves the average towards   *)
(* its score; an error, a success or the clock changes a model's health.   *)
Record(m) ==
  /\ \E q \in Quality \ {ema[m]} : ema' = [ema EXCEPT ![m] = q]
  /\ raced' = (raced \/ (pick.at = "tie" /\ Head(pick.chain) = m))
  /\ UNCHANGED <<kind, health, turn, pick>>

Track(m) ==
  /\ \E h \in Health \ {health[m]} : health' = [health EXCEPT ![m] = h]
  /\ UNCHANGED <<kind, ema, turn, pick, raced>>

Asked == \E t \in Task : Ask(t)
Told == \E m \in Known : Record(m) \/ Track(m)
ChoiceNext == Asked \/ Build \/ ReadTop \/ Choose \/ Answer \/ Told
ChoiceSpec == ChoiceInit /\ [][ChoiceNext]_choiceVars

---------------------------------------------------------------------------
(* The division by zero in pick needs a score recorded for the head of its *)
(* chain between the two reads of that score: with no such race, and       *)
(* whatever else is recorded meanwhile, the tie has the head in it.        *)
EmptyTieOnlyIfRaced == pick.at = "crash" => raced

(* Round robin: once nothing is recorded any more, a task type that is     *)
(* asked for again and again is given every model of its tie again and     *)
(* again, whatever turn the counter stood at.                              *)
IsTied(t, m) ==
  LET chain == BuiltChain(t, ema)
  IN  \E i \in DOMAIN chain : chain[i] = m /\ Distance(ChainScore(m), TopOf(t, chain)) <= Epsilon
Chosen(t) == pick.at = "chosen" /\ pick.task = t
TiesTakeTurns ==
  \A t \in Task, m \in Known :
    (<>[][FALSE]_<<ema, health>> /\ []<>Chosen(t) /\ []<>(pick = Idle))
      => ([]<>(~IsTied(t, m)) \/ []<>(Chosen(t) /\ pick.model = m))

=============================================================================
