------------------------------ MODULE MCDispatch ------------------------------
(***************************************************************************)
(* Two threads, two projects, two registered models (muse is in the chains *)
(* only), and thresholds that are scaled down but keep their order:        *)
(* authorization errors quarantine first, then server errors, then rate    *)
(* limits; the breaker's cooldown is shorter than its window.              *)
(* A behaviour has callers of one kind: many calls to one model, whose     *)
(* gates they shut on each other, or a few calls of every kind.            *)
(***************************************************************************)
EXTENDS Dispatch

CONSTANTS t1, t2, alpha, beta, mimo, nemotron, muse, s1, s2, question, review, plan, sketch

VARIABLE callers  \* which requests are made

Ask(p, q, g, c, s) ==
  [project |-> p, model |-> None, prompt |-> q, tier |-> g, chain |-> c, session |-> s]

\* alpha's pool is not registered, so that a frontier call of it fails loud.
MCFrontier == [p \in Project |-> IF p = alpha THEN <<muse>> ELSE <<nemotron>>]

\* Both projects depend on one model.
GatesRequest == {Ask(alpha, question, "free", <<mimo>>, None),
                 Ask(beta, review, "free", <<mimo>>, None)}

\* A chain with an unregistered name, a chain with a second choice, both
\* frontier pools; the same prompt pinned to one model, which an explicit frontier tier
\* does not override, and to another.
ChainsRequest == {Ask(alpha, plan, "free", <<muse, mimo>>, None),
                  Ask(beta, sketch, "free", <<mimo, nemotron>>, None),
                  Ask(alpha, plan, "frontier", <<mimo>>, None),
                  Ask(beta, plan, "frontier", <<mimo>>, s1),
                  [Ask(beta, sketch, "frontier", <<>>, None) EXCEPT !.model = mimo],
                  [Ask(alpha, sketch, "free", <<mimo>>, s1) EXCEPT !.model = nemotron]}

\* One question at both tiers.
DegradedRequest == {Ask(alpha, question, g, <<mimo>>, None) : g \in Tier}

MCRequest == GatesRequest \union ChainsRequest
MCFault == {[code |-> 500, retry |-> 0], [code |-> 401, retry |-> 0],
            [code |-> 429, retry |-> 1]}
ThreadSymmetry == Permutations(Thread)

Requests == [gates |-> GatesRequest, chains |-> ChainsRequest, degraded |-> DegradedRequest]

CallersInit == Init /\ callers \in {c \in DOMAIN Requests : Requests[c] \subseteq Request}

CallersNext ==
  /\ Next
  /\ \A t \in Thread : req'[t] # req[t] => \E r \in Requests[callers] : req'[t] = Resolved(r)
  /\ callers = "chains" => calls' <= 2 /\ now' <= 1
  /\ UNCHANGED callers

CallersSpec == CallersInit /\ [][CallersNext]_<<vars, callers>>

\* The degraded run: no frontier is configured.
NoFrontier == [p \in Project |-> <<>>]
NoFault == {}
=============================================================================
