-------------------------------- MODULE SkillHub --------------------------------
(***************************************************************************)
(* tools/skills/ecosystem: a SkillHub discovers SKILL.md files under two   *)
(* roots (skill_loader.py), expands a request to the skills it depends on, *)
(* composes them into waves with Kahn's algorithm (composition.py) and     *)
(* invokes them one by one (skill_hub.py), each in a worker process that   *)
(* restricts its own builtins before it runs the payload (sandbox.py).     *)
(***************************************************************************)
EXTENDS Naturals, Sequences, FiniteSets

CONSTANTS
  Skill,       \* identities, namespace/name
  Overridden,  \* the skill that may have a file in the later root as well
  Absent       \* no file

ASSUME SkillAssumption == IsFiniteSet(Skill) /\ Overridden \in Skill

VARIABLES
  tree,      \* the dependencies each file declares, in the first and the later root
  hub,       \* "new", then what became of discovery and of the request
  skills,    \* SkillHub._skills: the dependencies of each skill loaded
  queue,     \* the skills run_waves has still to expand
  expanded,  \* those it has expanded
  indegree, ready, waves,   \* the locals of compose_waves
  next,      \* the wave run_waves is in
  results,   \* what invoke returned for each skill
  worker     \* the worker process, while there is one

skillVars == <<tree, hub, skills, queue, expanded, indegree, ready, waves, next, results, worker>>

NoWorker == [skill |-> Absent, builtins |-> {}, payload |-> "none"]

Loaded == DOMAIN skills

\* A file with broken frontmatter, contract or self-tests shows up as a
\* discovery that fails.
SkillInit ==
  /\ tree \in [first : [Skill -> {Absent} \union SUBSET Skill],
               later : {Absent} \union SUBSET Skill]
  /\ hub = "new"
  /\ skills = <<>> /\ queue = {} /\ expanded = {}
  /\ indegree = [s \in Skill |-> 0] /\ ready = {} /\ waves = <<>> /\ next = 1
  /\ results = [s \in Skill |-> "none"]
  /\ worker = NoWorker

-----------------------------------------------------------------------------
\* The later root shadows the first.
FileOf(s) == IF s = Overridden /\ tree.later # Absent THEN tree.later ELSE tree.first[s]
Found == {s \in Skill : FileOf(s) # Absent}

\* detect_cycles returns the skills left over, and nothing looks at them: only
\* an unknown dependency is a failure.
DependencyFailures == {s \in Found : ~ FileOf(s) \subseteq Found}

Discover ==
  /\ hub = "new"
  /\ \/ /\ DependencyFailures = {}
        /\ hub' = "loaded"
        /\ skills' = [s \in Found |-> FileOf(s)]
     \/ /\ Found # {}   \* a file is broken, or a dependency unknown
        /\ hub' = "failed"
        /\ UNCHANGED skills
  /\ UNCHANGED <<tree, queue, expanded, indegree, ready, waves, next, results, worker>>

\* run_waves is called with some identities.
RunWaves ==
  /\ hub = "loaded"
  /\ \E requested \in SUBSET Loaded \ {{}} : queue' = requested
  /\ hub' = "expanding"
  /\ UNCHANGED <<tree, skills, expanded, indegree, ready, waves, next, results, worker>>

Expand ==
  /\ hub = "expanding"
  /\ LET s == CHOOSE q \in queue : TRUE IN
       /\ queue # {}
       /\ expanded' = expanded \union {s}
       /\ queue' = (queue \union (skills[s] \intersect Loaded)) \ expanded'
  /\ UNCHANGED <<tree, hub, skills, indegree, ready, waves, next, results, worker>>

-----------------------------------------------------------------------------
\* compose_waves.
Compose ==
  /\ hub = "expanding" /\ queue = {}
  /\ hub' = "composing"
  /\ indegree' = [s \in Skill |-> IF s \in expanded THEN Cardinality(skills[s]) ELSE 0]
  /\ ready' = {s \in expanded : skills[s] = {}}
  /\ UNCHANGED <<tree, skills, queue, expanded, waves, next, results, worker>>

Decremented == [s \in Skill |->
  IF s \in expanded THEN indegree[s] - Cardinality(skills[s] \intersect ready) ELSE 0]

\* Mutated form: one dependency done is enough.
Unblocked == {s \in expanded : indegree[s] > 0 /\ Decremented[s] < indegree[s]}

NextReady == {s \in expanded : indegree[s] > 0 /\ Decremented[s] = 0}

Processed == UNION {waves[k] : k \in DOMAIN waves}

NextWave ==
  /\ hub = "composing" /\ ready # {}
  /\ waves' = Append(waves, ready)
  /\ indegree' = Decremented
  /\ ready' = NextReady
  /\ UNCHANGED <<tree, hub, skills, queue, expanded, next, results, worker>>

\* CycleError leaves run_waves, or the waves are run.
Composed ==
  /\ hub = "composing" /\ ready = {}
  /\ hub' = IF expanded \ Processed # {} THEN "cycle" ELSE "running"
  /\ UNCHANGED <<tree, skills, queue, expanded, indegree, ready, waves, next, results, worker>>

-----------------------------------------------------------------------------
\* invoke: the next skill of the wave; the inputs break its contract, it has no
\* payload, or the process cannot be spawned - or a worker is started - or its
\* directory cannot be made or its payload read, and the exception leaves
\* run_waves.  A wave goes on whatever its skills, or those they depend on, came
\* to.
Uninvoked == {s \in waves[next] : results[s] = "none"}

Invoke ==
  /\ hub = "running" /\ worker = NoWorker
  /\ next \in DOMAIN waves /\ Uninvoked # {}
  /\ LET s == CHOOSE u \in Uninvoked : TRUE IN
       \/ /\ results' = [results EXCEPT ![s] = "refused"]
          /\ UNCHANGED <<hub, worker>>
       \/ /\ \E payload \in {"answers", "breaks"} :
               worker' = [skill |-> s, builtins |-> {"open", "exec", "eval", "compile"},
                          payload |-> payload]
          /\ UNCHANGED <<hub, results>>
       \/ hub' = "raised" /\ UNCHANGED <<results, worker>>
  /\ UNCHANGED <<tree, skills, queue, expanded, indegree, ready, waves, next>>

EndWave ==
  /\ hub = "running" /\ worker = NoWorker
  /\ next \in DOMAIN waves /\ Uninvoked = {}
  /\ next' = next + 1
  /\ hub' = IF next = Len(waves) THEN "done" ELSE "running"
  /\ UNCHANGED <<tree, skills, queue, expanded, indegree, ready, waves, results, worker>>

\* The worker takes exec, eval and compile out of the builtins module.
RestrictBuiltins ==
  /\ worker # NoWorker /\ "exec" \in worker.builtins
  /\ worker' = [worker EXCEPT !.builtins = @ \ {"exec", "eval", "compile"}]
  /\ UNCHANGED <<tree, hub, skills, queue, expanded, indegree, ready, waves, next, results>>

\* What becomes of the payload: its exec was saved beforehand, its compile is
\* looked up now.
Outcome == IF "compile" \notin worker.builtins THEN "NameError"
           ELSE IF worker.payload = "answers" THEN "ok" ELSE "failed"

RunPayload ==
  /\ worker # NoWorker /\ "exec" \notin worker.builtins
  /\ results' = [results EXCEPT ![worker.skill] = Outcome]
  /\ worker' = NoWorker
  /\ UNCHANGED <<tree, hub, skills, queue, expanded, indegree, ready, waves, next>>

\* communicate runs into its timeout and the worker is killed.
TimeOut ==
  /\ worker # NoWorker
  /\ results' = [results EXCEPT ![worker.skill] = "timed out"]
  /\ worker' = NoWorker
  /\ UNCHANGED <<tree, hub, skills, queue, expanded, indegree, ready, waves, next>>

-----------------------------------------------------------------------------
SkillNext ==
  \/ Discover \/ RunWaves \/ Expand \/ Compose \/ NextWave \/ Composed
  \/ Invoke \/ EndWave \/ RestrictBuiltins \/ RunPayload \/ TimeOut

SkillSpec == SkillInit /\ [][SkillNext]_skillVars

-----------------------------------------------------------------------------
\* The skills that cannot be scheduled: the largest set of expanded skills that
\* all depend on one of the set.
Stuck ==
  UNION {R \in SUBSET expanded : \A s \in R : skills[s] \intersect R # {}}

\* The waves hold every skill the request needs exactly once, each in the first
\* wave after all its dependencies; composition fails exactly when there is a
\* cycle, with all the skills on it or behind it left over (composition.py:6-8 says
\* only those on it: the code reports more); and no skill is invoked before all
\* it depends on were, however the two roots shadow each other.
WavesAreExact ==
  /\ hub \in {"cycle", "running", "raised", "done"} =>
       /\ \A s \in expanded : skills[s] \subseteq expanded
       /\ expanded \ Processed = Stuck
       /\ (hub = "cycle") = (Stuck # {})
       /\ \A i \in DOMAIN waves : \A s \in waves[i] :
            /\ \A j \in DOMAIN waves : s \in waves[j] => i = j
            /\ i > 1 => skills[s] \intersect waves[i - 1] # {}
            /\ \A d \in skills[s] : \E j \in 1..(i - 1) : d \in waves[j]
  /\ \A s \in Loaded : results[s] # "none" => \A d \in skills[s] : results[d] # "none"

\* The worker is said to remove the builtins so that "the payload still runs":
\* no worker fails over what it removed itself.
PayloadStillRuns == \A s \in Skill : results[s] # "NameError"
=============================================================================
