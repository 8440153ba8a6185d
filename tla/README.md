# J5 harness: TLA+ models, model checking and proofs

This directory specifies the J5 harness: how a prompt becomes a graph of tasks, how the
graph is run, retried and logged, how each task is routed to a worker model by several
threads at once, what the gateways, the cache, the ledger, the watcher and the executors
promise, and how the terminal, the desktop window and the command line use all of it.
Modules are written in plain TLA+ and checked with TLC on small instances; the theorems
listed below are proved with TLAPS for every value of the constants.

## The system

| Part | State it keeps | Operations | Talks to | Module |
|---|---|---|---|---|
| Task graph (`tools/delegation/orchestrator.py`, `self_healing.py`) | nodes, dependencies; in-degrees, queue and order while sorting | `decompose`, `CycleDetector`, `topological_order` | the ledger (one entry) | TaskGraph |
| Delegation run (`orchestrator.py`, `delegation_state.py`) | state, confidence, attempts of every node | `run`, node transitions | `router_fn` (a call per leaf), the ledger (an entry per step) | Orchestrator |
| Critique loop (`critique_loop.py`) | none; works on nodes | `should_rerun`, `rerun` | `router_fn`, the ledger | Critique |
| Ledger (`ledger.py`) | an append-only file, a line count in each object | `append`, `read_all` | other processes, through the file | Ledger |
| Consensus (`multi_model_consensus.py`) | none | `run_consensus` | `router_fn` three times, a critic | Consensus |
| Routing function (`tools/harness/integration.py`) | breakers per project and model | `router_fn`: cache, gates, send, accounting | tracker, breakers, cache, gateway | Dispatch |
| Health tracker (`tools/router/health_probe.py`) | counts, streak, quarantine, retry-after per model | `record_success/failure`, `is_quarantined`, `in_retry_after` | every thread of the process | Dispatch |
| Model choice (`fallback_chain.py`, `feedback_loop.py`, `free_model_router.py`, `domains/router.py`) | scores, a turn counter | `build_chain`, `record`, `pick` | the tracker | ModelChoice |
| Gateways (`gateway_adapters.py`, `http_gateway.py`) | an asyncio lock, an in-flight count | `send`, `asend`, failover | HTTP | Gateway |
| CLI adapter (`cli_gateway.py`) | the current worker process | `send`, `terminate_current` | worker processes | Console |
| Answer cache (`tools/latency/caching.py`) | an LRU map, a JSONL file and its index | `get`, `set`, `invalidate`, trimming | other processes, through the file | ResponseCache |
| Executors (`parallel_executor.py`, `speculative.py`) | futures, a queue bound, a deadline | `submit`, `map_*`, `run_branches`, `run_with_fallback` | thread pools | Executors |
| Async engine (`async_engine.py`) | a semaphore, a breaker per key | `run`, `run_with_retry`, `gather` | an event loop | Engine |
| Kilo probes (`integration.py`, `watch_kilo.py`) | task and receipt files, the pending file | `run_probe_roundtrip`, `process_once` | the bridge to Kilo, through files | KiloWatch |
| Skills (`tools/skills/ecosystem/`) | the loaded skills and their dependencies | discovery, waves, sandboxed invocation | worker processes | SkillHub |
| Paper portfolio (`tools/quant/paper.py`) | cash, positions, realised profit, a file | `buy`, `sell`, `save`, `load` | none | Paper |
| Terminal UI (`j5_tui/app.py`) | the stack of screens; per chat a busy flag, a worker session | prompts, Stop, New chat, screen changes | the CLI adapter, one thread per turn | Console |
| Desktop window (`j5_desktop/modern_app.py`) | buttons, results, the connection label | jobs of every view, timer | a thread pool, by signals | CommandCenter |
| Command line (`j5_cli/main.py`) | none between commands | every command of the parser, the readonly gate | the ledger, workers, the terminal UI | CommandLine |

What is hard here: a run is a sequence of partial failures (a worker call, a file append)
between which node states and the ledger must keep agreeing; the routing function is called
from several threads on shared trackers and breakers, and holds no lock from one step to the
next; an asyncio lock is used from several event loops; processes share the ledger, cache and
pending files and may be cut off inside a line; user interfaces change under the threads
that report to them; workers time out, and late answers are accounted for after the world
has moved on. `PROJECT.json` lists these hazards at their lines, with the properties that
would catch each one going wrong.

## Modules

### Delegation

**TaskGraph** models `decompose` leaf by leaf (`AddLeaf`, `RejectLeaf`) and
`topological_order` node by node (`StartSort`, `Pop`, `Finish`). Names are naturals in their
sorting order, so `sorted(...)` is the one ascending listing of a set. The detector's
depth-first search is modelled by what it decides, `HasCycle`; the sort is modelled with its
in-degrees and its queue.

**Orchestrator** extends TaskGraph. `Decompose` takes TaskGraph's steps;
`RecordDecomposition` is the ledger entry at its end. `SkipRoot`, `Block` and `Dispatch` are
the branches of `run`'s loop, `Answer(v)` and `RouterRaises` the ends of the worker call,
`HandleException` and `HandlerRaises` the except clause (the second when
`transition(FAILED)` is itself illegal), `Return` the end. `pc` says where the thread is.
Every append may fail (`LogFails`), which leaves the statement it stands in through the
exception path the code gives it, and leaves nothing or part of a line in the file. `cut` says
that the last line has no end: the next entry is glued to it, and neither can be read
(`Broken`).

**DelegationContract** is what callers rely on, without loops, ledgers or confidences: tasks
are accepted once, one worker is busy at a time, work starts only over done tasks, blocking
has a reason, verdicts are final. `KeepsContract` in Orchestrator maps `nodes`, `deps`, the
current task and the node states to it. A task whose exception is being handled counts as
open: its state may say SUCCEEDED for a moment when it was its ledger entry that failed.

**Critique** extends Orchestrator with reruns: after a run the caller may rerun any leaf
`should_rerun` admits. A rerun has no except clause, so a raising worker leaves its leaf
RUNNING.

### Routing and services

**Dispatch** models `router_fn` for several threads and projects with the shared
HealthTracker (`health`), the per-project breakers (`breaker`) and the answer cache as one
store that may forget. Each call on an object that has a lock is a step of its own:
`is_quarantined` (`CheckQuarantine`), `in_retry_after` (`CheckRetryAfter`) and `is_open`
(`CheckBreaker`) are three of them, and what each was answered may be out of date when the send
begins. The time that `record_failure` and `record_success` read before they ask for the lock
is kept in the thread (`local.stamp`), since the lock may be granted later; a gate that reads
the time before its lock can only be stricter, so there the two are one step.

**ResponseCache** models `MultiTierCache` for several threads: `memory` is the LRU map of each
process, `file` the lines they share, `index` the line numbers each process believes in. A
call is a `Start` followed by one step per tier; `set` holds the disk lock from `Count` over
`Write` to `Enter`, where the index is updated and perhaps trimmed. `Crash` restarts a process
with the index rebuilt from the file; it and `WriteFails` may leave a line without its end,
which `Written` then joins to the next one. `stored`, `ended`, `raced`, `tears` are history.

**Gateway** follows a call through a `FallbackGateway` of wrapped gateways. `send` runs
`asend` in an event loop of its own; the `asyncio.Lock` is modelled by what CPython's does
with several loops: the test and the setting are two steps for another thread (`Enter`,
`Take`), it binds itself to the loop of the first waiter (`Queue`), raises for a waiter of
another loop, and a release from another thread does not wake a loop already asleep
(`FallAsleep`, `Resume`). Inside it the counter has a real lock (`Guard` admits or refuses,
`PostEnds` gives back); `NextEndpoint` and `Leave` are the two levels of failover.

**ModelChoice** is `pick` of FreeModelRouter and DomainAwareRouter: `Build` the chain,
`ReadTop`, `Choose`, each reading scores and health that `Record` and `Track` (other threads)
change in between.

**Consensus** is `run_consensus`: `FanOut`, one `Vote` after the other with models that fail,
`Agree` or `BreakTie` with any verdict a critic may give.

**Executors** is one call on a pool, in any of its modes. A task may raise a `TimeoutError` of its
own, which `map_ordered` reports like the timeout of the wait (`CollectNext`). A speculation
looks at the branches one `wait` returned (`Wait`, `done`), even when the deadline passes
meanwhile; `late` remembers the branches that had not ended by then. **Engine** is several
`run_with_retry` calls of one event loop over a semaphore and a breaker, in which the sections
without an await are single steps.

**KiloWatch** has the probe's files (`inbox`, `receipts`), the pending file on disk (`file`) and
the copy each cycle edits (`cycle`); a cycle is `LoadPending`, `RegisterTasks`,
`CloseAnswered`, `StaleSweep`, `Truncate`, `WriteLines`, by a watching process and another one,
and may be cut off (`Crash`) anywhere.

**SkillHub** discovers skills over two roots with shadowing, expands a request, runs Kahn's
algorithm into waves and invokes them, each in a worker that restricts itself and runs or is
timed out. What `invoke` raises before its worker starts (its directory, its skill file) leaves
`run_waves`.

**Paper** counts cents and units of a share with every rounding of the code. The capital is that of
the process: `Load` takes any of `Capitals`, since `from_dict` drops the `initial_capital` the file
holds and takes the constructor's, so that cash saved under one capital meets the reserve and
the limits of another. `rounding` and `deposit` in a book are history: the largest error the fills
so far can have made, and the capital the cash began from.

### Surfaces

**Console** is the terminal UI. A turn is a thread with a program counter: it waits for the UI
thread whenever it posts (`call_from_thread`), sends to the CLI adapter, drains the worker's
output, may be killed by Stop or by the timeout, and goes on down its chain of models.
`screens` is the stack; handlers that run inline block the UI thread. `slot` is the
adapter's `_current_proc`. A session is named by the turn whose worker opened it, so that it can
be told whose conversation a screen is in; a turn may be answered from the cache, which hands
it the session of the turn that was first answered.

**CommandCenter** is the desktop window: `Press`, `Bypass`, `Request` and `Timer` hand a job to
the pool, `StartJob` and `EndJob` are the pool's, `Deliver` is the signal on the GUI thread.
`PageOf` names the page a job's result is shown on: the Kilo probe and the watcher have one page
between them.

**Ledger** is the file with the `DelegationLedger` objects over it: each counts the lines once,
when it is made, and a write that is cut off leaves part of a line to which the next entry is
glued. **CommandLine** extends it with the j5 processes: `main`'s gate, the command, the
entries it writes and the interrupts that reach it anywhere.

### Instances and proofs

MCOrchestrator gives the constants their values; MCDispatch also says which calls are
made: many to one model, whose gates they shut on each other, or a few through chains and pools.
**MCRetries** puts Critique and Engine side by side, which try failed work again, **MCFiles**
ResponseCache and Paper, what a process finds in its files again, **MCSurfaces** Console,
CommandCenter and CommandLine, and **MCServices** Gateway, ModelChoice, KiloWatch, SkillHub,
Executors and Consensus. The parts share no state: the interleavings between them would only multiply
states without adding a behaviour, so a behaviour is that of one part (`part`), with the
others left at their start. Where parts do share state they are composed: Critique over
Orchestrator over TaskGraph, CommandLine over Ledger, tracker, breakers and cache in Dispatch,
the CLI adapter in Console.

**Listing** says what a list comprehension with a condition (`Kept`) and `sorted` (`Listed`) give,
by counting places instead of by recursion, so that the provers can reason about them:
Dispatch's and Engine's failure windows, the entries of the cache's memory, the candidates and
ties of ModelChoice and the voters of Consensus are such lists.

`X_proofs` holds the theorems about X. Orchestrator_proofs ends with the refinement and
builds on TaskGraph_proofs; **Services_proofs** is about Gateway, Executors, SkillHub, Engine,
Consensus, ModelChoice and Paper, **Surfaces_proofs** about Console, CommandCenter and
CommandLine with its Ledger. **Counting_proofs** is their library: lists from places, sums over
a finite set, and the least number principle.

## Runs

| Run | Config | Shows |
|---|---|---|
| run | MCOrchestrator.cfg | `SoundOrder`, `SortIsComplete`, `AcceptsExactlyWellFormed`, `BlockedExactly`, `BlockedHasCulprit`, `LedgerTellsState`, `RunEnds`, `KeepsContract` on all leaf lists of the instance, with unknown, duplicate and circular ids |
| retries | MCRetries.cfg | Critique: `SuccessIsEarned`, `DoubtCanBeRetried`, `LedgerTellsRerunState`, `CritiqueSettles`; Engine: `TripsOnRecent`, `RetriesEnd` |
| dispatch | MCDispatch.cfg | `GatesHonouredUnlessRaced`, `QuarantineServed`, `BreakerTripsForCause`, `PinnedIsHonoured` |
| files | MCFiles.cfg | ResponseCache, for the threads of one process: `AnswerIsForKey`, `NoStaleReadUnlessRaced`, `TearCostsOne`; Paper, where a unit of a share is worth less than a cent: `BooksBalance`, `ReserveKept` |
| surfaces | MCSurfaces.cfg | Console: `BusyIsOneTurn`, `StopFindsTheWorker`, `NewChatIsNew`, `TurnsEnd`; CommandCenter: `ButtonsTellJobs`, `StatusSettles`; CommandLine: `BoundaryHolds`, `LedgerSound` |
| services | MCServices.cfg | Gateway: `InFlightIsExact`, `EndsUnlessAsleep`; ModelChoice: `EmptyTieOnlyIfRaced`, `TiesTakeTurns`; KiloWatch: `AnsweredSettle`, `OpenStaysTracked`; SkillHub: `WavesAreExact`; Executors: `ReportsAreTrue`; Consensus: `AnswerWins` |
| raw_raise | MCRawRaise.cfg | violated: a raw ValueError leaves `run` |
| degraded | MCDegraded.cfg | violated: a frontier request degrades silently through the cache |
| gateway_hangs | MCGatewayHangs.cfg | violated: a `send` waits for ever in an event loop nothing wakes |
| ledger_lines | MCLedgerLines.cfg | violated: a cut-off append leaves a ledger `read_all` cannot parse |
| new_chat | MCNewChat.cfg | violated: after New chat a screen goes on in an old conversation |
| skill_payload | MCSkillPayload.cfg | violated: a sandboxed skill never gets to its payload |

Each violated property states what a comment, a document or a test of the repository says;
`PROJECT.json` quotes it under "findings". Where the code keeps less than the document says, the
passing run checks what it does keep: `LedgerTellsState` is about ledgers that can be read,
`NewChatIsNew` excepts the turn that ran across a New chat and the cached answer,
`WavesAreExact` says that the remainder is what is on a cycle or behind one (where
`composition.py:6` has "exactly the set of skills participating in dependency cycles"),
`ReserveKept` holds for prices below $10,000 and fails above (`paper.py:32`, "cash never touched
by buys"), and `TripsOnRecent` allows a failure the time of one call beyond the window
(`async_engine.py:35`, "after N failures in window"), because failures are pruned when a call
begins and counted when it ends.

The conditions in the properties are there because the code needs them. In the cache, an
unfinished line (`tears`) is counted as a line, the next entry lands on it and is indexed one
line further down, where another key's entry will stand: from then on a get can return a foreign
value. Calls on one key that overlap (`raced`) can bring an overwritten value back, by the
promotion at the end of `get`. `GatesHonouredUnlessRaced` allows, gate by gate, the send before
which another thread's failure was recorded after that gate had been asked: a failure of the
model for the quarantine and the retry-after, one charged to the same project and model for the
breaker. `ButtonsTellJobs` says nothing of a page two jobs write: the older watcher's result may
replace the newer probe's. `DoubtCanBeRetried` is about a doubt of `run` only where the critique
loop's own threshold is not below the one half `run` doubts by, and may retry at all.
`EndsUnlessAsleep` excepts exactly the calls `gateway_hangs` is about. `EmptyTieOnlyIfRaced`
says when `pick` divides by zero: only if a score fell between the two times it reads it.
`StopFindsTheWorker` is about workers no other worker ran beside, since there is one slot for
all of them. `LedgerSound` counts what each cut-off write may cost.

### Bounds

A root and three leaves contain every shape the blocking and ordering rules tell apart:
chains, forks, joins, independent leaves, a leaf that waits for the root, self-loops and
cycles of two and three. Two failing appends cover a failure inside and one outside the try
statement of one run, and one of each kind on different leaves. Confidences are a short
scale that has a value on each side of every limit (0.5 and the critique's threshold).

In Dispatch two threads suffice for every race between a check and a send, or a send and its
accounting; four calls reach every threshold, which are scaled down and keep their order; the
clock goes far enough for a cooldown and a retry-after to elapse and for an error to be recorded
later than it happened. Chains with an unregistered name or a second choice, frontier pools and
pinned models are asked for in two calls: one stores what the other finds. In ResponseCache each
tier holds one or two of the two keys, so evictions, promotions and trims happen within four
calls, which are enough for an entry to be written, displaced, overwritten and read; two faults
put a torn line on top of another. Times to live are 0 in memory and 1 on file, so that an entry
expires in one tier or in both.

In Console a second screen and a second turn are enough for two workers in one slot, a turn that
outlives its screen or its chat, and a Stop meant for the other. CommandCenter has a view of
each kind, one guarded view sharing its page with a bypassed one, and two jobs for a pool of two
threads, so that two jobs of a bypassed view overlap in either order. CommandLine's two
processes and two lines let each count the file before or after the other's entry, and a torn
line be continued.

In MCServices a chain of two gateways with two endpoints each gives both levels of failover, and
three calls over a limit of one give a holder, a waiter and a refused call; one probe over a
daemon and a second watcher covers every overlap of two cycles on one pending file; three skills
contain chains, forks, joins and every cycle; three tasks over two threads leave one queued when
the deadline passes; four models are one more than the votes taken. In MCRetries two calls over
two permits and one retry overlap inside the breaker and trip it between them; two leaves, one
perhaps waiting for the other, are what a rerun can find changed around it. In MCFiles three
trades over two tickers with prices that do not divide the amounts add up the roundings, before
and after a restart under the other of two capitals, whose reserves differ; 40 units of a share
cost at most 34 cents, so that a unit costs less than a cent, as in the code it does below
$10,000.

`MaxFaults`, `MaxCalls`, `MaxTime`, `MaxCrashes`, `MaxTrades`, `MaxFailures`, `MaxTries`,
`MaxChain`, `MaxDepth` bound otherwise endless behaviour.

Deadlock is not checked: each model ends when its callers have nothing left to do.

### Fairness

* Orchestrator and Critique: weak fairness of the one thread. Nothing else can hold it back,
  and these properties are about its own loops: that a worker call ends is their premise. The CLI
  and HTTP adapters justify it by a timeout on each subprocess or request; the default gateway,
  used by several threads, does not (`gateway_hangs`), and a send that hangs there hangs the run
  with it. `CritiqueFairSpec` adds that the caller goes on rerunning,
  which is what makes its termination worth stating.
* Dispatch and Paper: none, since only safety is checked there. In particular nothing is claimed
  about the end of a `router_fn` call, which is as long as its gateway's.
* Console: the steps of a turn are strongly fair, because a post waits in the UI thread's
  event queue and is served when the thread is free, which it is again and again
  (`InlineEnds`, weakly fair); keys, chunks and the exits of workers are not fair: a worker
  that prints for ever is ended by the timeout. The adapter is the CLI one; behind the default
  gateway a turn may hang with its send (`gateway_hangs`), and its screen stays busy.
* CommandCenter: a queued job and the timer are served by a pool and an event loop that are
  busy in between, hence strong fairness of `StartJob` and `Timer`; running jobs end and
  signals are delivered (weak).
* Gateway: each call's own steps, so that what hangs, hangs in the code.
* KiloWatch: the steps of a cycle that has begun, and the start of the daemon's next cycle;
  not the probes, not the bridge, not the other watcher.
* Engine: a waiter of the semaphore is woken in turn (strong for `Acquire`), a call's other
  steps and the passing of time are weakly fair.

## Proofs

The theorems say for every value of the constants what the runs show for one.

**TaskGraph.** `GraphInv`. `SoundOrder` alone is not inductive: that a popped task comes after
its dependencies follows from the in-degrees, so the invariant says that during the sort a
node's in-degree is the number of its dependencies that were not popped, that the queue holds
exactly the unpopped nodes of in-degree zero, each once, and that the graph has no cycle.
Completeness (`ChecksAgree`) is then the contradiction between an empty queue and an acyclic
set of unpopped nodes.

**Orchestrator.** `RunInv` lifts that to `run`: the loop position splits the order into visited
and untouched nodes, and a visited leaf is blocked exactly when a dependency did not succeed.
Dependencies of a visited leaf are visited, by `SoundOrder`, and `run` never touches a visited
leaf again: that is why a blocked verdict stays justified. `BlockedHasCulprit` follows because a
set of blocked leaves that each wait for a blocked one would be a cycle. `LedgerTellsState`
needs to know the last entry of each leaf across every append that fails and the entry the
except clause writes after it. It is conditioned on a file that can be read: a cut-off line
makes `read_all` raise for good (`ledger_lines`), so that it hides the whole ledger and never a
part. The refinement (`ContractKept`) adds to `RunInv` that the graph is closed (`ContractInv`):
every dependency is a node, so that what the contract calls unmet is what the loop looks up.

**Critique.** `VerdictInv` is `RunInv` until the run returns and then, task by task, that a
success is earned and a doubt, if it is the loop's, can be retried: reruns break `RunInv` (a
leaf may succeed after those that waited for it were blocked), and these two facts are what is
left of it. `ToldInv` adds that attempts are dispatch entries.

**Dispatch.** `GateInv`: a thread past one of the tracker's gates has seen a number of failures no
larger than the present one, and the two are equal only while that gate is open for the
model; `ClosedInv` says the same of the breaker and the errors charged to it since it was asked.
For `PinnedIsHonoured`, `PinnedInv` says of every place an answer can come from - the cache under a
key with a model, a thread with a pinned request and its candidates - that it is that model's. For
`QuarantineServed`, `ServedInv` bounds how far ahead a quarantine can end by what has been
counted, since its length depends on which kind of error reached its limit; stamps are never
ahead of the clock. For `BreakerTripsForCause`, `TraceInv` is an injection from the failures a breaker
holds into the errors of its project and model: pruning keeps it, an error extends it, and a
breaker at its threshold therefore has that many errors, whatever threads record in between.

**ResponseCache.** Sets are numbered. `TearInv` says that the sets whose write is done and
whose line cannot be read are no more than the unfinished lines, with one in hand while the
last line has no newline; from it `TearCostsOne` follows for any number of processes and
threads. What a get returns is proved under `OneProcess` (one process on the file, any
number of its threads): two processes count lines under different locks, so that the index of
one can name the line of another key, and both properties are false for them. While no
line was cut off, `KeyInv` says that the memory, the file, the index and the threads hold
under a key what was set under it, and that the line a thread has counted is the line it
writes; `FreshInv` that no place a get can read from, on a key whose calls never overlapped, holds
what a set that has ended overwrote. The one moment it needs care is a set between its
two tiers, when the memory is new and the file is old: then the memory holds no other
value of that key, and no get of the key is under way.

**Services.** `CountInv`: a gateway's counter is the number of calls with it, whatever its lock
does. `ExecutorInv`: each report stays true because tasks that are over stay as they are, and what
a `wait` returned had ended before the deadline; that
a speculation without a result has heard of every branch is a pigeonhole argument (`AllHeard`).
`WavesInv`: while waves are composed an in-degree counts the dependencies in no wave yet, and
what is ready waits for the last wave; what is left over at the end is on a cycle or behind
one, because the earliest member of a set whose members wait for each other would wait for
an earlier one (`LeftOverIsStuck`). `EngineInv`: a call running under the breaker began when no
failure was out of the window, so none is older than the window and the time it has run;
the theorem asks for a window above nought, as `TripsOnRecent` is false for a window of nought.
`ConsensusInv` carries each vote's confidence and the whole of the votes to the moment a winner is
named. `ChoiceInv`: the top a pick has read is the head's score, unless it was recorded meanwhile.
`PaperInv` holds the books of the memory and of the file to the same account: what each
fill rounds away is bounded by what it adds to `rounding`, which takes bounds on rounded
quotients of products (`Averaged`, `Paid`) and that a sum changes by what one term does.
`ReserveKeptAlways` assumes every price below a cent a unit (a price below $10,000 in the code,
whose unit is 10^-6 of a share): a share rounded up by half a unit then costs less than half a
cent, which the rounding of the cost takes away again.

**Surfaces.** `ConsoleInv` is made of what a screen's flag says of the turns, what the slot says
of the workers, and whose session a screen may have: one opened by a turn of its own since the
last New chat, unless it was handed in by a turn that ran across it or by the cache.
`ButtonInv`: a guarded view has no job while its button is enabled and one, the latest, while it
is not. `BoundaryInv` and `LedgerInv` follow each process from its gate to its exit, and charge
each cut-off write for the line it leaves and the entry glued to it.

The assumptions are the `...Assumption`s the modules name: finite sets of nodes, threads and
calls, positive limits, thresholds in their order, inputs of the right type. TLC evaluates
each of them in a run.

Every safety invariant and every action property the runs check is the conclusion of a
theorem. Only model-checked are the liveness properties, which the prover does not reach:
`RunEnds`, `CritiqueSettles`, `TurnsEnd`, `StatusSettles`, `EndsUnlessAsleep`,
`AnsweredSettle`, `OpenStaysTracked`, `TiesTakeTurns`, `RetriesEnd`.

## Not modelled

* The older desktop window `j5_desktop/app.py`: its run buttons call `make_router_fn` with
  arguments that do not fit and can only show an error.
* Context compression and the benchmark, the domain configuration, theme, scripts, prompts:
  texts, lookups and layout without protocol state.
* The skill registry, the contract checks and what each gate of the sandbox policy admits; the
  order in which a worker restricts itself is modelled.
* In Dispatch the skill leaf (which returns before shared state is touched), the reputation
  feedback, and the tracker's manual `quarantine` and `release`, which nothing calls; in
  ResponseCache `clear` and a `set` with a ttl of its own; in the engine `run_in_thread`.
* The daily quota of the fallback chain: it compares a counter that is never incremented.
* Texts, prompts, usage records, reports; scores are small integers.

`PROJECT.json` gives the reason for each component.

## Observations

Met while modelling, beside the findings; each is in the models unless it says otherwise.

* Cache. Keys of `integration.py:502` carry no project and no session, so projects and chats
  share answers. Two processes on one file mis-index it (`caching.py:159`): the lines are
  counted and the new one is written under a lock of one process. Trimming removes nothing,
  since the index is rebuilt from the unchanged file. An entry promoted to memory gets a new
  creation time and outlives its ttl.
* Desktop. The watcher's result is written to the probe's page (`modern_app.py:915`): whichever of the
  two comes back last is shown.
* Console. Stop ends the worker, not the turn: the turn goes on to the next model of its chain.
  `terminate_current` reaches the adapter's latest worker only, and FallbackGateway has none. Two
  screens' histories overwrite each other.
* Routing. `map_ordered` and `map_unordered` do not pass through the bounded queue; the timeout of
  `run_parallel` does not bound the call, whose pool waits for every task; `run_with_fallback`
  ignores `min_success_score` for its primary. AsyncEngine's timeouts never count as failures.
  `http_gateway` changes its own `timeout_s` around a send, which threads share (not modelled).
  Three failed votes count as "agreed", and a vote names the model asked, not the one that
  answered after a failover.
* Skills. `validate_dependencies` calls `detect_cycles` and ignores what it returns; cycles are
  found only when waves are composed. The `cycle_nodes` of `CycleError` name the skills behind a cycle
  beside those on it.
* Delegation. A leaf blocked earlier stays blocked when a rerun makes its dependency
  succeed; no entry says so.
* Kilo. A probe that was swept as stale is registered anew by the next cycle as long as its task
  file is there. `cmd_probe` exits 0 on a failed probe.
* Command line. `j5 run` without `--json` ends in a traceback: its banner prints `node.tier` eight lines
  before `node` is assigned (`main.py:476`). `CommandLine.Banner` models it.
* Paper. An order of all the usable cash for an asset at $10,000 or more can take some cents of
  the reserve: its shares are rounded up to six decimals (`paper.py:112`), and a unit of the
  sixth is worth more than a cent. The limit of a position holds for one order at a time; an
  order in dollars passes by the order size; a restart forgets the saved `initial_capital`
  (`paper.py:163`), and with it what the reserve, the limits and `return_pct` are measured
  against; a save that was cut off makes every later load raise.

## What is left

1. One model of Dispatch over Gateway, in which a `send` that never returns holds a thread of
   Dispatch; today Dispatch takes the outcomes of `send` from a set.
2. The cache with two processes that trim at once: what a get may then still return.
3. The reputation feedback in Dispatch and the demotion by outcomes in ModelChoice.
