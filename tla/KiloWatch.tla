------------------------------- MODULE KiloWatch -------------------------------
(***************************************************************************)
(* The file bus to Kilo.  run_probe_roundtrip (tools/harness/              *)
(* integration.py) writes a task file to the inbox, runs the bridge and    *)
(* writes a receipt; nothing ever removes either file.  The watcher        *)
(* (tools/harness/watch_kilo.py) runs cycles over a pending file it loads, *)
(* edits in memory and rewrites in place; a cycle may run in the watching  *)
(* process and in a desktop at once, and be cut off anywhere.              *)
(***************************************************************************)
EXTENDS Integers, FiniteSets

CONSTANTS
  Probe,      \* probe ids
  Watcher,    \* the processes that run watch cycles
  Daemon,     \* those started with --watch, which never stop
  Lifetime,   \* time given to a new probe (3600 s)
  Grace,      \* time after the deadline until it is swept (1800 s)
  MaxTime,    \* bound on the clock
  MaxCrashes  \* bound: how often cycles are cut off

ASSUME KiloAssumption ==
  /\ Daemon \subseteq Watcher
  /\ {Lifetime, Grace, MaxTime, MaxCrashes} \subseteq Nat

VARIABLES
  inbox,      \* the probes with a task file
  receipts,   \* the probes with a receipt file
  bridge,     \* the probes whose bridge process runs
  file,       \* pending.jsonl: the deadline of each entry, or NoEntry
  cycle,      \* the locals of each watcher's process_once
  now,        \* the clock
  crashes     \* how often a cycle was cut off

kiloVars == <<inbox, receipts, bridge, file, cycle, now, crashes>>

NoEntry == -1
Pending == [Probe -> {NoEntry} \union 0..(MaxTime + Lifetime)]
Nothing == [p \in Probe |-> NoEntry]

KiloTypeOK ==
  /\ inbox \subseteq Probe /\ receipts \subseteq inbox /\ bridge \subseteq inbox
  /\ file \in Pending
  /\ cycle \in [Watcher -> [pc : {"idle", "loaded", "registered", "closed", "swept", "truncated"},
                            pending : Pending]]
  /\ now \in 0..MaxTime /\ crashes \in 0..MaxCrashes

KiloInit ==
  /\ inbox = {} /\ receipts = {} /\ bridge = {}
  /\ file = Nothing
  /\ cycle = [w \in Watcher |-> [pc |-> "idle", pending |-> Nothing]]
  /\ now = 0 /\ crashes = 0

-----------------------------------------------------------------------------
\* run_probe_roundtrip.  An id may be used again; the task file is replaced.
SendProbe(p) ==
  /\ p \notin bridge
  /\ inbox' = inbox \union {p}
  /\ \/ bridge' = bridge \union {p}
     \/ UNCHANGED bridge   \* the ledger append raised: the task file stays
  /\ UNCHANGED <<receipts, file, cycle, now, crashes>>

\* The bridge printed a result, good or bad: both give a receipt.
BridgeAnswers(p) ==
  /\ p \in bridge
  /\ bridge' = bridge \ {p}
  /\ receipts' = receipts \union {p}
  /\ UNCHANGED <<inbox, file, cycle, now, crashes>>

\* The bridge timed out or printed no JSON: the exception leaves no receipt.
BridgeFails(p) ==
  /\ p \in bridge
  /\ bridge' = bridge \ {p}
  /\ UNCHANGED <<inbox, receipts, file, cycle, now, crashes>>

-----------------------------------------------------------------------------
\* process_once of watcher w, step by step.
Advance(w, frm, to, pending) ==
  /\ cycle[w].pc = frm
  /\ cycle' = [cycle EXCEPT ![w] = [pc |-> to, pending |-> pending]]

LoadPending(w) ==
  /\ Advance(w, "idle", "loaded", file)
  /\ UNCHANGED <<inbox, receipts, bridge, file, now, crashes>>

\* Every task file without an entry gets one, whatever became of it before.
RegisterTasks(w) ==
  /\ Advance(w, "loaded", "registered",
       [p \in Probe |-> IF p \in inbox /\ cycle[w].pending[p] = NoEntry
                        THEN now + Lifetime ELSE cycle[w].pending[p]])
  /\ UNCHANGED <<inbox, receipts, bridge, file, now, crashes>>

\* Mutated form: only a probe the cycle did not register itself is closed.
ClosedIfOld(w, p) == p \in receipts /\ file[p] # NoEntry

ClosedBy(w, p) == p \in receipts

CloseAnswered(w) ==
  /\ Advance(w, "registered", "closed",
       [p \in Probe |-> IF ClosedBy(w, p) THEN NoEntry ELSE cycle[w].pending[p]])
  /\ UNCHANGED <<inbox, receipts, bridge, file, now, crashes>>

\* Mutated form: the grace is taken off the deadline.
OverdueEarly(deadline) == now >= deadline - Grace

Overdue(deadline) == now > deadline + Grace

\* stale_sweep only logs what it drops.
StaleSweep(w) ==
  /\ Advance(w, "closed", "swept",
       [p \in Probe |-> IF Overdue(cycle[w].pending[p])
                        THEN NoEntry ELSE cycle[w].pending[p]])
  /\ UNCHANGED <<inbox, receipts, bridge, file, now, crashes>>

\* save_pending: open(..., "w") empties the file, the lines are written at its
\* close.  What another watcher wrote in between stays behind the end of what
\* is written over it, and load_pending lets the later line of an id win.
Truncate(w) ==
  /\ Advance(w, "swept", "truncated", cycle[w].pending)
  /\ file' = Nothing
  /\ UNCHANGED <<inbox, receipts, bridge, now, crashes>>

WriteLines(w) ==
  /\ Advance(w, "truncated", "idle", Nothing)
  /\ \E tail \in SUBSET {p \in Probe : file[p] # NoEntry} :
       file' = [p \in Probe |-> IF p \in tail THEN file[p] ELSE cycle[w].pending[p]]
  /\ UNCHANGED <<inbox, receipts, bridge, now, crashes>>

\* The cycle raises or its process is killed.
Crash(w) ==
  /\ cycle[w].pc # "idle" /\ crashes < MaxCrashes
  /\ crashes' = crashes + 1
  /\ cycle' = [cycle EXCEPT ![w] = [pc |-> "idle", pending |-> Nothing]]
  /\ UNCHANGED <<inbox, receipts, bridge, file, now>>

KiloTick ==
  /\ now < MaxTime
  /\ now' = now + 1
  /\ UNCHANGED <<inbox, receipts, bridge, file, cycle, crashes>>

-----------------------------------------------------------------------------
CycleStep(w) ==
  \/ RegisterTasks(w) \/ CloseAnswered(w) \/ StaleSweep(w) \/ Truncate(w) \/ WriteLines(w)

KiloNext ==
  \/ \E p \in Probe : SendProbe(p) \/ BridgeAnswers(p) \/ BridgeFails(p)
  \/ \E w \in Watcher : LoadPending(w) \/ CycleStep(w) \/ Crash(w)
  \/ KiloTick

KiloSpec == KiloInit /\ [][KiloNext]_kiloVars

\* A started cycle goes on, and the watching process starts them for ever.
KiloFairSpec ==
  /\ KiloSpec
  /\ \A w \in Watcher : WF_kiloVars(CycleStep(w))
  /\ \A w \in Daemon : WF_kiloVars(LoadPending(w))

-----------------------------------------------------------------------------
\* An answered probe leaves the pending file for good: two cycles at once, or
\* one cut off, may bring it back, but not for ever - although every cycle
\* registers it anew, its task file being still there.
AnsweredSettle == \A p \in Probe : p \in receipts ~> [](file[p] = NoEntry)

\* A probe nobody answered is found in the pending file again and again, after
\* every sweep, lost update, torn file and crash: no cycle forgets it.
OpenStaysTracked ==
  \A p \in Probe : p \in inbox ~> (file[p] # NoEntry \/ p \in receipts)
=============================================================================
