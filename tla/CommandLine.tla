------------------------------ MODULE CommandLine ------------------------------
(***************************************************************************)
(* j5_cli/main.py: the j5 processes on one machine.  main refuses a        *)
(* command in readonly mode by its row of COMMAND_CAPABILITIES, or runs    *)
(* it; run, probe and the interactive UI write to the project's ledger     *)
(* (Ledger.tla), each through an object of its own, and sessions reads it. *)
(***************************************************************************)
EXTENDS Ledger

CONSTANTS
  Viewer   \* the commands that only show what is configured: status, route, skills, ...

ASSUME ViewerAssumption ==
  Viewer \intersect {"run", "probe", "watch", "tui", "doctor", "sessions"} = {}

VARIABLES
  proc,     \* each process: its arguments, where it is, its exit code
  touched   \* what each process has done to the world

cliVars == <<ledgerVars, proc, touched>>

Process == Writer
Command == Viewer \union {"run", "probe", "watch", "tui", "doctor", "sessions"}
Effect == {"spawns_worker", "mutates_project", "mutates_harness_state"}

Capabilities(command) ==
  CASE command \in {"run", "probe", "tui"} -> Effect
    [] command = "watch" -> {"mutates_harness_state"}
    [] OTHER -> {}

\* No arguments yet; command "none" is a bare `j5`.
CliInit ==
  /\ LedgerInit
  /\ proc = [p \in Process |-> [pc |-> "idle", command |-> "none", json |-> FALSE,
                                readonly |-> FALSE, exit |-> 0]]
  /\ touched = [p \in Process |-> {}]

-----------------------------------------------------------------------------
Effective(p) == IF proc[p].command = "none" THEN "tui" ELSE proc[p].command

At(p, command, pc) == proc[p].pc = pc /\ Effective(p) = command
MoveTo(p, pc) == proc' = [proc EXCEPT ![p].pc = pc]
Exit(p, code) == proc' = [proc EXCEPT ![p].pc = "ended", ![p].exit = code]
Touch(p, effects) == touched' = [touched EXCEPT ![p] = @ \union effects]

\* The exit code of an exception nobody catches.
Traceback == 1000

\* The flag before or after the command, or J5_READONLY, all give readonly.
Start(p) ==
  /\ proc[p].pc = "idle"
  /\ \E command \in Command \union {"none"}, json \in BOOLEAN, readonly \in BOOLEAN :
       proc' = [proc EXCEPT ![p] = [pc |-> "gate", command |-> command, json |-> json,
                                    readonly |-> readonly, exit |-> 0]]
  /\ UNCHANGED <<ledgerVars, touched>>

\* Mutated form: only what spawns a worker is refused.
TriggeredBySpawn(command) == Capabilities(command) \intersect {"spawns_worker"}

Triggered(command) == Capabilities(command)

Gate(p) ==
  /\ proc[p].pc = "gate"
  /\ IF proc[p].readonly /\ Triggered(Effective(p)) # {} THEN Exit(p, 2) ELSE MoveTo(p, "command")
  /\ UNCHANGED <<ledgerVars, touched>>

\* The project is unknown or a file unreadable (an uncaught ValueError), or
\* the command has shown what it shows.
Show(p) ==
  /\ Effective(p) \in Viewer /\ proc[p].pc = "command"
  /\ \E code \in {0, Traceback} : Exit(p, code)
  /\ UNCHANGED <<ledgerVars, touched>>

\* doctor, and config and benchmark, which touch as little: the first thing
\* that is broken ends the command with a traceback, none of them has an exit
\* code for a bad finding.
Diagnose(p) ==
  /\ At(p, "doctor", "command")
  /\ \E code \in {0, Traceback} : Exit(p, code)
  /\ UNCHANGED <<ledgerVars, touched>>

\* Reads the ledgers without an object: a file it cannot open and a line it
\* cannot read are left out.
Sessions(p) ==
  /\ At(p, "sessions", "command")
  /\ Exit(p, 0)
  /\ UNCHANGED <<ledgerVars, touched>>

\* cmd_watch: cycles until Ctrl+C.
Watch(p) ==
  /\ At(p, "watch", "command")
  /\ Touch(p, {"mutates_harness_state"})
  /\ \E code \in {0, Traceback} : Exit(p, code)
  /\ UNCHANGED ledgerVars

\* cmd_tui: textual is missing, or the UI opens and makes a ledger object.
OpenUI(p) ==
  /\ At(p, "tui", "command")
  /\ \/ Exit(p, 1) /\ UNCHANGED <<ledgerVars, touched>>
     \/ /\ MoveTo(p, "dispatch") /\ Open(p)
        /\ Touch(p, Effect)

\* A dispatch is over: the next turn of the UI makes its object anew.
NextTurn(p) ==
  /\ At(p, "tui", "dispatch")
  /\ \/ Open(p) /\ UNCHANGED proc
     \/ Exit(p, 0) /\ UNCHANGED ledgerVars
  /\ UNCHANGED touched

\* cmd_probe: no kilo section or no project, or the task file is written and
\* the ledger object made.
Probe(p) ==
  /\ At(p, "probe", "command")
  /\ \/ Exit(p, 1) /\ UNCHANGED <<ledgerVars, touched>>
     \/ /\ MoveTo(p, "dispatch") /\ Open(p)
        /\ Touch(p, Effect)

\* A probe that failed is reported and exits with 0; a bridge that hangs or
\* prints no JSON raises.
ProbeEnds(p) ==
  /\ At(p, "probe", "dispatch")
  /\ \E code \in {0, Traceback} : Exit(p, code)
  /\ UNCHANGED <<ledgerVars, touched>>

\* cmd_run: the prompt is missing, given twice or unreadable, the project
\* unknown - or the ledger object is made.
Prepare(p) ==
  /\ At(p, "run", "command")
  /\ \/ Exit(p, 1) /\ UNCHANGED <<ledgerVars, touched>>
     \/ /\ MoveTo(p, "banner") /\ Open(p)
        /\ Touch(p, {"mutates_harness_state"})

\* What the banner prints of node, before node is assigned.
Banner(p) ==
  /\ At(p, "run", "banner")
  /\ IF proc[p].json THEN MoveTo(p, "dispatch") /\ Touch(p, Effect)
                     ELSE Exit(p, Traceback) /\ UNCHANGED touched
  /\ UNCHANGED ledgerVars

\* The node succeeded or not.
Report(p) ==
  /\ At(p, "run", "dispatch")
  /\ \E code \in {0, 1} : Exit(p, code)
  /\ UNCHANGED <<ledgerVars, touched>>

\* An entry of a dispatch, of a turn or of a probe.
Record(p) ==
  /\ proc[p].pc = "dispatch"
  /\ Entry(p)
  /\ UNCHANGED <<proc, touched>>

\* run and probe do not catch what append raises; the UI shows it.
RecordFails(p) ==
  /\ proc[p].pc = "dispatch"
  /\ EntryFails(p) \/ EntryTorn(p)
  /\ IF Effective(p) = "tui" THEN UNCHANGED proc ELSE Exit(p, Traceback)
  /\ UNCHANGED touched

\* Ctrl+C, also in the middle of an append; watch and the UI catch it.
Interrupt(p) ==
  /\ proc[p].pc \in {"command", "banner", "dispatch"}
  /\ \E code \in {0, 130} :
       /\ code = 0 => Effective(p) \in {"watch", "tui"}
       /\ Exit(p, code)
  /\ \/ UNCHANGED ledgerVars
     \/ proc[p].pc = "dispatch" /\ EntryTorn(p)
  /\ UNCHANGED touched

-----------------------------------------------------------------------------
CliNext ==
  \E p \in Process :
    \/ Start(p) \/ Gate(p) \/ Show(p) \/ Diagnose(p) \/ Sessions(p) \/ Watch(p)
    \/ OpenUI(p) \/ NextTurn(p) \/ Probe(p) \/ ProbeEnds(p) \/ Prepare(p) \/ Banner(p)
    \/ Report(p) \/ Record(p) \/ RecordFails(p) \/ Interrupt(p)

CliSpec == CliInit /\ [][CliNext]_cliVars

-----------------------------------------------------------------------------
\* COMMAND_CAPABILITIES tells the truth and readonly mode keeps it: no process
\* does what its row does not say, and one in readonly mode does nothing to
\* the world, bare `j5` and watch included.
BoundaryHolds ==
  \A p \in Process :
    /\ touched[p] \subseteq Capabilities(Effective(p))
    /\ proc[p].readonly => touched[p] = {}

=============================================================================
