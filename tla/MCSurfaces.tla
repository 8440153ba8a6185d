------------------------------ MODULE MCSurfaces ------------------------------
(***************************************************************************)
(* The three front ends side by side: the terminal console, the desktop    *)
(* window and the j5 processes share no state, so a behaviour is one of    *)
(* the three parts at a time, with the other two left at their start.      *)
(*   console: two chat screens (the second opened over the dashboard), two *)
(*     turns, chains of one model, three screens on the stack;             *)
(*   window: routing with a page of its own, a probe and a watcher that    *)
(*     write one page, the overview; two jobs at a time, a pool of two     *)
(*     threads, one overview that fails;                                   *)
(*   cli: two processes of any command on one ledger of two lines, one     *)
(*     append cut off.                                                     *)
(***************************************************************************)
EXTENDS Console, CommandCenter, CommandLine

VARIABLE part

surfacesVars == <<part, vars, centerVars, cliVars>>

MCChat == 1..2
MCPageOf == [v \in {"routing", "probe", "watcher"} |-> IF v = "routing" THEN v ELSE "kilo"]

SurfacesInit ==
  /\ part \in {"console", "window", "cli"}
  /\ Init /\ CenterInit /\ CliInit
  /\ part # "window" => booted

SurfacesNext ==
  \/ part = "console" /\ Next /\ UNCHANGED <<part, centerVars, cliVars>>
  \/ part = "window" /\ CenterNext /\ UNCHANGED <<part, vars, cliVars>>
  \/ part = "cli" /\ CliNext /\ UNCHANGED <<part, vars, centerVars>>

\* The fairness of Console and of CommandCenter.
SurfacesFairSpec ==
  /\ SurfacesInit /\ [][SurfacesNext]_surfacesVars
  /\ WF_vars(part = "console" /\ InlineEnds)
  /\ \A t \in Turn : SF_vars(part = "console" /\ TurnStep(t))
  /\ \A j \in Job : /\ SF_centerVars(part = "window" /\ StartJob(j))
                    /\ WF_centerVars(part = "window" /\ EndJob(j))
                    /\ WF_centerVars(part = "window" /\ Deliver(j))
  /\ SF_centerVars(part = "window" /\ Timer)
=============================================================================
