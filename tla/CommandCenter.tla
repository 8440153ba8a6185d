----------------------------- MODULE CommandCenter -----------------------------
(***************************************************************************)
(* j5_desktop/modern_app.py: the desktop window.  Its handlers run on the  *)
(* GUI thread and hand everything slow to a thread pool (run_job); a job's *)
(* done or failed signal comes back to the GUI thread as one more event.   *)
(* A button is disabled while its job runs, but a shortcut, the palette,   *)
(* the timer and the search field start jobs without asking a button.      *)
(***************************************************************************)
EXTENDS Naturals, FiniteSets

CONSTANTS
  Guarded,      \* the jobs started by a button alone: routing, delegation,
                \* probes and benchmarks
  Bypassed,     \* those whose button has a shortcut or a palette entry beside
                \* it: the command view's and the watcher
  Unguarded,    \* those without a button: the skills and the overview
  PageOf,       \* the page a result is written to, of the jobs with one: the
                \* probe and the watcher have the Kilo page between them; the
                \* command view adds to a feed and the overview has no page
  Job,          \* bound: the jobs that may wait or run at once
  PoolSize,     \* the threads of the pool
  MaxFailures   \* bound: the overviews of a live backend that fail

ASSUME CenterAssumption ==
  /\ PoolSize \in Nat \ {0} /\ MaxFailures \in Nat
  /\ "overview" \in Unguarded
  /\ Guarded \intersect Bypassed = {}
  /\ (Guarded \union Bypassed) \intersect Unguarded = {}
  /\ "none" \notin Guarded \union Bypassed \union Unguarded
  /\ Guarded \subseteq DOMAIN PageOf
  /\ DOMAIN PageOf \subseteq Guarded \union Bypassed \union Unguarded

VARIABLES
  booted,    \* Backend.refresh, called in __init__ alone, succeeded
  enabled,   \* the state of each button
  job,       \* the jobs of the pool
  shown,     \* what each page shows
  conn,      \* the connection label
  failures   \* the overviews that failed

centerVars == <<booted, enabled, job, shown, conn, failures>>

View == Guarded \union Bypassed \union Unguarded
Button == Guarded \union Bypassed
Paged == DOMAIN PageOf
Pages == {PageOf[v] : v \in Paged}

\* latest is history: no later job that writes the same page was started.
Free == [view |-> "none", stage |-> "free", ok |-> FALSE, latest |-> FALSE]

CenterTypeOK ==
  /\ booted \in BOOLEAN /\ enabled \in [Button -> BOOLEAN]
  /\ job \in [Job -> [view : View \union {"none"}, stage : {"free", "queued", "running", "signalled"},
                      ok : BOOLEAN, latest : BOOLEAN]]
  /\ shown \in [Pages -> {"nothing", "latest", "outdated"}]
  /\ conn \in {"connected", "degraded"} /\ failures \in 0..MaxFailures

CenterInit ==
  /\ booted \in BOOLEAN
  /\ enabled = [b \in Button |-> TRUE]
  /\ job = [j \in Job |-> Free]
  /\ shown = [p \in Pages |-> "nothing"]
  /\ conn = "connected"
  /\ failures = 0

-----------------------------------------------------------------------------
JobsOf(v) == {j \in Job : job[j].view = v}

\* Views v and w write the same page.
SamePage(v, w) == v \in Paged /\ w \in Paged /\ PageOf[v] = PageOf[w]

\* run_job: the pool queues the job.
RunJob(v) ==
  \E j \in Job :
    /\ job[j] = Free
    /\ job' = [i \in Job |->
         IF i = j THEN [view |-> v, stage |-> "queued", ok |-> FALSE, latest |-> v \in Paged]
         ELSE IF SamePage(job[i].view, v) THEN [job[i] EXCEPT !.latest = FALSE] ELSE job[i]]

\* Mutated form: the button is not disabled.
LeftEnabled(v) == enabled

Disabled(v) == [enabled EXCEPT ![v] = FALSE]

\* _ask, _run and _send by their button, _watch by its button; the handlers of
\* the guarded views clear their page first.
Press(v) ==
  /\ enabled[v]
  /\ RunJob(v)
  /\ enabled' = Disabled(v)
  /\ shown' = IF v \in Guarded THEN [shown EXCEPT ![PageOf[v]] = "nothing"] ELSE shown
  /\ UNCHANGED <<booted, conn, failures>>

\* Ctrl+Return calls _send, the palette calls _watch, button or no button.
Bypass(v) ==
  /\ v \in Bypassed
  /\ RunJob(v)
  /\ enabled' = Disabled(v)
  /\ UNCHANGED <<booted, shown, conn, failures>>

\* _load of the skills view; refresh_all by a project change, a saved
\* configuration or the palette's "Refresh backend".
Request(v) ==
  /\ v \in Unguarded
  /\ RunJob(v)
  /\ UNCHANGED <<booted, enabled, shown, conn, failures>>

\* The 8-second timer; it asks whether or not the last overview is back.
Timer == Request("overview")

-----------------------------------------------------------------------------
Busy == {j \in Job : job[j].stage = "running"}

StartJob(j) ==
  /\ job[j].stage = "queued" /\ Cardinality(Busy) < PoolSize
  /\ job' = [job EXCEPT ![j].stage = "running"]
  /\ UNCHANGED <<booted, enabled, shown, conn, failures>>

\* Backend catches what its calls raise, and Job.run what is left: one of the
\* two signals is emitted.  The overview of a backend that never booted fails.
EndJob(j) ==
  /\ job[j].stage = "running"
  /\ \E ok \in BOOLEAN :
       /\ job[j].view = "overview" =>
            IF booted THEN ok \/ failures < MaxFailures ELSE ~ok
       /\ job' = [job EXCEPT ![j].stage = "signalled", ![j].ok = ok]
       /\ failures' = IF job[j].view = "overview" /\ booted /\ ~ok THEN failures + 1 ELSE failures
  /\ UNCHANGED <<booted, enabled, shown, conn>>

\* Mutated form: an overview that is back does not restore the label.
ConnAfterFailure(j) == IF job[j].view = "overview" /\ ~job[j].ok THEN "degraded" ELSE conn

\* _apply_overview looks at what the snapshot says of the boot.
ConnAfter(j) ==
  IF job[j].view # "overview" THEN conn
  ELSE IF ~job[j].ok THEN "degraded"
  ELSE IF booted THEN "connected" ELSE conn

\* The GUI thread gets the signal: _show, on_delegated, _apply_overview,
\* _backend_down; the result replaces what its page showed.
Deliver(j) ==
  /\ job[j].stage = "signalled"
  /\ job' = [job EXCEPT ![j] = Free]
  /\ shown' = IF job[j].view \notin Paged THEN shown
              ELSE [shown EXCEPT ![PageOf[job[j].view]] =
                      IF job[j].latest THEN "latest" ELSE "outdated"]
  /\ enabled' = [b \in Button |-> enabled[b] \/ b = job[j].view]
  /\ conn' = ConnAfter(j)
  /\ UNCHANGED <<booted, failures>>

-----------------------------------------------------------------------------
CenterNext ==
  \/ \E v \in Button : Press(v)
  \/ \E v \in Bypassed : Bypass(v)
  \/ \E v \in Unguarded : Request(v)
  \/ \E j \in Job : StartJob(j) \/ EndJob(j) \/ Deliver(j)

CenterSpec == CenterInit /\ [][CenterNext]_centerVars

\* The pool runs what is queued, every job ends (workers and bridges have
\* timeouts), signals are delivered, and the timer comes round.
CenterFairSpec ==
  /\ CenterSpec
  /\ \A j \in Job : /\ SF_centerVars(StartJob(j))
                    /\ WF_centerVars(EndJob(j)) /\ WF_centerVars(Deliver(j))
  /\ SF_centerVars(Timer)

-----------------------------------------------------------------------------
\* The page of v is written by no other job.
Own(v) == \A w \in Paged : SamePage(v, w) => w = v

\* A guarded button is disabled exactly while one job of its own is under way,
\* never two; so a page that only it writes never shows the answer to an older
\* question.  A bypassed button may come back while another job of its own
\* runs, but is never disabled without one.
ButtonsTellJobs ==
  /\ \A v \in Guarded :
       /\ Cardinality(JobsOf(v)) = IF enabled[v] THEN 0 ELSE 1
       /\ Own(v) => shown[PageOf[v]] # "outdated"
  /\ \A v \in Bypassed : ~enabled[v] => JobsOf(v) # {}

\* Overviews may come back out of order and fail in between, and the label
\* starts as "Connected" whatever happened; in the end it tells whether the
\* backend booted.
StatusSettles == <>[](conn = IF booted THEN "connected" ELSE "degraded")
=============================================================================
