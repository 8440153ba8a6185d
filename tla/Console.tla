-------------------------------- MODULE Console --------------------------------
(***************************************************************************)
(* j5_tui/app.py: the terminal console.  The UI thread handles keys and    *)
(* buttons one at a time; every turn of a chat screen runs in a thread of  *)
(* its own, which walks a chain of models through the one                  *)
(* OpencodeCliAdapter of the process (tools/router/cli_gateway.py) and     *)
(* posts to the UI thread with call_from_thread, which waits for it.  The  *)
(* adapter holds the worker process a Stop kills in a single slot.         *)
(***************************************************************************)
EXTENDS Naturals, Sequences, SequencesExt

CONSTANTS
  Chat,       \* the chat screens the app may open, in the order 1, 2, ...
  Turn,       \* the threads started by _submit
  None,       \* Python's None
  Board, Help, Page,   \* the dashboard, the key map, any screen the dashboard opens
  MaxChain,   \* bound: the candidate models of a turn
  MaxDepth    \* bound: the screens on the stack

ASSUME ConsoleAssumption ==
  /\ Chat \subseteq Nat \ {0} /\ 1 \in Chat
  /\ None \notin Turn
  /\ {Board, Help, Page} \intersect Chat = {}
  /\ MaxChain \in Nat \ {0}

VARIABLES
  screens,   \* the screen stack of the App, the active screen last
  frozen,    \* the UI thread is inside a synchronous handler (probe, benchmark)
  chat,      \* the attributes of each ChatScreen
  turn,      \* the locals of each worker thread
  worker,    \* the opencode process of each thread's latest send
  slot       \* OpencodeCliAdapter._current_proc

vars == <<screens, frozen, chat, turn, worker, slot>>

ProgramPoint == {"new", "loading", "calling", "choosing", "launched", "draining",
                 "answered", "finishing", "ended"}

ConsoleTypeOK ==
  /\ screens \in Seq(Chat \union {Page, Board, Help}) /\ Len(screens) \in 1..MaxDepth
  /\ frozen \in BOOLEAN
  /\ chat \in [Chat -> [open : BOOLEAN, busy : BOOLEAN, turn : Nat, label : Turn \union {None},
                        session : Turn \union {None}, stale : BOOLEAN]]
  /\ turn \in [Turn -> [pc : ProgramPoint, chat : Chat, given : Turn \union {None},
                        left : 0..MaxChain, text : BOOLEAN, result : Turn \union {None},
                        cached : BOOLEAN, reset : BOOLEAN, shared : BOOLEAN]]
  /\ worker \in [Turn -> {"none", "running", "dead"}]
  /\ slot \in Turn \union {None}

-----------------------------------------------------------------------------
Top == Last(screens)
Running(t) == turn[t].pc \notin {"new", "ended"}

\* A session goes by the turn whose worker opened it.  History: a session that
\* a turn from before the last New chat, or a cached answer, handed in since
\* (stale); the answer is a cached one (cached); a New chat of its screen came
\* after its submit (reset); another worker ran beside this one's (shared).
NewScreen(open) ==
  [open |-> open, busy |-> FALSE, turn |-> 0, label |-> None, session |-> None, stale |-> FALSE]

\* on_mount lands on the chat console.
Init ==
  /\ screens = <<1>>
  /\ frozen = FALSE
  /\ chat = [c \in Chat |-> NewScreen(c = 1)]
  /\ turn = [t \in Turn |->
       [pc |-> "new", chat |-> 1, given |-> None, left |-> 0, text |-> FALSE, result |-> None,
        cached |-> FALSE, reset |-> FALSE, shared |-> FALSE]]
  /\ worker = [t \in Turn |-> "none"]
  /\ slot = None

-----------------------------------------------------------------------------
\* The UI thread.
Push(s) == Len(screens) < MaxDepth /\ screens' = Append(screens, s)

\* The handlers of the keys and buttons; the dashboard and the chat screens
\* themselves are never popped.
PushScreen(s) ==
  /\ ~frozen /\ Push(s)
  /\ UNCHANGED <<frozen, chat, turn, worker, slot>>

ShowBoard == Top \in Chat /\ PushScreen(Board)
ShowHelp == Top \in Chat /\ PushScreen(Help)
OpenPage == Top = Board /\ PushScreen(Page)

\* Escape on a page of the dashboard or on the key map.
PopScreen ==
  /\ ~frozen /\ Top \in {Page, Help}
  /\ screens' = Front(screens)
  /\ UNCHANGED <<frozen, chat, turn, worker, slot>>

\* action_chat: a new ChatScreen unless one is on top.
Ask ==
  /\ ~frozen /\ Top \notin Chat
  /\ \E c \in Chat :
       /\ ~chat[c].open /\ \A d \in Chat : d < c => chat[d].open
       /\ Push(c)
       /\ chat' = [chat EXCEPT ![c] = NewScreen(TRUE)]
  /\ UNCHANGED <<frozen, turn, worker, slot>>

\* Run Probe, Run Watcher Once and the benchmarks run inside their handler.
RunInline ==
  /\ ~frozen /\ Top = Page
  /\ frozen' = TRUE
  /\ UNCHANGED <<screens, chat, turn, worker, slot>>

InlineEnds ==
  /\ frozen
  /\ frozen' = FALSE
  /\ UNCHANGED <<screens, chat, turn, worker, slot>>

\* Mutated form: a submit while a turn is running starts a second one.
Always(c) == TRUE

MaySubmit(c) == ~chat[c].busy

\* _submit with a prompt: the transcript gets a new answer label.
Submit(c) ==
  /\ ~frozen /\ Top = c /\ MaySubmit(c)
  /\ \E t \in Turn :
       /\ turn[t].pc = "new"
       /\ turn' = [turn EXCEPT ![t].pc = "loading", ![t].chat = c]
       /\ chat' = [chat EXCEPT ![c].busy = TRUE, ![c].turn = @ + 1, ![c].label = t]
  /\ UNCHANGED <<screens, frozen, worker, slot>>

\* Mutated form: the worker session survives.
Kept(screen) == [screen EXCEPT !.stale = FALSE, !.turn = 0]

Renewed(screen) == [screen EXCEPT !.session = None, !.stale = FALSE, !.turn = 0]

\* _new_chat does not look at busy: a running turn goes on.
NewChat(c) ==
  /\ ~frozen /\ Top = c
  /\ chat' = [chat EXCEPT ![c] = Renewed(@)]
  /\ turn' = [t \in Turn |-> IF turn[t].chat = c /\ turn[t].pc # "new"
                             THEN [turn[t] EXCEPT !.reset = TRUE] ELSE turn[t]]
  /\ UNCHANGED <<screens, frozen, worker, slot>>

\* _stop and terminate_current.
Stop(c) ==
  /\ ~frozen /\ Top = c /\ slot # None
  /\ worker' = [worker EXCEPT ![slot] = "dead"]
  /\ UNCHANGED <<screens, frozen, chat, turn, slot>>

-----------------------------------------------------------------------------
\* The thread of turn t; the actions that post to the UI need it unfrozen.
Goto(t, pc) == turn' = [turn EXCEPT ![t].pc = pc]

\* Mutated form: only a turn that got through unlocks the input.
Unlocked(screen, ok) == IF ok THEN [screen EXCEPT !.busy = FALSE] ELSE screen

\* The finally clause: _set_busy(False), whatever the turn came to.
Freed(screen, ok) == [screen EXCEPT !.busy = FALSE]

\* The configuration is unreadable, the project unknown or its ledger
\* unusable: the turn fails.
LoadFails(t) ==
  /\ turn[t].pc = "loading" /\ ~frozen
  /\ Goto(t, "ended")
  /\ chat' = [chat EXCEPT ![turn[t].chat] = Freed(@, FALSE)]
  /\ UNCHANGED <<screens, frozen, worker, slot>>

\* The contexts, the ledger and the graph of one leaf are built and posted.
Load(t) ==
  /\ turn[t].pc = "loading" /\ ~frozen
  /\ Goto(t, "calling")
  /\ UNCHANGED <<screens, frozen, chat, worker, slot>>

\* orch.run is called with the session_id the screen has now; router_fn goes
\* down its candidates, or answers from the cache with an earlier turn's result,
\* the session in it included.
Call(t) ==
  /\ turn[t].pc = "calling"
  /\ \/ \E n \in 0..MaxChain :
          turn' = [turn EXCEPT ![t].pc = "choosing", ![t].left = n,
                               ![t].given = chat[turn[t].chat].session]
     \/ \E u \in Turn :
          /\ turn[u].pc = "ended" /\ turn[u].text
          /\ turn' = [turn EXCEPT ![t].pc = "answered", ![t].text = TRUE,
                                  ![t].result = turn[u].result, ![t].cached = TRUE,
                                  ![t].given = chat[turn[t].chat].session]
  /\ UNCHANGED <<screens, frozen, chat, worker, slot>>

\* A gate closed for the candidate, or Popen failed: the next one.
Skip(t) ==
  /\ turn[t].pc = "choosing" /\ turn[t].left > 0
  /\ turn' = [turn EXCEPT ![t].left = @ - 1]
  /\ UNCHANGED <<screens, frozen, chat, worker, slot>>

Launch(t) ==
  /\ turn[t].pc = "choosing" /\ turn[t].left > 0
  /\ turn' = [turn EXCEPT ![t].pc = "launched", ![t].left = @ - 1, ![t].shared = FALSE]
  /\ worker' = [worker EXCEPT ![t] = "running"]
  /\ UNCHANGED <<screens, frozen, chat, slot>>

\* _current_proc is set under the lock, whosever process was there.
TakeSlot(t) ==
  /\ turn[t].pc = "launched"
  /\ slot' = t
  /\ turn' = [u \in Turn |->
       IF u = t
       THEN [turn[t] EXCEPT !.pc = "draining",
                            !.shared = \E v \in Turn \ {t} : turn[v].pc = "draining"]
       ELSE IF turn[u].pc = "draining" THEN [turn[u] EXCEPT !.shared = TRUE] ELSE turn[u]]
  /\ UNCHANGED <<screens, frozen, chat, worker>>

\* A text event reaches on_text: _append_chunk writes to the screen's label.
Chunk(t) ==
  /\ turn[t].pc = "draining" /\ worker[t] = "running" /\ ~frozen
  /\ turn' = [turn EXCEPT ![t].text = TRUE]
  /\ UNCHANGED <<screens, frozen, chat, worker, slot>>

WorkerExits(t) ==
  /\ worker[t] = "running"
  /\ worker' = [worker EXCEPT ![t] = "dead"]
  /\ UNCHANGED <<screens, frozen, chat, turn, slot>>

\* The timer of _drain kills a worker that does not end.
Timeout(t) ==
  /\ turn[t].pc = "draining" /\ worker[t] = "running"
  /\ worker' = [worker EXCEPT ![t] = "dead"]
  /\ UNCHANGED <<screens, frozen, chat, turn, slot>>

\* Mutated form: the slot is cleared on the way out of a good send only.
ClearedAfterText(t) == IF turn[t].text THEN None ELSE slot

Cleared(t) == None

\* The worker's output has ended: the slot is cleared, whosever process is in
\* it.  Any text is an answer, with the session the worker told or none;
\* without text the next candidate is tried.
Drained(t) ==
  /\ turn[t].pc = "draining" /\ worker[t] = "dead"
  /\ slot' = Cleared(t)
  /\ IF turn[t].text
     THEN \E s \in {None, IF turn[t].given = None THEN t ELSE turn[t].given} :
            turn' = [turn EXCEPT ![t].pc = "answered", ![t].result = s]
     ELSE Goto(t, "choosing")
  /\ UNCHANGED <<screens, frozen, chat, worker>>

\* No candidate is left: the leaf fails and its node has no session.
Exhausted(t) ==
  /\ turn[t].pc = "choosing" /\ turn[t].left = 0
  /\ Goto(t, "answered")
  /\ UNCHANGED <<screens, frozen, chat, worker, slot>>

\* The node's session, if it has one, becomes the screen's, whoever opened it.
KeepSession(t) ==
  /\ turn[t].pc = "answered"
  /\ Goto(t, "finishing")
  /\ IF turn[t].result = None THEN UNCHANGED chat
     ELSE chat' = [chat EXCEPT ![turn[t].chat].session = turn[t].result,
                               ![turn[t].chat].stale = @ \/ turn[t].reset \/ turn[t].cached]
  /\ UNCHANGED <<screens, frozen, worker, slot>>

\* _finish and _set_busy(False) are posted.
Finish(t) ==
  /\ turn[t].pc = "finishing" /\ ~frozen
  /\ Goto(t, "ended")
  /\ chat' = [chat EXCEPT ![turn[t].chat] = Freed(@, turn[t].text)]
  /\ UNCHANGED <<screens, frozen, worker, slot>>

-----------------------------------------------------------------------------
TurnStep(t) ==
  \/ LoadFails(t) \/ Load(t) \/ Call(t) \/ Skip(t) \/ Launch(t) \/ TakeSlot(t)
  \/ Timeout(t) \/ Drained(t) \/ Exhausted(t) \/ KeepSession(t) \/ Finish(t)

Next ==
  \/ ShowBoard \/ ShowHelp \/ OpenPage \/ PopScreen \/ Ask \/ RunInline \/ InlineEnds
  \/ \E c \in Chat : Submit(c) \/ NewChat(c) \/ Stop(c)
  \/ \E t \in Turn : TurnStep(t) \/ Chunk(t) \/ WorkerExits(t)

Spec == Init /\ [][Next]_vars

\* A worker thread runs when it can, a worker that does not end is killed by
\* its timer, and an inline handler ends (the probe's subprocess has a
\* timeout).  Fairness is strong because a post waits in the event loop's
\* queue and comes up however often the UI thread is busy with something
\* else.  Users, chunks and exits of workers are under no obligation.
FairSpec ==
  /\ Spec
  /\ WF_vars(InlineEnds)
  /\ \A t \in Turn : SF_vars(TurnStep(t))

-----------------------------------------------------------------------------
\* A screen refuses prompts exactly while a turn of its own runs, and that is
\* one turn: its answer goes to its own label, and no path of _run_turn
\* leaves the screen locked.
BusyIsOneTurn ==
  \A c \in Chat :
    LET mine == {t \in Turn : turn[t].chat = c /\ Running(t)} IN
    IF chat[c].busy THEN mine = {chat[c].label} ELSE mine = {}

\* Stop can reach a worker no other worker ran beside, from the moment its
\* process is in the slot; and the slot never names a call that is over, so
\* Stop does not kill a process the adapter is done with.
StopFindsTheWorker ==
  /\ \A t \in Turn : turn[t].pc = "draining" /\ ~turn[t].shared => slot = t
  /\ slot # None => turn[slot].pc = "draining"

\* After a New chat the screen's session is none or one that a turn of this
\* screen, submitted since, has opened with its worker: whatever other screens
\* do and however often New chat is pressed, only a turn that ran across it
\* and a cached answer bring another one in.
NewChatIsNew ==
  \A c \in Chat :
    chat[c].session # None /\ ~chat[c].stale =>
      turn[chat[c].session].chat = c /\ ~turn[chat[c].session].reset

\* "New chat. Worker session reset" (_new_chat): a session the screen has now
\* was opened by a turn of its own submitted since the last New chat.
SessionIsReset ==
  \A c \in Chat :
    chat[c].session # None => turn[chat[c].session].chat = c /\ ~turn[chat[c].session].reset

\* Every turn ends and unlocks its screen, whether the worker answers, fails
\* or hangs, and whatever the user does to the screens meanwhile.
TurnsEnd == \A c \in Chat : chat[c].busy ~> ~chat[c].busy
=============================================================================
