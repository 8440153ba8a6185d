--------------------------- MODULE Surfaces_proofs ---------------------------
(***************************************************************************)
(* The three surfaces for every number of threads, jobs and commands of    *)
(* theirs: the terminal UI, the desktop window and the command line.       *)
(***************************************************************************)
EXTENDS Console, CommandCenter, CommandLine, FiniteSetTheorems, SequenceTheorems,
        TLAPS

-----------------------------------------------------------------------------
Shown == Chat \union {Page, Board, Help}

Screen == [open : BOOLEAN, busy : BOOLEAN, turn : Nat, label : Turn \union {None},
           session : Turn \union {None}, stale : BOOLEAN]

Thread == [pc : ProgramPoint, chat : Chat, given : Turn \union {None},
           left : 0..MaxChain, text : BOOLEAN, result : Turn \union {None},
           cached : BOOLEAN, reset : BOOLEAN, shared : BOOLEAN]

\* What the types say, and that a screen on the stack has been opened.
Base ==
  /\ screens \in Seq(Shown) /\ Len(screens) \in Nat \ {0} /\ screens[1] = 1
  /\ \A i \in 1..Len(screens) : screens[i] \in Chat => chat[screens[i]].open
  /\ chat \in [Chat -> Screen]
  /\ turn \in [Turn -> Thread]
  /\ slot \in Turn \union {None}

LEMMA InitBase == Init => Base
<1> SUFFICES ASSUME Init PROVE Base
  OBVIOUS
<1>1. screens = <<1>> /\ 1 \in Chat
  BY ConsoleAssumption DEF Init
<1>2. screens \in Seq(Shown) /\ Len(screens) = 1 /\ screens[1] = 1
  BY <1>1 DEF Shown
<1>3. \A c \in Chat : NewScreen(c = 1) \in Screen
  BY DEF NewScreen, Screen
<1>4. chat \in [Chat -> Screen] /\ chat[1].open
  BY <1>1, <1>3 DEF Init, NewScreen
<1>5. turn \in [Turn -> Thread]
  BY ConsoleAssumption DEF Init, Thread, ProgramPoint
<1>6. slot \in Turn \union {None}
  BY DEF Init
<1>7. \A i \in 1..Len(screens) : screens[i] = 1
  BY <1>1
<1> QED BY <1>2, <1>4, <1>5, <1>6, <1>7 DEF Base

\* The stack grows by one screen, or loses one that is not the first.
LEMMA PushKeeps ==
  ASSUME Base, NEW s \in Shown, Push(s),
         \A c \in Chat : (c = s \/ chat[c].open) => chat'[c].open
  PROVE  /\ screens' \in Seq(Shown) /\ Len(screens') \in Nat \ {0} /\ screens'[1] = 1
         /\ \A i \in 1..Len(screens') : screens'[i] \in Chat => chat'[screens'[i]].open
<1>1. screens' = Append(screens, s) /\ screens \in Seq(Shown) /\ Len(screens) \in Nat \ {0}
  BY DEF Push, Base
<1>2. /\ screens' \in Seq(Shown) /\ Len(screens') = Len(screens) + 1
      /\ \A i \in 1..Len(screens) : screens'[i] = screens[i]
      /\ screens'[Len(screens) + 1] = s
  BY <1>1
<1>3. \A i \in 1..Len(screens') : i \in 1..Len(screens) \/ i = Len(screens) + 1
  BY <1>1, <1>2
<1> QED BY <1>1, <1>2, <1>3 DEF Base

LEMMA PopKeeps ==
  ASSUME Base, PopScreen
  PROVE  /\ screens' \in Seq(Shown) /\ Len(screens') \in Nat \ {0} /\ screens'[1] = 1
         /\ \A i \in 1..Len(screens') : i \in 1..Len(screens) /\ screens'[i] = screens[i]
<1>1. screens \in Seq(Shown) /\ Len(screens) \in Nat \ {0} /\ screens[1] = 1
  BY DEF Base
<1>2. screens[Len(screens)] \in {Page, Help}
  BY DEF PopScreen, Top, Last
<1>3. Len(screens) > 1
  BY <1>1, <1>2, ConsoleAssumption
<1>4. screens' = SubSeq(screens, 1, Len(screens) - 1)
  BY DEF PopScreen, Front
<1>5. /\ screens' \in Seq(Shown) /\ Len(screens') = Len(screens) - 1
      /\ \A i \in 1..(Len(screens) - 1) : screens'[i] = screens[i]
  BY <1>1, <1>3, <1>4
<1> QED BY <1>1, <1>3, <1>5

\* Changing a field keeps the types of the threads.
LEMMA Fields ==
  ASSUME NEW f \in [Turn -> Thread], NEW t \in Turn
  PROVE  /\ \A p \in ProgramPoint : [f EXCEPT ![t].pc = p] \in [Turn -> Thread]
         /\ \A n \in 0..MaxChain : [f EXCEPT ![t].left = n] \in [Turn -> Thread]
         /\ \A b \in BOOLEAN : /\ [f EXCEPT ![t].text = b] \in [Turn -> Thread]
                               /\ [f EXCEPT ![t].shared = b] \in [Turn -> Thread]
         /\ \A c \in Chat : [f EXCEPT ![t].chat = c] \in [Turn -> Thread]
BY DEF Thread

LEMMA GotoFacts ==
  ASSUME turn \in [Turn -> Thread], NEW t \in Turn, NEW p \in ProgramPoint,
         turn' = [turn EXCEPT ![t].pc = p]
  PROVE  /\ turn' \in [Turn -> Thread] /\ \A u \in Turn \ {t} : turn'[u] = turn[u]
         /\ turn'[t].pc = p /\ turn'[t].chat = turn[t].chat /\ turn'[t].reset = turn[t].reset
         /\ turn'[t].given = turn[t].given /\ turn'[t].result = turn[t].result
         /\ turn'[t].cached = turn[t].cached
<1>1. turn' \in [Turn -> Thread]
  BY Fields
<1>2. turn'[t] = [turn[t] EXCEPT !.pc = p] /\ \A u \in Turn \ {t} : turn'[u] = turn[u]
  OBVIOUS
<1>3. turn[t] \in Thread
  OBVIOUS
<1> QED BY <1>1, <1>2, <1>3 DEF Thread

-----------------------------------------------------------------------------
\* The three properties, made inductive.
BusyAt(c) ==
  /\ chat[c].busy => /\ chat[c].open /\ chat[c].label \in Turn
                     /\ turn[chat[c].label].chat = c /\ Running(chat[c].label)
  /\ \A t \in Turn : turn[t].chat = c /\ Running(t) => chat[c].busy /\ chat[c].label = t

BusyInv == \A c \in Chat : BusyAt(c)

\* A worker that runs alone is the only one there is.
SlotInv ==
  /\ slot # None => turn[slot].pc = "draining"
  /\ \A t \in Turn : turn[t].pc = "draining" /\ ~turn[t].shared =>
       slot = t /\ \A u \in Turn : turn[u].pc = "draining" => u = t

\* Turn u was submitted on screen c since its last New chat.
Since(c, u) == turn[u].pc # "new" /\ turn[u].chat = c /\ ~turn[u].reset

\* What a running turn got from the screen, and what it will hand in.
SessionAt(c) ==
  ~chat[c].stale =>
    /\ chat[c].session # None => Since(c, chat[c].session)
    /\ \A t \in Turn :
         Running(t) /\ turn[t].chat = c /\ ~turn[t].reset /\ ~turn[t].cached =>
           /\ turn[t].given # None => Since(c, turn[t].given)
           /\ turn[t].result # None => Since(c, turn[t].result)

SessionInv ==
  /\ \A c \in Chat : SessionAt(c)
  /\ \A t \in Turn : turn[t].pc = "new" => turn[t].given = None /\ turn[t].result = None

ConsoleInv == Base /\ BusyInv /\ SlotInv /\ SessionInv

LEMMA InitConsole == Init => ConsoleInv
<1> SUFFICES ASSUME Init PROVE ConsoleInv
  OBVIOUS
<1>1. \A t \in Turn : turn[t].pc = "new"
  BY DEF Init
<1>2. \A c \in Chat : ~chat[c].busy /\ chat[c].session = None
  BY DEF Init, NewScreen
<1>3. slot = None /\ \A t \in Turn : turn[t].given = None /\ turn[t].result = None
  BY DEF Init
<1> QED BY <1>1, <1>2, <1>3, InitBase DEF ConsoleInv, BusyInv, BusyAt, SlotInv, SessionInv, SessionAt, Running

\* What a step of turn t may do to its sessions: it takes the screen's, or its
\* result is the session it was given or its own; or the answer is a cached one.
Handed(t) ==
  \/ /\ turn'[t].given = turn[t].given /\ turn'[t].result = turn[t].result
     /\ turn'[t].cached = turn[t].cached
  \/ turn[t].pc # "new" /\ turn'[t].cached
  \/ /\ turn[t].pc # "new" /\ turn'[t].cached = turn[t].cached
     /\ turn'[t].given \in {turn[t].given, chat[turn[t].chat].session}
     /\ turn'[t].result \in {None, turn[t].result, turn[t].given, t}

LEMMA SessionKept ==
  ASSUME ConsoleInv, NEW t \in Turn, UNCHANGED chat, Handed(t),
         \A u \in Turn : /\ turn'[u].chat = turn[u].chat /\ turn'[u].reset = turn[u].reset
                          /\ (Running(u)' <=> Running(u))
                          /\ (turn'[u].pc = "new" <=> turn[u].pc = "new"),
         \A u \in Turn \ {t} : /\ turn'[u].given = turn[u].given
                                /\ turn'[u].result = turn[u].result
                                /\ turn'[u].cached = turn[u].cached
  PROVE  SessionInv'
<1>1. /\ \A c \in Chat : chat[c].session \in Turn \union {None}
      /\ \A u \in Turn : turn[u].given \in Turn \union {None} /\ turn[u].result \in Turn \union {None}
      /\ turn[t].chat \in Chat
  BY DEF ConsoleInv, Base, Screen, Thread
<1>2. \A c \in Chat : \A u \in Turn : Since(c, u)' <=> Since(c, u)
  BY DEF Since
<1>3. ASSUME NEW c \in Chat PROVE SessionAt(c)'
  <2> SUFFICES ASSUME ~chat[c].stale
               PROVE  /\ chat[c].session # None => Since(c, chat[c].session)
                      /\ \A u \in Turn :
                           Running(u) /\ turn[u].chat = c /\ ~turn[u].reset /\ ~turn'[u].cached =>
                             /\ turn'[u].given # None => turn'[u].given \in Turn /\ Since(c, turn'[u].given)
                             /\ turn'[u].result # None => turn'[u].result \in Turn /\ Since(c, turn'[u].result)
    BY <1>1, <1>2 DEF SessionAt
  <2>1. SessionAt(c)
    BY DEF ConsoleInv, SessionInv
  <2>2. chat[c].session # None => Since(c, chat[c].session)
    BY <2>1 DEF SessionAt
  <2>3. ASSUME NEW u \in Turn, Running(u), turn[u].chat = c, ~turn[u].reset, ~turn'[u].cached
        PROVE  /\ turn'[u].given # None => turn'[u].given \in Turn /\ Since(c, turn'[u].given)
               /\ turn'[u].result # None => turn'[u].result \in Turn /\ Since(c, turn'[u].result)
    <3>1. ASSUME ~turn[u].cached
          PROVE  /\ turn[u].given # None => Since(c, turn[u].given)
                 /\ turn[u].result # None => Since(c, turn[u].result)
      BY <2>1, <2>3, <3>1 DEF SessionAt
    <3>2. CASE u # t
      BY <1>1, <2>3, <3>1, <3>2
    <3>3. CASE u = t
      <4>1. Since(c, t)
        BY <2>3, <3>3 DEF Since, Running
      <4>2. ~turn[t].cached
        BY <2>3, <3>3 DEF Handed
      <4>3. /\ turn'[t].given \in {turn[t].given, chat[c].session}
            /\ turn'[t].result \in {None, turn[t].result, turn[t].given, t}
        BY <2>3, <3>3 DEF Handed
      <4> QED BY <1>1, <2>2, <3>1, <3>3, <4>1, <4>2, <4>3
    <3> QED BY <3>2, <3>3
  <2> QED BY <2>2, <2>3
<1>4. \A u \in Turn : turn'[u].pc = "new" => turn'[u].given = None /\ turn'[u].result = None
  BY DEF ConsoleInv, SessionInv, Handed
<1> QED BY <1>3, <1>4 DEF SessionInv

\* A screen that keeps its session, while no turn of it starts with one.
LEMMA SessionStays ==
  ASSUME ConsoleInv, NEW d \in Chat, chat'[d].session = chat[d].session,
         chat'[d].stale = chat[d].stale, \A u \in Turn : Since(d, u) => Since(d, u)',
         \A u \in Turn : Running(u)' /\ turn'[u].chat = d /\ ~turn'[u].reset =>
           \/ turn'[u].given = None /\ turn'[u].result = None
           \/ /\ Running(u) /\ turn[u].chat = d /\ ~turn[u].reset
              /\ turn'[u].given = turn[u].given /\ turn'[u].result = turn[u].result
              /\ turn'[u].cached = turn[u].cached
  PROVE  SessionAt(d)'
<1>1. /\ chat[d].session \in Turn \union {None}
      /\ \A u \in Turn : turn[u].given \in Turn \union {None} /\ turn[u].result \in Turn \union {None}
  BY DEF ConsoleInv, Base, Screen, Thread
<1>2. SessionAt(d)
  BY DEF ConsoleInv, SessionInv
<1>3. \A u \in Turn : Since(d, u) => turn'[u].pc # "new" /\ turn'[u].chat = d /\ ~turn'[u].reset
  BY DEF Since
<1>4. ASSUME ~chat[d].stale
      PROVE  chat[d].session # None => Since(d, chat[d].session)
  BY <1>2, <1>4 DEF SessionAt
<1>5. ASSUME ~chat[d].stale, NEW u \in Turn, Running(u)', turn'[u].chat = d, ~turn'[u].reset,
             ~turn'[u].cached
      PROVE  \A g \in {turn'[u].given, turn'[u].result} :
               g # None => turn'[g].pc # "new" /\ turn'[g].chat = d /\ ~turn'[g].reset
  <2>1. CASE turn'[u].given = None /\ turn'[u].result = None
    BY <2>1
  <2>2. CASE /\ Running(u) /\ turn[u].chat = d /\ ~turn[u].reset
             /\ turn'[u].given = turn[u].given /\ turn'[u].result = turn[u].result
             /\ turn'[u].cached = turn[u].cached
    <3>1. /\ turn[u].given # None => Since(d, turn[u].given)
          /\ turn[u].result # None => Since(d, turn[u].result)
      BY <1>2, <1>5, <2>2 DEF SessionAt
    <3> QED BY <1>1, <1>3, <2>2, <3>1
  <2> QED BY <1>5, <2>1, <2>2
<1>6. ~chat[d].stale /\ chat[d].session # None =>
        LET g == chat[d].session IN turn'[g].pc # "new" /\ turn'[g].chat = d /\ ~turn'[g].reset
  BY <1>1, <1>3, <1>4
<1> QED BY <1>5, <1>6 DEF SessionAt, Since

\* A thread takes a step on its own: it does not begin, end or drain.
LEMMA ThreadMoves ==
  ASSUME ConsoleInv, NEW t \in Turn, turn' \in [Turn -> Thread], UNCHANGED <<screens, chat, slot>>,
         \A u \in Turn \ {t} : turn'[u] = turn[u],
         turn'[t].chat = turn[t].chat, turn'[t].reset = turn[t].reset, Handed(t),
         \/ turn'[t].pc = turn[t].pc /\ turn'[t].shared = turn[t].shared
         \/ /\ {turn[t].pc, turn'[t].pc} \intersect {"new", "ended", "draining"} = {}
  PROVE  ConsoleInv'
<1>1. Base'
  BY DEF ConsoleInv, Base
<1>2. \A u \in Turn : /\ turn'[u].chat = turn[u].chat /\ turn'[u].reset = turn[u].reset
                      /\ Running(u)' = Running(u)
                      /\ (turn'[u].pc = "new") = (turn[u].pc = "new")
                      /\ (turn'[u].pc = "draining") = (turn[u].pc = "draining")
                      /\ turn[u].pc = "draining" => turn'[u].shared = turn[u].shared
  BY DEF Running
<1>3. BusyInv'
  BY <1>2 DEF ConsoleInv, BusyInv, BusyAt
<1>4. SlotInv'
  BY <1>2 DEF ConsoleInv, SlotInv, Base
<1>5. SessionInv'
  BY <1>2, SessionKept
<1> QED BY <1>1, <1>3, <1>4, <1>5 DEF ConsoleInv

\* The UI thread leaves the turns alone.
LEMMA ScreensMove ==
  ASSUME ConsoleInv, Base', UNCHANGED <<turn, chat, slot>>
  PROVE  ConsoleInv'
BY DEF ConsoleInv, BusyInv, BusyAt, SlotInv, SessionInv, SessionAt, Since, Running

LEMMA ScreenSteps ==
  ASSUME ConsoleInv, ShowBoard \/ ShowHelp \/ OpenPage \/ PopScreen \/ RunInline \/ InlineEnds
  PROVE  ConsoleInv'
<1>1. UNCHANGED <<turn, chat, slot>> /\ Base
  BY DEF ConsoleInv, ShowBoard, ShowHelp, OpenPage, PushScreen, PopScreen, RunInline, InlineEnds
<1>2. CASE ShowBoard \/ ShowHelp \/ OpenPage
  <2>1. PICK s \in {Board, Help, Page} : Push(s)
    BY <1>2 DEF ShowBoard, ShowHelp, OpenPage, PushScreen
  <2>2. s \in Shown /\ s \notin Chat
    BY ConsoleAssumption DEF Shown
  <2> QED BY <1>1, <2>1, <2>2, PushKeeps, ScreensMove DEF Base
<1>3. CASE PopScreen
  BY <1>1, <1>3, PopKeeps, ScreensMove DEF Base
<1>4. CASE RunInline \/ InlineEnds
  BY <1>1, <1>4, ScreensMove DEF RunInline, InlineEnds, Base
<1> QED BY <1>2, <1>3, <1>4

LEMMA AskStep == ASSUME ConsoleInv, Ask PROVE ConsoleInv'
<1>1. PICK c \in Chat : ~chat[c].open /\ Push(c) /\ chat' = [chat EXCEPT ![c] = NewScreen(TRUE)]
  BY DEF Ask
<1>2. /\ Base /\ UNCHANGED <<turn, slot>> /\ NewScreen(TRUE) \in Screen
      /\ chat' \in [Chat -> Screen] /\ chat'[c] = NewScreen(TRUE)
      /\ \A d \in Chat \ {c} : chat'[d] = chat[d]
  BY <1>1 DEF ConsoleInv, Base, Ask, NewScreen, Screen
<1>3. chat'[c].open /\ ~chat'[c].busy /\ chat'[c].session = None
  BY <1>2 DEF NewScreen
<1>4. Base'
  BY <1>1, <1>2, <1>3, PushKeeps DEF Base, Shown
<1>5. ~chat[c].busy /\ \A t \in Turn : turn[t].chat = c => ~Running(t)
  BY <1>1 DEF ConsoleInv, BusyInv, BusyAt
<1>6. ASSUME NEW d \in Chat \ {c} PROVE BusyAt(d)' /\ SessionAt(d)'
  BY <1>2 DEF ConsoleInv, BusyInv, SessionInv, BusyAt, SessionAt, Since, Running
<1>7. BusyAt(c)' /\ SessionAt(c)'
  BY <1>2, <1>3, <1>5 DEF BusyAt, SessionAt, Running
<1>8. SlotInv'
  BY <1>2 DEF ConsoleInv, SlotInv
<1>9. SessionInv'
  BY <1>2, <1>6, <1>7 DEF ConsoleInv, SessionInv
<1> QED BY <1>4, <1>6, <1>7, <1>8, <1>9 DEF ConsoleInv, BusyInv

LEMMA SubmitStep == ASSUME ConsoleInv, NEW c \in Chat, Submit(c) PROVE ConsoleInv'
<1>1. PICK t \in Turn :
        /\ turn[t].pc = "new"
        /\ turn' = [turn EXCEPT ![t].pc = "loading", ![t].chat = c]
        /\ chat' = [chat EXCEPT ![c].busy = TRUE, ![c].turn = @ + 1, ![c].label = t]
  BY DEF Submit
<1>2. /\ Base /\ UNCHANGED <<screens, slot>> /\ ~chat[c].busy /\ screens[Len(screens)] = c
  BY DEF ConsoleInv, Submit, MaySubmit, Top, Last
<1>3. turn' \in [Turn -> Thread] /\ turn'[t].pc = "loading" /\ turn'[t].chat = c
      /\ turn'[t].reset = turn[t].reset /\ \A u \in Turn \ {t} : turn'[u] = turn[u]
      /\ turn'[t].given = turn[t].given /\ turn'[t].result = turn[t].result
  <2> DEFINE f == [turn EXCEPT ![t].pc = "loading"]
  <2>1. f \in [Turn -> Thread] /\ f[t].pc = "loading" /\ f[t].reset = turn[t].reset
        /\ f[t].given = turn[t].given /\ f[t].result = turn[t].result
        /\ \A u \in Turn \ {t} : f[u] = turn[u]
    <3>1. turn \in [Turn -> Thread] /\ "loading" \in ProgramPoint
      BY <1>2 DEF Base, ProgramPoint
    <3>2. f[t] = [turn[t] EXCEPT !.pc = "loading"] /\ turn[t] \in Thread
          /\ \A u \in Turn \ {t} : f[u] = turn[u]
      BY <3>1
    <3>3. f[t].pc = "loading" /\ f[t].reset = turn[t].reset
          /\ f[t].given = turn[t].given /\ f[t].result = turn[t].result
      BY <3>2 DEF Thread
    <3> QED BY <3>1, <3>2, <3>3, Fields
  <2>2. turn' = [f EXCEPT ![t].chat = c]
    BY <1>1
  <2> HIDE DEF f
  <2> QED BY <2>1, <2>2, Fields DEF Thread
<1>4. /\ chat' \in [Chat -> Screen] /\ \A d \in Chat \ {c} : chat'[d] = chat[d]
      /\ chat'[c].busy /\ chat'[c].label = t /\ chat'[c].turn # 0 /\ chat'[c].open = chat[c].open
      /\ chat'[c].session = chat[c].session /\ chat'[c].stale = chat[c].stale
  <2>1. chat[c] \in Screen /\ chat \in [Chat -> Screen]
    BY <1>2 DEF Base
  <2> DEFINE g == [chat[c] EXCEPT !.busy = TRUE]
             k == [g EXCEPT !.turn = @ + 1]
             h == [k EXCEPT !.label = t]
  <2>2. g \in Screen /\ g.busy /\ g.turn = chat[c].turn /\ g.open = chat[c].open
        /\ g.session = chat[c].session /\ g.stale = chat[c].stale
    BY <2>1 DEF Screen
  <2> HIDE DEF g
  <2>3. k \in Screen /\ k.busy /\ k.turn # 0 /\ k.open = chat[c].open
        /\ k.session = chat[c].session /\ k.stale = chat[c].stale
    BY <2>2 DEF Screen
  <2> HIDE DEF k
  <2>4. h \in Screen /\ h.busy /\ h.label = t /\ h.turn # 0 /\ h.open = chat[c].open
        /\ h.session = chat[c].session /\ h.stale = chat[c].stale
    BY <2>3 DEF Screen
  <2>5. chat' = [chat EXCEPT ![c] = h]
    BY <1>1, <2>1 DEF g, k, h, Screen
  <2> HIDE DEF h
  <2> QED BY <2>1, <2>4, <2>5
<1>5. chat[c].open
  BY <1>2 DEF Base
<1>6. Base'
  BY <1>2, <1>3, <1>4, <1>5 DEF Base
<1>7. ASSUME NEW d \in Chat \ {c} PROVE BusyAt(d)'
  <2>1. BusyAt(d)
    BY DEF ConsoleInv, BusyInv
  <2> QED BY <1>1, <1>2, <1>3, <1>4, <2>1 DEF BusyAt, Running, Base
<1>8. BusyAt(c)'
  <2>1. \A u \in Turn : turn[u].chat = c => ~Running(u)
    BY <1>2 DEF ConsoleInv, BusyInv, BusyAt
  <2> QED BY <1>3, <1>4, <1>5, <2>1 DEF BusyAt, Running
<1>9. SessionInv'
  <2>1. turn'[t].given = None /\ turn'[t].result = None
    BY <1>1, <1>3 DEF ConsoleInv, SessionInv
  <2>2. \A u \in Turn \ {t} : turn'[u] = turn[u] /\ (Running(u)' <=> Running(u))
    BY <1>3 DEF Running
  <2>3. \A d \in Chat : SessionAt(d)'
    <3> SUFFICES ASSUME NEW d \in Chat PROVE SessionAt(d)'
      OBVIOUS
    <3>1. \A u \in Turn : Since(d, u) => Since(d, u)'
      BY <1>1, <2>2 DEF Since
    <3>2. chat'[d].session = chat[d].session /\ chat'[d].stale = chat[d].stale
      BY <1>4
    <3> QED BY <2>1, <2>2, <3>1, <3>2, SessionStays
  <2>4. \A u \in Turn : turn'[u].pc = "new" => turn'[u].given = None /\ turn'[u].result = None
    BY <2>1, <2>2 DEF ConsoleInv, SessionInv
  <2> QED BY <2>3, <2>4 DEF SessionInv
<1>10. SlotInv'
  BY <1>1, <1>2, <1>3 DEF ConsoleInv, SlotInv, Base
<1> QED BY <1>6, <1>7, <1>8, <1>9, <1>10 DEF ConsoleInv, BusyInv

LEMMA NewChatStep == ASSUME ConsoleInv, NEW c \in Chat, NewChat(c) PROVE ConsoleInv'
<1>1. /\ Base /\ UNCHANGED <<screens, slot>>
      /\ chat' = [chat EXCEPT ![c] = Renewed(chat[c])]
      /\ turn' = [t \in Turn |-> IF turn[t].chat = c /\ turn[t].pc # "new"
                                 THEN [turn[t] EXCEPT !.reset = TRUE] ELSE turn[t]]
  BY DEF ConsoleInv, NewChat
<1>2. \A t \in Turn : turn[t] \in Thread /\ [turn[t] EXCEPT !.reset = TRUE] \in Thread
  BY <1>1 DEF Base, Thread
<1>3. turn' \in [Turn -> Thread]
  BY <1>1, <1>2
<1>4. \A t \in Turn : /\ turn'[t].pc = turn[t].pc /\ turn'[t].chat = turn[t].chat
                      /\ turn'[t].shared = turn[t].shared
                      /\ turn'[t].given = turn[t].given /\ turn'[t].result = turn[t].result
                      /\ turn'[t].cached = turn[t].cached
                      /\ turn[t].chat # c => turn'[t].reset = turn[t].reset
                      /\ turn[t].chat = c /\ Running(t) => turn'[t].reset
  BY <1>1, <1>2 DEF Thread, Running
<1>5. /\ chat' \in [Chat -> Screen] /\ \A d \in Chat \ {c} : chat'[d] = chat[d]
      /\ chat'[c].busy = chat[c].busy /\ chat'[c].open = chat[c].open
      /\ chat'[c].label = chat[c].label /\ chat'[c].session = None
  <2>1. chat[c] \in Screen /\ chat \in [Chat -> Screen]
    BY <1>1 DEF Base
  <2>2. /\ Renewed(chat[c]) \in Screen /\ Renewed(chat[c]).busy = chat[c].busy
        /\ Renewed(chat[c]).open = chat[c].open /\ Renewed(chat[c]).label = chat[c].label
        /\ Renewed(chat[c]).session = None
    BY <2>1 DEF Renewed, Screen
  <2> QED BY <1>1, <2>1, <2>2
<1>6. Base'
  BY <1>1, <1>3, <1>5 DEF Base
<1>7. ASSUME NEW d \in Chat PROVE BusyAt(d)'
  BY <1>4, <1>5 DEF ConsoleInv, BusyInv, BusyAt, Running
<1>8. SessionInv'
  <2>2. SessionAt(c)'
    BY <1>4, <1>5 DEF SessionAt, Running
  <2>3. ASSUME NEW d \in Chat \ {c} PROVE SessionAt(d)'
    <3>1. SessionAt(d) /\ chat'[d] = chat[d]
      BY <1>5 DEF ConsoleInv, SessionInv
    <3>2. \A u \in Turn : /\ Since(d, u) => Since(d, u)'
                          /\ (Running(u)' <=> Running(u))
                          /\ turn[u].chat = d => turn'[u].reset = turn[u].reset
      BY <1>4 DEF Since, Running
    <3> QED BY <1>4, <3>1, <3>2, SessionStays
  <2>4. \A u \in Turn : turn'[u].pc = "new" => turn'[u].given = None /\ turn'[u].result = None
    BY <1>4 DEF ConsoleInv, SessionInv
  <2> QED BY <2>2, <2>3, <2>4 DEF SessionInv
<1>9. SlotInv'
  BY <1>1, <1>4 DEF ConsoleInv, SlotInv, Base
<1> QED BY <1>6, <1>7, <1>8, <1>9 DEF ConsoleInv, BusyInv

-----------------------------------------------------------------------------
\* The end of a turn unlocks its screen, whatever it came to.
LEMMA EndStep ==
  ASSUME ConsoleInv, NEW t \in Turn, LoadFails(t) \/ Finish(t)
  PROVE  ConsoleInv'
<1>1. /\ Base /\ UNCHANGED <<screens, slot>> /\ turn[t].pc \in {"loading", "finishing"}
      /\ turn' = [turn EXCEPT ![t].pc = "ended"]
      /\ chat' = [chat EXCEPT ![turn[t].chat] = [chat[turn[t].chat] EXCEPT !.busy = FALSE]]
  BY DEF ConsoleInv, LoadFails, Finish, Goto, Freed
<1>2. PICK c \in Chat : c = turn[t].chat
  BY <1>1 DEF Base, Thread
<1>3. /\ turn' \in [Turn -> Thread] /\ turn'[t].pc = "ended" /\ turn'[t].chat = c
      /\ turn'[t].reset = turn[t].reset /\ \A u \in Turn \ {t} : turn'[u] = turn[u]
      /\ turn'[t].given = turn[t].given /\ turn'[t].result = turn[t].result
      /\ turn'[t].cached = turn[t].cached
  <2>1. turn \in [Turn -> Thread] /\ "ended" \in ProgramPoint
    BY <1>1 DEF Base, ProgramPoint
  <2> QED BY <1>1, <1>2, <2>1, GotoFacts
<1>4. /\ chat' \in [Chat -> Screen] /\ \A d \in Chat \ {c} : chat'[d] = chat[d]
      /\ ~chat'[c].busy /\ chat'[c].turn = chat[c].turn /\ chat'[c].open = chat[c].open
      /\ chat'[c].session = chat[c].session /\ chat'[c].stale = chat[c].stale
  <2>1. chat[c] \in Screen /\ chat \in [Chat -> Screen]
    BY <1>1 DEF Base
  <2> DEFINE h == [chat[c] EXCEPT !.busy = FALSE]
  <2>2. h \in Screen /\ ~h.busy /\ h.turn = chat[c].turn /\ h.open = chat[c].open
        /\ h.session = chat[c].session /\ h.stale = chat[c].stale
    BY <2>1 DEF Screen
  <2>3. chat' = [chat EXCEPT ![c] = h]
    BY <1>1, <1>2
  <2> HIDE DEF h
  <2> QED BY <2>1, <2>2, <2>3
<1>5. Base'
  BY <1>1, <1>3, <1>4 DEF Base
<1>6. \A u \in Turn : turn[u].chat = c /\ Running(u) => u = t
  BY <1>1, <1>2 DEF ConsoleInv, BusyInv, BusyAt, Running
<1>7. BusyAt(c)'
  BY <1>3, <1>4, <1>6 DEF BusyAt, Running
<1>8. ASSUME NEW d \in Chat \ {c} PROVE BusyAt(d)'
  BY <1>2, <1>3, <1>4 DEF ConsoleInv, BusyInv, BusyAt, Running
<1>9. SessionInv'
  <2>1. \A u \in Turn : /\ turn'[u].chat = turn[u].chat /\ turn'[u].reset = turn[u].reset
                        /\ turn'[u].given = turn[u].given /\ turn'[u].result = turn[u].result
                        /\ turn'[u].cached = turn[u].cached
                        /\ Running(u)' => Running(u)
                        /\ (turn'[u].pc = "new" <=> turn[u].pc = "new")
    BY <1>1, <1>2, <1>3 DEF Running
  <2>2. \A d \in Chat : chat'[d].session = chat[d].session /\ chat'[d].stale = chat[d].stale
    BY <1>4
  <2>3. \A d \in Chat, u \in Turn : Since(d, u) => Since(d, u)'
    BY <2>1 DEF Since
  <2>4. \A d \in Chat : SessionAt(d)'
    BY <2>1, <2>2, <2>3, SessionStays
  <2> QED BY <2>1, <2>4 DEF ConsoleInv, SessionInv
<1>10. SlotInv'
  BY <1>1, <1>3 DEF ConsoleInv, SlotInv, Base
<1> QED BY <1>5, <1>7, <1>8, <1>9, <1>10 DEF ConsoleInv, BusyInv

LEMMA KeepSessionStep ==
  ASSUME ConsoleInv, NEW t \in Turn, KeepSession(t)
  PROVE  ConsoleInv'
<1>1. /\ Base /\ UNCHANGED <<screens, slot>> /\ turn[t].pc = "answered"
      /\ turn' = [turn EXCEPT ![t].pc = "finishing"]
  BY DEF ConsoleInv, KeepSession, Goto
<1>2. /\ turn' \in [Turn -> Thread] /\ turn'[t].pc = "finishing" /\ turn'[t].chat = turn[t].chat
      /\ turn'[t].reset = turn[t].reset /\ \A u \in Turn \ {t} : turn'[u] = turn[u]
      /\ turn'[t].given = turn[t].given /\ turn'[t].result = turn[t].result
      /\ turn'[t].cached = turn[t].cached
  <2>1. turn \in [Turn -> Thread] /\ "finishing" \in ProgramPoint
    BY <1>1 DEF Base, ProgramPoint
  <2> QED BY <1>1, <2>1, GotoFacts
<1>3. CASE UNCHANGED chat
  BY <1>1, <1>2, <1>3, ThreadMoves DEF Handed
<1>4. CASE turn[t].result # None /\ chat' = [chat EXCEPT ![turn[t].chat].session = turn[t].result,
                                ![turn[t].chat].stale = @ \/ turn[t].reset \/ turn[t].cached]
  <2>1. PICK c \in Chat : c = turn[t].chat
    BY <1>1 DEF Base, Thread
  <2>2. /\ chat' \in [Chat -> Screen] /\ \A d \in Chat \ {c} : chat'[d] = chat[d]
        /\ chat'[c].session = turn[t].result
        /\ chat'[c].stale = (chat[c].stale \/ turn[t].reset \/ turn[t].cached) /\ chat'[c].busy = chat[c].busy
        /\ chat'[c].open = chat[c].open /\ chat'[c].label = chat[c].label
    <3>1. chat[c] \in Screen /\ chat \in [Chat -> Screen] /\ turn[t].result \in Turn \union {None}
      BY <1>1 DEF Base, Thread
    <3> DEFINE old == chat[c].stale \/ turn[t].reset \/ turn[t].cached
               g == [chat[c] EXCEPT !.session = turn[t].result]
               h == [g EXCEPT !.stale = old]
    <3>2. old \in BOOLEAN
      OBVIOUS
    <3>3. g \in Screen /\ g.session = turn[t].result /\ g.stale = chat[c].stale
          /\ g.busy = chat[c].busy /\ g.open = chat[c].open /\ g.label = chat[c].label
      BY <3>1 DEF Screen
    <3>4. chat' = [chat EXCEPT ![c] = h]
      BY <1>4, <2>1, <3>1 DEF Screen
    <3> HIDE DEF old, g
    <3>5. h \in Screen /\ h.session = turn[t].result /\ h.stale = old
          /\ h.busy = chat[c].busy /\ h.open = chat[c].open /\ h.label = chat[c].label
      BY <3>2, <3>3 DEF Screen
    <3>6. old = (chat[c].stale \/ turn[t].reset \/ turn[t].cached)
      BY DEF old
    <3> HIDE DEF h
    <3> QED BY <3>1, <3>4, <3>5, <3>6
  <2>3. Base'
    BY <1>1, <1>2, <2>2 DEF Base
  <2>4. ASSUME NEW d \in Chat PROVE BusyAt(d)'
    BY <1>1, <1>2, <2>2 DEF ConsoleInv, BusyInv, BusyAt, Running
  <2>5. \A u \in Turn : /\ turn'[u].chat = turn[u].chat /\ turn'[u].reset = turn[u].reset
                        /\ turn'[u].given = turn[u].given /\ turn'[u].result = turn[u].result
                        /\ turn'[u].cached = turn[u].cached
                        /\ (Running(u)' <=> Running(u))
                        /\ (turn'[u].pc = "new" <=> turn[u].pc = "new")
    BY <1>1, <1>2 DEF Running
  <2>6. SessionInv'
    <3>1. \A d \in Chat, u \in Turn : Since(d, u) <=> Since(d, u)'
      BY <2>5 DEF Since
    <3>2. ASSUME NEW d \in Chat \ {c} PROVE SessionAt(d)'
      BY <2>2, <2>5, <3>1, SessionStays
    <3>3. SessionAt(c)'
      <4> SUFFICES ASSUME ~chat[c].stale, ~turn[t].reset, ~turn[t].cached
                   PROVE  SessionAt(c)'
        BY <2>2 DEF SessionAt
      <4>1. SessionAt(c) /\ Running(t) /\ turn[t].result \in Turn
        BY <1>1, <1>4 DEF ConsoleInv, SessionInv, Running, Base, Thread
      <4>2. Since(c, turn[t].result)
        BY <1>4, <2>1, <4>1 DEF SessionAt
      <4>3. ASSUME NEW u \in Turn, Running(u), turn[u].chat = c, ~turn[u].reset, ~turn[u].cached
            PROVE  /\ turn[u].given # None => Since(c, turn[u].given)
                   /\ turn[u].result # None => Since(c, turn[u].result)
        BY <4>1, <4>3 DEF SessionAt
      <4>4. \A u \in Turn : Since(c, u) => turn'[u].pc # "new" /\ turn'[u].chat = c /\ ~turn'[u].reset
        BY <2>5 DEF Since
      <4>5. \A u \in Turn : turn[u].given \in Turn \union {None} /\ turn[u].result \in Turn \union {None}
        BY <1>1 DEF Base, Thread
      <4>6. turn'[chat'[c].session].pc # "new" /\ turn'[chat'[c].session].chat = c
            /\ ~turn'[chat'[c].session].reset
        BY <2>2, <4>1, <4>2, <4>4
      <4>7. ASSUME NEW u \in Turn, Running(u)', turn'[u].chat = c, ~turn'[u].reset, ~turn'[u].cached
            PROVE  \A g \in {turn'[u].given, turn'[u].result} :
                     g # None => turn'[g].pc # "new" /\ turn'[g].chat = c /\ ~turn'[g].reset
        BY <2>5, <4>3, <4>4, <4>5, <4>7
      <4> QED BY <4>6, <4>7 DEF SessionAt, Since
    <3> QED BY <2>5, <3>2, <3>3 DEF ConsoleInv, SessionInv
  <2>7. SlotInv'
    BY <1>1, <1>2 DEF ConsoleInv, SlotInv, Base
  <2> QED BY <2>3, <2>4, <2>6, <2>7 DEF ConsoleInv, BusyInv
<1> QED BY <1>3, <1>4 DEF KeepSession

-----------------------------------------------------------------------------
\* The locals no invariant speaks of.
Alike(f, g, t) ==
  /\ g \in [Turn -> Thread] /\ \A u \in Turn \ {t} : g[u] = f[u]
  /\ g[t].pc = f[t].pc /\ g[t].chat = f[t].chat /\ g[t].reset = f[t].reset
  /\ g[t].shared = f[t].shared /\ g[t].given = f[t].given /\ g[t].result = f[t].result
  /\ g[t].cached = f[t].cached

LEMMA Locals ==
  ASSUME NEW f \in [Turn -> Thread], NEW t \in Turn
  PROVE  /\ \A n \in 0..MaxChain : Alike(f, [f EXCEPT ![t].left = n], t)
         /\ \A b \in BOOLEAN : Alike(f, [f EXCEPT ![t].text = b], t)
BY DEF Alike, Thread

LEMMA LocalMove ==
  ASSUME ConsoleInv, NEW t \in Turn, Alike(turn, turn', t), UNCHANGED <<screens, chat, slot>>
  PROVE  ConsoleInv'
BY ThreadMoves DEF Alike, Handed

\* From one point of _run_turn to another, with other locals.
LEMMA PcMove ==
  ASSUME ConsoleInv, NEW t \in Turn, NEW f, NEW p \in ProgramPoint, Alike(turn, f, t),
         turn' = [f EXCEPT ![t].pc = p], UNCHANGED <<screens, chat, slot>>,
         {turn[t].pc, p} \intersect {"new", "ended", "draining"} = {}
  PROVE  ConsoleInv'
<1>1. f \in [Turn -> Thread] /\ f[t] \in Thread
  BY DEF Alike
<1>2. turn' \in [Turn -> Thread]
  BY <1>1, Fields
<1>3. turn'[t] = [f[t] EXCEPT !.pc = p] /\ \A u \in Turn \ {t} : turn'[u] = f[u]
  BY <1>1
<1>4. turn'[t].pc = p /\ turn'[t].chat = f[t].chat /\ turn'[t].reset = f[t].reset
      /\ turn'[t].given = f[t].given /\ turn'[t].result = f[t].result /\ turn'[t].cached = f[t].cached
  BY <1>1, <1>3 DEF Thread
<1> QED BY <1>2, <1>3, <1>4, ThreadMoves DEF Alike, Handed

LEMMA QuietSteps ==
  ASSUME ConsoleInv, NEW t \in Turn,
         Load(t) \/ Skip(t) \/ Exhausted(t) \/ Chunk(t) \/ WorkerExits(t) \/ Timeout(t)
  PROVE  ConsoleInv'
<1>1. turn \in [Turn -> Thread] /\ UNCHANGED <<screens, chat, slot>>
  BY DEF ConsoleInv, Base, Load, Skip, Exhausted, Chunk, WorkerExits, Timeout
<1>2. Alike(turn, turn, t)
  BY <1>1 DEF Alike
<1>3. CASE Load(t)
  BY <1>1, <1>2, <1>3, PcMove DEF Load, Goto, ProgramPoint
<1>4. CASE Exhausted(t)
  BY <1>1, <1>2, <1>4, PcMove DEF Exhausted, Goto, ProgramPoint
<1>5. CASE Skip(t)
  <2>1. turn[t].left - 1 \in 0..MaxChain /\ turn' = [turn EXCEPT ![t].left = turn[t].left - 1]
    BY <1>1, <1>5, ConsoleAssumption DEF Skip, Thread
  <2> QED BY <1>1, <2>1, Locals, LocalMove
<1>6. CASE Chunk(t)
  BY <1>1, <1>6, Locals, LocalMove DEF Chunk
<1>7. CASE WorkerExits(t) \/ Timeout(t)
  BY <1>1, <1>2, <1>7, LocalMove DEF WorkerExits, Timeout
<1> QED BY <1>3, <1>4, <1>5, <1>6, <1>7

LEMMA CallStep == ASSUME ConsoleInv, NEW t \in Turn, Call(t) PROVE ConsoleInv'
<1>1. /\ turn \in [Turn -> Thread] /\ UNCHANGED <<screens, chat, slot>> /\ turn[t].pc = "calling"
      /\ chat[turn[t].chat].session \in Turn \union {None}
  BY DEF ConsoleInv, Base, Call, Thread, Screen
<1> DEFINE s == chat[turn[t].chat].session
<1>2. CASE \E n \in 0..MaxChain :
             turn' = [turn EXCEPT ![t].pc = "choosing", ![t].left = n, ![t].given = s]
  <2>1. PICK n \in 0..MaxChain :
          turn' = [turn EXCEPT ![t].pc = "choosing", ![t].left = n, ![t].given = s]
    BY <1>2
  <2> DEFINE f == [turn[t] EXCEPT !.pc = "choosing"]
             g == [f EXCEPT !.left = n]
             h == [g EXCEPT !.given = s]
  <2>2. f \in Thread /\ f.pc = "choosing" /\ f.chat = turn[t].chat /\ f.reset = turn[t].reset
        /\ f.result = turn[t].result /\ f.cached = turn[t].cached
    BY <1>1 DEF Thread, ProgramPoint
  <2>3. turn' = [turn EXCEPT ![t] = h]
    BY <1>1, <2>1 DEF Thread
  <2> HIDE DEF f
  <2>4. g \in Thread /\ g.pc = "choosing" /\ g.chat = turn[t].chat /\ g.reset = turn[t].reset
        /\ g.result = turn[t].result /\ g.cached = turn[t].cached
    BY <2>2 DEF Thread
  <2> HIDE DEF g
  <2>5. h \in Thread /\ h.pc = "choosing" /\ h.chat = turn[t].chat /\ h.reset = turn[t].reset
        /\ h.result = turn[t].result /\ h.cached = turn[t].cached /\ h.given = s
    BY <1>1, <2>4 DEF Thread
  <2> HIDE DEF h
  <2>6. turn' \in [Turn -> Thread] /\ turn'[t] = h /\ \A u \in Turn \ {t} : turn'[u] = turn[u]
    BY <1>1, <2>3, <2>5
  <2> QED BY <1>1, <2>5, <2>6, ThreadMoves DEF Handed
<1>3. CASE \E u \in Turn :
             turn' = [turn EXCEPT ![t].pc = "answered", ![t].text = TRUE,
                                  ![t].result = turn[u].result, ![t].cached = TRUE,
                                  ![t].given = s]
  <2>1. PICK u \in Turn :
          turn' = [turn EXCEPT ![t].pc = "answered", ![t].text = TRUE,
                               ![t].result = turn[u].result, ![t].cached = TRUE,
                               ![t].given = s]
    BY <1>3
  <2> DEFINE f == [turn[t] EXCEPT !.pc = "answered"]
             g == [f EXCEPT !.text = TRUE]
             h == [g EXCEPT !.result = turn[u].result]
             k == [h EXCEPT !.cached = TRUE]
             l == [k EXCEPT !.given = s]
  <2>2. f \in Thread /\ f.pc = "answered" /\ f.chat = turn[t].chat /\ f.reset = turn[t].reset
    BY <1>1 DEF Thread, ProgramPoint
  <2>3. turn' = [turn EXCEPT ![t] = l]
    BY <1>1, <2>1 DEF Thread
  <2>4. turn[u].result \in Turn \union {None}
    BY <1>1 DEF Thread
  <2> HIDE DEF f
  <2>5. g \in Thread /\ g.pc = "answered" /\ g.chat = turn[t].chat /\ g.reset = turn[t].reset
    BY <2>2 DEF Thread
  <2> HIDE DEF g
  <2>6. h \in Thread /\ h.pc = "answered" /\ h.chat = turn[t].chat /\ h.reset = turn[t].reset
    BY <2>4, <2>5 DEF Thread
  <2> HIDE DEF h
  <2>7. k \in Thread /\ k.pc = "answered" /\ k.chat = turn[t].chat /\ k.reset = turn[t].reset
        /\ k.cached
    BY <2>6 DEF Thread
  <2> HIDE DEF k
  <2>8. l \in Thread /\ l.pc = "answered" /\ l.chat = turn[t].chat /\ l.reset = turn[t].reset
        /\ l.cached
    BY <1>1, <2>7 DEF Thread
  <2> HIDE DEF l
  <2>9. turn' \in [Turn -> Thread] /\ turn'[t] = l /\ \A v \in Turn \ {t} : turn'[v] = turn[v]
    BY <1>1, <2>3, <2>8
  <2> QED BY <1>1, <2>8, <2>9, ThreadMoves DEF Handed
<1> QED BY <1>2, <1>3 DEF Call

LEMMA LaunchStep == ASSUME ConsoleInv, NEW t \in Turn, Launch(t) PROVE ConsoleInv'
<1>1. /\ turn \in [Turn -> Thread] /\ UNCHANGED <<screens, chat, slot>> /\ turn[t].pc = "choosing"
      /\ turn[t].left - 1 \in 0..MaxChain
      /\ turn' = [turn EXCEPT ![t].pc = "launched", ![t].left = @ - 1, ![t].shared = FALSE]
  BY ConsoleAssumption DEF ConsoleInv, Base, Launch, Thread
<1> DEFINE f == [turn EXCEPT ![t].left = turn[t].left - 1]
           g == [f EXCEPT ![t].shared = FALSE]
<1>2. f \in [Turn -> Thread] /\ f[t].pc = "choosing" /\ f[t].chat = turn[t].chat
      /\ f[t].reset = turn[t].reset /\ \A u \in Turn \ {t} : f[u] = turn[u]
      /\ f[t].given = turn[t].given /\ f[t].result = turn[t].result /\ f[t].cached = turn[t].cached
  BY <1>1, Locals DEF Alike
<1>3. turn' = [g EXCEPT ![t].pc = "launched"]
  BY <1>1 DEF Thread
<1>4. /\ g \in [Turn -> Thread] /\ g[t].chat = f[t].chat
      /\ g[t].reset = f[t].reset /\ \A u \in Turn \ {t} : g[u] = f[u]
      /\ g[t].given = f[t].given /\ g[t].result = f[t].result /\ g[t].cached = f[t].cached
  <2> HIDE DEF f
  <2>1. g[t] = [f[t] EXCEPT !.shared = FALSE] /\ f[t] \in Thread
        /\ \A u \in Turn \ {t} : g[u] = f[u]
    BY <1>2
  <2>2. g[t].chat = f[t].chat /\ g[t].reset = f[t].reset
        /\ g[t].given = f[t].given /\ g[t].result = f[t].result /\ g[t].cached = f[t].cached
    BY <2>1 DEF Thread
  <2> QED BY <1>2, <2>1, <2>2, Fields
<1> HIDE DEF f, g
<1>5. /\ turn' \in [Turn -> Thread] /\ turn'[t].pc = "launched" /\ turn'[t].chat = g[t].chat
      /\ turn'[t].reset = g[t].reset /\ \A u \in Turn \ {t} : turn'[u] = g[u]
      /\ turn'[t].given = g[t].given /\ turn'[t].result = g[t].result /\ turn'[t].cached = g[t].cached
  <2>1. turn'[t] = [g[t] EXCEPT !.pc = "launched"] /\ g[t] \in Thread
        /\ \A u \in Turn \ {t} : turn'[u] = g[u]
    BY <1>3, <1>4
  <2>2. turn'[t].pc = "launched" /\ turn'[t].chat = g[t].chat /\ turn'[t].reset = g[t].reset
        /\ turn'[t].given = g[t].given /\ turn'[t].result = g[t].result /\ turn'[t].cached = g[t].cached
    BY <2>1 DEF Thread
  <2>3. "launched" \in ProgramPoint
    BY DEF ProgramPoint
  <2> QED BY <1>3, <1>4, <2>1, <2>2, <2>3, Fields
<1> QED BY <1>1, <1>2, <1>4, <1>5, ThreadMoves DEF Handed

-----------------------------------------------------------------------------
\* A worker in the slot; those that drain beside it are no longer alone.
LEMMA TakeSlotStep == ASSUME ConsoleInv, NEW t \in Turn, TakeSlot(t) PROVE ConsoleInv'
<1> DEFINE beside == \E v \in Turn \ {t} : turn[v].pc = "draining"
           Marked(u) ==
             IF u = t THEN [[turn[t] EXCEPT !.pc = "draining"] EXCEPT !.shared = beside]
             ELSE IF turn[u].pc = "draining" THEN [turn[u] EXCEPT !.shared = TRUE] ELSE turn[u]
<1>1. /\ turn \in [Turn -> Thread] /\ UNCHANGED <<screens, chat>> /\ turn[t].pc = "launched"
      /\ slot' = t
      /\ turn' = [u \in Turn |-> Marked(u)]
  BY DEF ConsoleInv, Base, TakeSlot
<1>2. beside \in BOOLEAN
  OBVIOUS
<1>3. ASSUME NEW u \in Turn
      PROVE  /\ Marked(u) \in Thread /\ Marked(u).chat = turn[u].chat /\ Marked(u).reset = turn[u].reset
             /\ Marked(u).given = turn[u].given /\ Marked(u).result = turn[u].result /\ Marked(u).cached = turn[u].cached
             /\ u # t => Marked(u).pc = turn[u].pc /\ (turn[u].pc = "draining" => Marked(u).shared)
             /\ u = t => Marked(u).pc = "draining" /\ Marked(u).shared = beside
  <2>1. turn[u] \in Thread
    BY <1>1
  <2> HIDE DEF beside
  <2> QED BY <1>2, <2>1 DEF Thread, ProgramPoint
<1> HIDE DEF Marked, beside
<1>4. /\ turn' \in [Turn -> Thread]
      /\ \A u \in Turn : turn'[u] = Marked(u)
  BY <1>1, <1>3
<1>5. \A u \in Turn : /\ turn'[u].chat = turn[u].chat /\ turn'[u].reset = turn[u].reset
                      /\ turn'[u].given = turn[u].given /\ turn'[u].result = turn[u].result /\ turn'[u].cached = turn[u].cached
                      /\ u # t => /\ turn'[u].pc = turn[u].pc
                                  /\ turn[u].pc = "draining" => turn'[u].shared
  BY <1>3, <1>4
<1>6. turn'[t].pc = "draining" /\ turn'[t].shared = beside
  BY <1>3, <1>4
<1>7. Base'
  BY <1>1, <1>4 DEF ConsoleInv, Base
<1>8. \A u \in Turn : /\ (Running(u)' <=> Running(u))
                      /\ (turn'[u].pc = "new" <=> turn[u].pc = "new")
  BY <1>1, <1>5, <1>6 DEF Running
<1>9. BusyInv' /\ SessionInv'
  <2>1. BusyInv'
    BY <1>1, <1>5, <1>8 DEF ConsoleInv, BusyInv, BusyAt
  <2> QED BY <1>1, <1>5, <1>8, <2>1, SessionKept DEF Handed
<1>10. SlotInv'
  <2>1. slot' # None => turn'[slot'].pc = "draining"
    BY <1>1, <1>6
  <2>2. ASSUME NEW u \in Turn, turn'[u].pc = "draining", ~turn'[u].shared
        PROVE  slot' = u /\ \A v \in Turn : turn'[v].pc = "draining" => v = u
    <3>1. u = t
      BY <1>5, <2>2
    <3>2. ~beside
      BY <1>6, <2>2, <3>1
    <3>3. \A v \in Turn \ {t} : turn[v].pc # "draining"
      BY <3>2 DEF beside
    <3> QED BY <1>1, <1>5, <3>1, <3>3
  <2> QED BY <2>1, <2>2 DEF SlotInv
<1> QED BY <1>7, <1>9, <1>10 DEF ConsoleInv

\* A worker leaves the slot, its own or another's.
LEMMA DrainedStep == ASSUME ConsoleInv, NEW t \in Turn, Drained(t) PROVE ConsoleInv'
<1>1. /\ turn \in [Turn -> Thread] /\ UNCHANGED <<screens, chat>> /\ turn[t].pc = "draining"
      /\ slot' = None
      /\ \/ \E s \in {None, t, turn[t].given} :
              turn' = [turn EXCEPT ![t].pc = "answered", ![t].result = s]
         \/ turn' = [turn EXCEPT ![t].pc = "choosing"]
  BY DEF ConsoleInv, Base, Drained, Cleared, Goto
<1>2. turn' \in [Turn -> Thread] /\ Handed(t) /\ turn'[t].pc \in {"answered", "choosing"}
      /\ turn'[t].chat = turn[t].chat /\ turn'[t].reset = turn[t].reset
      /\ \A u \in Turn \ {t} : turn'[u] = turn[u]
  <2>1. CASE \E s \in {None, t, turn[t].given} :
               turn' = [turn EXCEPT ![t].pc = "answered", ![t].result = s]
    <3>1. PICK s \in {None, t, turn[t].given} :
            turn' = [turn EXCEPT ![t].pc = "answered", ![t].result = s]
      BY <2>1
    <3> DEFINE f == [turn[t] EXCEPT !.pc = "answered"]
               g == [f EXCEPT !.result = s]
    <3>2. f \in Thread /\ f.pc = "answered" /\ f.chat = turn[t].chat /\ f.reset = turn[t].reset
          /\ f.given = turn[t].given /\ f.cached = turn[t].cached /\ s \in Turn \union {None}
      BY <1>1 DEF Thread, ProgramPoint
    <3>3. turn' = [turn EXCEPT ![t] = g]
      BY <1>1, <3>1 DEF Thread
    <3> HIDE DEF f
    <3>4. g \in Thread /\ g.pc = "answered" /\ g.chat = turn[t].chat /\ g.reset = turn[t].reset
          /\ g.given = turn[t].given /\ g.cached = turn[t].cached /\ g.result = s
      BY <3>2 DEF Thread
    <3> HIDE DEF g
    <3>5. turn' \in [Turn -> Thread] /\ turn'[t] = g /\ \A u \in Turn \ {t} : turn'[u] = turn[u]
      BY <1>1, <3>3, <3>4
    <3> QED BY <1>1, <3>1, <3>4, <3>5 DEF Handed
  <2>2. CASE turn' = [turn EXCEPT ![t].pc = "choosing"]
    BY <1>1, <2>2, GotoFacts DEF Handed, ProgramPoint
  <2> QED BY <1>1, <2>1, <2>2
<1>3. Base'
  BY <1>1, <1>2 DEF ConsoleInv, Base
<1>4. \A u \in Turn : /\ (Running(u)' <=> Running(u))
                      /\ (turn'[u].pc = "new" <=> turn[u].pc = "new")
                      /\ turn'[u].chat = turn[u].chat /\ turn'[u].reset = turn[u].reset
  BY <1>1, <1>2 DEF Running
<1>5. BusyInv'
  BY <1>1, <1>4 DEF ConsoleInv, BusyInv, BusyAt
<1>6. SessionInv'
  BY <1>1, <1>2, <1>4, SessionKept
<1>7. SlotInv'
  BY <1>1, <1>2 DEF ConsoleInv, SlotInv
<1> QED BY <1>3, <1>5, <1>6, <1>7 DEF ConsoleInv

LEMMA NextConsole == ConsoleInv /\ [Next]_vars => ConsoleInv'
<1> SUFFICES ASSUME ConsoleInv, [Next]_vars PROVE ConsoleInv'
  OBVIOUS
<1>1. CASE UNCHANGED vars
  BY <1>1, ScreensMove DEF vars, ConsoleInv, Base
<1>2. ASSUME NEW c \in Chat, Stop(c) PROVE ConsoleInv'
  BY <1>2, ScreensMove DEF Stop, ConsoleInv, Base
<1>3. ASSUME NEW t \in Turn, TurnStep(t) \/ Chunk(t) \/ WorkerExits(t) PROVE ConsoleInv'
  BY <1>3, EndStep, QuietSteps, CallStep, LaunchStep, TakeSlotStep, DrainedStep, KeepSessionStep
  DEF TurnStep
<1> QED BY <1>1, <1>2, <1>3, ScreenSteps, AskStep, SubmitStep, NewChatStep DEF Next

-----------------------------------------------------------------------------
LEMMA ConsoleInvariance == Spec => []ConsoleInv
BY InitConsole, NextConsole, PTL DEF Spec

\* j5_tui/app.py _run_turn: for any number of screens and turns, a screen
\* refuses prompts exactly while one turn of its own runs, the one its answer
\* label belongs to.
THEOREM BusyIsOneTurnAlways == Spec => []BusyIsOneTurn
<1>1. ConsoleInv => BusyIsOneTurn
  BY DEF ConsoleInv, BusyInv, BusyAt, BusyIsOneTurn
<1> QED BY <1>1, ConsoleInvariance, PTL

\* cli_gateway.py send and terminate_current: the process in the slot is one
\* whose output is being read, and is the caller's own when no other runs.
THEOREM StopFindsTheWorkerAlways == Spec => []StopFindsTheWorker
<1>1. ConsoleInv => StopFindsTheWorker
  BY DEF ConsoleInv, SlotInv, StopFindsTheWorker
<1> QED BY <1>1, ConsoleInvariance, PTL

\* j5_tui/app.py _new_chat: however many screens and turns there are, a session
\* of another screen, or from before the last New chat, is never the one the
\* screen goes on with, unless a turn that ran across it or a cached answer has
\* handed it in.
THEOREM NewChatIsNewAlways == Spec => []NewChatIsNew
<1>1. ConsoleInv => NewChatIsNew
  BY DEF ConsoleInv, SessionInv, SessionAt, Since, NewChatIsNew
<1> QED BY <1>1, ConsoleInvariance, PTL
-----------------------------------------------------------------------------
JobRecord ==
  [view : View \union {"none"}, stage : {"free", "queued", "running", "signalled"},
   ok : BOOLEAN, latest : BOOLEAN]

\* What the buttons depend on, of the types.
Windowed ==
  /\ enabled \in [Button -> BOOLEAN]
  /\ job \in [Job -> JobRecord]
  /\ shown \in [Pages -> {"nothing", "latest", "outdated"}]

\* A guarded view has one job while its button is disabled and none while it
\* is enabled; so its job is the latest that writes its page, if no other does.
OneJob ==
  \A v \in Guarded :
    /\ enabled[v] => JobsOf(v) = {}
    /\ ~enabled[v] => \E j \in Job : JobsOf(v) = {j} /\ (Own(v) => job[j].latest)

\* A bypassed button is only ever disabled for a job; a free job is nobody's.
ButtonInv ==
  /\ Windowed
  /\ OneJob
  /\ \A v \in Guarded : Own(v) => shown[PageOf[v]] # "outdated"
  /\ \A v \in Bypassed : ~enabled[v] => JobsOf(v) # {}
  /\ \A j \in Job : job[j].stage = "free" <=> job[j] = Free

LEMMA InitButtons == CenterInit => ButtonInv
BY CenterAssumption
DEF CenterInit, ButtonInv, Windowed, JobRecord, OneJob, JobsOf, Free, Button, View, Paged, Pages

\* What a new job of one view does to the jobs of each view.
LEMMA RunJobAdds ==
  ASSUME ButtonInv, NEW v \in View, RunJob(v)
  PROVE  /\ job' \in [Job -> JobRecord]
         /\ \A u \in View \ {v} :
              /\ JobsOf(u)' = JobsOf(u)
              /\ u \in Guarded /\ Own(u) => \A j \in JobsOf(u) : job'[j] = job[j]
         /\ \E j \in Job : /\ JobsOf(v)' = JobsOf(v) \union {j}
                           /\ job'[j].latest = (v \in Paged)
         /\ \A j \in Job : job'[j].stage = "free" <=> job'[j] = Free
<1>1. PICK j \in Job :
        /\ job[j] = Free
        /\ job' = [i \in Job |->
             IF i = j THEN [view |-> v, stage |-> "queued", ok |-> FALSE, latest |-> v \in Paged]
             ELSE IF SamePage(job[i].view, v) THEN [job[i] EXCEPT !.latest = FALSE] ELSE job[i]]
  BY DEF RunJob
<1>2. job \in [Job -> JobRecord]
  BY DEF ButtonInv, Windowed
<1>3. /\ job'[j] = [view |-> v, stage |-> "queued", ok |-> FALSE, latest |-> v \in Paged]
      /\ \A i \in Job \ {j} : job'[i] = IF SamePage(job[i].view, v) THEN [job[i] EXCEPT !.latest = FALSE]
                                        ELSE job[i]
  BY <1>1
<1>4. v # "none" /\ job[j].view = "none" /\ v \in View /\ "none" \notin View
  BY <1>1, CenterAssumption DEF Free, View
<1>5. \A i \in Job \ {j} : job'[i].view = job[i].view /\ job'[i].stage = job[i].stage
  BY <1>2, <1>3 DEF JobRecord
<1>6. job' \in [Job -> JobRecord]
  <2>1. ASSUME NEW i \in Job
        PROVE  job'[i] \in JobRecord
    <3>1. CASE i = j /\ v \in Paged
      <4>1. job'[i] = [view |-> v, stage |-> "queued", ok |-> FALSE, latest |-> TRUE]
        BY <1>3, <3>1
      <4> QED BY <1>4, <4>1 DEF JobRecord
    <3>2. CASE i = j /\ v \notin Paged
      <4>1. job'[i] = [view |-> v, stage |-> "queued", ok |-> FALSE, latest |-> FALSE]
        <5>1. (v \in Paged) = FALSE
          BY <3>2
        <5>2. job'[i] = [view |-> v, stage |-> "queued", ok |-> FALSE, latest |-> v \in Paged]
          BY <1>3, <3>2
        <5> QED BY <5>1, <5>2, Zenon
      <4> QED BY <1>4, <4>1 DEF JobRecord
    <3>3. CASE i # j /\ SamePage(job[i].view, v)
      <4>1. job'[i] = [job[i] EXCEPT !.latest = FALSE] /\ job[i] \in JobRecord
        BY <1>2, <1>3, <3>3
      <4> QED BY <4>1 DEF JobRecord
    <3>4. CASE i # j /\ ~SamePage(job[i].view, v)
      BY <1>2, <1>3, <3>4
    <3> QED BY <3>1, <3>2, <3>3, <3>4
  <2> QED BY <1>1, <2>1
<1>7. ASSUME NEW u \in View \ {v}
      PROVE  /\ JobsOf(u)' = JobsOf(u)
             /\ u \in Guarded /\ Own(u) => \A i \in JobsOf(u) : job'[i] = job[i]
  <2>1. u # "none" /\ u # v
    BY <1>4
  <2>2. \A i \in Job : (job'[i].view = u <=> job[i].view = u)
    BY <1>3, <1>4, <1>5, <2>1
  <2>3. \A i \in JobsOf(u) : i # j /\ job[i].view = u
    BY <1>4, <2>1 DEF JobsOf
  <2>4. Own(u) => ~SamePage(u, v)
    BY <2>1 DEF Own, SamePage
  <2>5. Own(u) => \A i \in JobsOf(u) : job'[i] = job[i]
    BY <1>3, <2>3, <2>4 DEF JobsOf
  <2> QED BY <2>2, <2>5 DEF JobsOf
<1>8. JobsOf(v)' = JobsOf(v) \union {j} /\ job'[j].latest = (v \in Paged)
  BY <1>3, <1>5 DEF JobsOf
<1>9. ASSUME NEW i \in Job PROVE job'[i].stage = "free" <=> job'[i] = Free
  <2>1. CASE i = j
    BY <1>3, <2>1 DEF Free
  <2>2. CASE i # j /\ SamePage(job[i].view, v)
    <3>1. job[i] # Free /\ job'[i] # Free
      <4>1. job[i].view \in View
        BY <2>2, CenterAssumption DEF SamePage, Paged, View
      <4>2. job'[i].view = job[i].view
        BY <1>5, <2>2
      <4>3. Free.view \notin View
        BY <1>4 DEF Free
      <4> QED BY <4>1, <4>2, <4>3
    <3>2. job[i].stage # "free" /\ job'[i].stage = job[i].stage
      BY <1>5, <2>2, <3>1 DEF ButtonInv
    <3> QED BY <3>1, <3>2
  <2>3. CASE i # j /\ ~SamePage(job[i].view, v)
    BY <1>3, <2>3 DEF ButtonInv
  <2> QED BY <2>1, <2>2, <2>3
<1> QED BY <1>6, <1>7, <1>8, <1>9

\* A button disables itself with its job, whether or not it was asked.
LEMMA PressButtons ==
  ASSUME ButtonInv, NEW v \in Button, Press(v) \/ Bypass(v)
  PROVE  ButtonInv'
<1>1. /\ v \in View /\ RunJob(v) /\ enabled' = [enabled EXCEPT ![v] = FALSE]
      /\ v \in Guarded => enabled[v]
      /\ \A p \in Pages : shown'[p] \in {"nothing", shown[p]}
      /\ shown' \in [Pages -> {"nothing", "latest", "outdated"}]
  BY CenterAssumption DEF Press, Bypass, Disabled, Button, View, ButtonInv, Windowed
<1>2. /\ enabled'[v] = FALSE /\ \A b \in Button \ {v} : enabled'[b] = enabled[b]
      /\ enabled' \in [Button -> BOOLEAN]
  BY <1>1 DEF ButtonInv, Windowed
<1>3. PICK j \in Job : JobsOf(v)' = JobsOf(v) \union {j} /\ job'[j].latest = (v \in Paged)
  BY <1>1, RunJobAdds
<1>4. \A u \in View \ {v} :
        /\ JobsOf(u)' = JobsOf(u)
        /\ u \in Guarded /\ Own(u) => \A i \in JobsOf(u) : job'[i] = job[i]
  BY <1>1, RunJobAdds
<1>5. OneJob'
  <2> SUFFICES ASSUME NEW u \in Guarded
               PROVE  /\ enabled'[u] => JobsOf(u)' = {}
                      /\ ~enabled'[u] => \E i \in Job : JobsOf(u)' = {i} /\ (Own(u) => job'[i].latest)
    BY DEF OneJob, Own, SamePage
  <2>1. CASE u = v
    BY <1>1, <1>2, <1>3, <2>1, CenterAssumption DEF ButtonInv, OneJob, Paged
  <2>2. CASE u # v
    <3>1. u \in View \ {v} /\ enabled'[u] = enabled[u]
      BY <1>2, <2>2 DEF View, Button
    <3> QED BY <1>4, <3>1 DEF ButtonInv, OneJob
  <2> QED BY <2>1, <2>2
<1>6. \A b \in Bypassed : ~enabled'[b] => JobsOf(b)' # {}
  BY <1>2, <1>3, <1>4 DEF ButtonInv, Button, View
<1>7. \A g \in Guarded : Own(g) => shown'[PageOf[g]] # "outdated"
  BY <1>1, CenterAssumption DEF ButtonInv, Paged, Pages
<1> QED BY <1>1, <1>2, <1>5, <1>6, <1>7, RunJobAdds DEF ButtonInv, Windowed, Own, SamePage

LEMMA RequestButtons ==
  ASSUME ButtonInv, NEW v \in Unguarded, Request(v)
  PROVE  ButtonInv'
<1>1. v \in View /\ RunJob(v) /\ enabled' = enabled /\ shown' = shown /\ v \notin Button
  BY CenterAssumption DEF Request, View, Button
<1>2. \A u \in Button :
        /\ JobsOf(u)' = JobsOf(u)
        /\ u \in Guarded /\ Own(u) => \A i \in JobsOf(u) : job'[i] = job[i]
  BY <1>1, RunJobAdds DEF View, Button
<1>3. OneJob'
  BY <1>1, <1>2 DEF OneJob, ButtonInv, Button, Own, SamePage
<1> QED BY <1>1, <1>2, <1>3, RunJobAdds DEF ButtonInv, Windowed, Button, Own, SamePage

\* The pool's steps leave every job with its view.
LEMMA PoolButtons ==
  ASSUME ButtonInv, NEW j \in Job, StartJob(j) \/ EndJob(j)
  PROVE  ButtonInv'
<1>1. /\ enabled' = enabled /\ shown' = shown /\ job[j].stage # "free"
      /\ \E s \in {"running", "signalled"}, ok \in BOOLEAN :
           job' = [job EXCEPT ![j].stage = s, ![j].ok = ok]
  <2>1. CASE StartJob(j)
    <3>1. job' = [job EXCEPT ![j].stage = "running", ![j].ok = job[j].ok] /\ job[j].ok \in BOOLEAN
      BY <2>1 DEF StartJob, ButtonInv, Windowed, JobRecord
    <3> QED BY <2>1, <3>1 DEF StartJob
  <2>2. CASE EndJob(j)
    BY <2>2 DEF EndJob
  <2> QED BY <2>1, <2>2
<1>2. PICK s \in {"running", "signalled"}, ok \in BOOLEAN :
        job' = [job EXCEPT ![j].stage = s, ![j].ok = ok]
  BY <1>1
<1>3. /\ \A i \in Job : job'[i].view = job[i].view /\ job'[i].latest = job[i].latest
      /\ \A i \in Job \ {j} : job'[i] = job[i]
      /\ job'[j].stage = s
      /\ job' \in [Job -> JobRecord]
  <2>1. /\ job \in [Job -> JobRecord] /\ job[j] \in JobRecord
        /\ s \in {"free", "queued", "running", "signalled"}
    BY DEF ButtonInv, Windowed
  <2>2. /\ DOMAIN job' = Job /\ \A i \in Job \ {j} : job'[i] = job[i]
        /\ job'[j] = [job[j] EXCEPT !.stage = s, !.ok = ok]
    BY <1>2, <2>1
  <2>3. job'[j] \in JobRecord
    BY <2>1, <2>2 DEF JobRecord
  <2>4. job'[j].view = job[j].view /\ job'[j].latest = job[j].latest /\ job'[j].stage = s
    BY <2>1, <2>2 DEF JobRecord
  <2>5. job' \in [Job -> JobRecord]
    BY <1>2, <2>1, <2>2, <2>3
  <2> QED BY <2>2, <2>4, <2>5
<1>4. \A v : JobsOf(v)' = JobsOf(v)
  BY <1>3 DEF JobsOf
<1>5. OneJob'
  BY <1>1, <1>3, <1>4 DEF OneJob, ButtonInv, Own, SamePage
<1>6. \A i \in Job : job'[i].stage = "free" <=> job'[i] = Free
  BY <1>3 DEF ButtonInv, Free
<1> QED BY <1>1, <1>3, <1>4, <1>5, <1>6 DEF ButtonInv, Windowed, Own, SamePage

\* The signal of a guarded view's only job frees its button and, on a page of
\* its own, shows the answer to the latest question.
LEMMA DeliverButtons ==
  ASSUME ButtonInv, NEW j \in Job, Deliver(j)
  PROVE  ButtonInv'
<1> DEFINE v == job[j].view
<1>1. /\ job' = [job EXCEPT ![j] = Free] /\ job[j].stage = "signalled"
      /\ shown' = IF v \notin Paged THEN shown
                  ELSE [shown EXCEPT ![PageOf[v]] = IF job[j].latest THEN "latest" ELSE "outdated"]
      /\ enabled' = [b \in Button |-> enabled[b] \/ b = v]
  BY DEF Deliver
<1>2. /\ \A i \in Job \ {j} : job'[i] = job[i]
      /\ job'[j] = Free /\ Free.view = "none"
      /\ job' \in [Job -> JobRecord]
  BY <1>1 DEF ButtonInv, Windowed, Free, JobRecord
<1>3. \A u \in View : JobsOf(u)' = JobsOf(u) \ {j} /\ (j \in JobsOf(u) <=> u = v)
  BY <1>2, CenterAssumption DEF JobsOf, View
<1>4. v \in Guarded => (Own(v) => job[j].latest) /\ JobsOf(v) = {j}
  BY <1>3 DEF ButtonInv, OneJob, View
<1>5. enabled' \in [Button -> BOOLEAN] /\ \A b \in Button : enabled'[b] <=> enabled[b] \/ b = v
  BY <1>1 DEF ButtonInv, Windowed
<1>6. OneJob'
  <2> SUFFICES ASSUME NEW u \in Guarded
               PROVE  /\ enabled'[u] => JobsOf(u)' = {}
                      /\ ~enabled'[u] => \E i \in Job : JobsOf(u)' = {i} /\ (Own(u) => job'[i].latest)
    BY DEF OneJob, Own, SamePage
  <2>1. u \in View /\ u \in Button
    BY DEF View, Button
  <2>2. CASE u = v
    BY <1>3, <1>4, <1>5, <2>1, <2>2
  <2>3. CASE u # v
    <3>1. JobsOf(u)' = JobsOf(u) /\ j \notin JobsOf(u) /\ (enabled'[u] <=> enabled[u])
      BY <1>3, <1>5, <2>1, <2>3
    <3> QED BY <1>2, <3>1 DEF ButtonInv, OneJob
  <2> QED BY <2>2, <2>3
<1>7. \A b \in Bypassed : ~enabled'[b] => JobsOf(b)' # {}
  BY <1>3, <1>5 DEF ButtonInv, Button, View
<1>8. /\ shown' \in [Pages -> {"nothing", "latest", "outdated"}]
      /\ \A g \in Guarded : Own(g) => shown'[PageOf[g]] # "outdated"
  <2>1. shown \in [Pages -> {"nothing", "latest", "outdated"}]
    BY DEF ButtonInv, Windowed
  <2>2. \A w \in Paged : PageOf[w] \in Pages
    BY DEF Pages
  <2>3. shown' \in [Pages -> {"nothing", "latest", "outdated"}]
    BY <1>1, <2>1, <2>2
  <2>4. ASSUME NEW g \in Guarded, Own(g) PROVE shown'[PageOf[g]] # "outdated"
    <3>1. g \in Paged /\ shown[PageOf[g]] # "outdated"
      BY <2>4, CenterAssumption DEF ButtonInv, Paged
    <3>2. CASE v \in Paged /\ PageOf[v] = PageOf[g]
      <4>1. v = g
        BY <2>4, <3>1, <3>2 DEF Own, SamePage
      <4> QED BY <1>1, <1>4, <2>1, <2>2, <2>4, <3>1, <4>1
    <3>3. CASE v \notin Paged \/ PageOf[v] # PageOf[g]
      BY <1>1, <2>1, <2>2, <3>1, <3>3
    <3> QED BY <3>2, <3>3
  <2> QED BY <2>3, <2>4
<1>9. \A i \in Job : job'[i].stage = "free" <=> job'[i] = Free
  BY <1>2 DEF ButtonInv, Free
<1> QED BY <1>2, <1>5, <1>6, <1>7, <1>8, <1>9 DEF ButtonInv, Windowed, Own, SamePage

LEMMA NextButtons == ButtonInv /\ [CenterNext]_centerVars => ButtonInv'
<1> SUFFICES ASSUME ButtonInv, [CenterNext]_centerVars PROVE ButtonInv'
  OBVIOUS
<1>1. CASE UNCHANGED centerVars
  BY <1>1 DEF centerVars, ButtonInv, Windowed, OneJob, JobsOf, Own, SamePage
<1>2. \A v \in Bypassed : v \in Button
  BY DEF Button
<1> QED BY <1>1, <1>2, PressButtons, RequestButtons, PoolButtons, DeliverButtons DEF CenterNext

\* modern_app.py run_job and the done signals: however the jobs of all views
\* interleave on the pool, a guarded button tells whether its view has a job,
\* and a page no other job writes shows the answer to the latest question.
THEOREM ButtonsTellJobsAlways == CenterSpec => []ButtonsTellJobs
<1>1. ButtonInv => ButtonsTellJobs
  <2> SUFFICES ASSUME ButtonInv, NEW v \in Guarded
               PROVE  Cardinality(JobsOf(v)) = IF enabled[v] THEN 0 ELSE 1
    BY DEF ButtonInv, ButtonsTellJobs
  <2> QED BY FS_EmptySet, FS_Singleton DEF ButtonInv, OneJob
<1> QED BY <1>1, InitButtons, NextButtons, PTL DEF CenterSpec
-----------------------------------------------------------------------------
\* The readonly boundary.
Arguments == [pc : {"idle", "gate", "command", "banner", "dispatch", "ended"},
              command : Command \union {"none"}, json : BOOLEAN, readonly : BOOLEAN,
              exit : Nat]

BoundaryInv ==
  /\ proc \in [Process -> Arguments]
  /\ touched \in [Process -> SUBSET Effect]
  /\ \A p \in Process :
       /\ touched[p] \subseteq Capabilities(Effective(p))
       /\ proc[p].pc \in {"idle", "gate"} => touched[p] = {}
       /\ proc[p].readonly /\ proc[p].pc \in {"command", "banner", "dispatch"} =>
            Capabilities(Effective(p)) = {}
       /\ proc[p].readonly => touched[p] = {}

\* What a process does once its command has begun: it moves on, and touches
\* what its row says.
CommandStep(p, effects) ==
  /\ proc[p].pc \in {"command", "banner", "dispatch"}
  /\ \E pc \in {"command", "banner", "dispatch", "ended"}, exit \in Nat :
       proc' = [proc EXCEPT ![p].pc = pc, ![p].exit = exit]
  /\ touched' = [touched EXCEPT ![p] = @ \union effects]

LEMMA CapabilitiesAreEffects == ASSUME NEW command  PROVE Capabilities(command) \subseteq Effect
  <1>1. CASE command \in {"run", "probe", "tui"}  BY <1>1 DEF Capabilities
  <1>2. CASE command = "watch"  BY <1>2 DEF Capabilities, Effect
  <1>3. CASE command \notin {"run", "probe", "tui", "watch"}  BY <1>3 DEF Capabilities
  <1> QED  BY <1>1, <1>2, <1>3

LEMMA CommandStepKeeps ==
  ASSUME BoundaryInv, NEW p \in Process, NEW effects,
         effects \subseteq Capabilities(Effective(p)), CommandStep(p, effects)
  PROVE  BoundaryInv'
  <1>1. PICK pc \in {"command", "banner", "dispatch", "ended"}, exit \in Nat :
          proc' = [proc EXCEPT ![p].pc = pc, ![p].exit = exit]
    BY DEF CommandStep
  <1>2. proc' \in [Process -> Arguments]
    <2>1. [proc EXCEPT ![p].pc = pc] \in [Process -> Arguments]  BY DEF BoundaryInv, Arguments
    <2>2. \A f \in [Process -> Arguments] : [f EXCEPT ![p].exit = exit] \in [Process -> Arguments]
      BY DEF Arguments
    <2>3. proc' = [[proc EXCEPT ![p].pc = pc] EXCEPT ![p].exit = exit]  BY <1>1
    <2> QED  BY <2>1, <2>2, <2>3
  <1>3. effects \subseteq Effect  BY CapabilitiesAreEffects
  <1>4. touched' \in [Process -> SUBSET Effect]  BY <1>3 DEF BoundaryInv, CommandStep
  <1>5. /\ proc'[p].command = proc[p].command /\ proc'[p].readonly = proc[p].readonly
        /\ proc'[p].pc = pc
        /\ \A q \in Process \ {p} : proc'[q] = proc[q] /\ touched'[q] = touched[q]
        /\ touched'[p] = touched[p] \union effects
    BY <1>1 DEF BoundaryInv, Arguments, CommandStep
  <1>6. \A q \in Process : Effective(q)' = Effective(q)  BY <1>5 DEF Effective
  <1>7. ASSUME NEW q \in Process
        PROVE  /\ touched'[q] \subseteq Capabilities(Effective(q))
               /\ proc'[q].pc \in {"idle", "gate"} => touched'[q] = {}
               /\ proc'[q].readonly /\ proc'[q].pc \in {"command", "banner", "dispatch"} =>
                    Capabilities(Effective(q)) = {}
               /\ proc'[q].readonly => touched'[q] = {}
    <2>1. CASE q # p  BY <1>5, <2>1 DEF BoundaryInv
    <2>2. CASE q = p  BY <1>5, <2>2 DEF BoundaryInv, CommandStep
    <2> QED  BY <2>1, <2>2
  <1>8. \A q \in Process : Capabilities(Effective(q))' = Capabilities(Effective(q))
    BY <1>6 DEF Capabilities
  <1> QED  BY <1>2, <1>4, <1>6, <1>7, <1>8 DEF BoundaryInv

\* Every action of a running command is such a step.
LEMMA ActionsAreCommandSteps ==
  ASSUME BoundaryInv, NEW p \in Process,
         \/ Show(p) \/ Diagnose(p) \/ Sessions(p) \/ Watch(p)
         \/ OpenUI(p) \/ NextTurn(p) \/ Probe(p) \/ ProbeEnds(p) \/ Prepare(p) \/ Banner(p)
         \/ Report(p) \/ Record(p) \/ RecordFails(p) \/ Interrupt(p)
  PROVE  \E effects : effects \subseteq Capabilities(Effective(p)) /\ CommandStep(p, effects)
  <1>1. proc[p] \in Arguments /\ proc = [proc EXCEPT ![p] = proc[p]] /\ proc[p].exit \in Nat
        /\ touched = [touched EXCEPT ![p] = touched[p] \union {}]
    BY DEF BoundaryInv, Arguments
  <1>2. \A code \in Nat : Exit(p, code) =>
          \E pc \in {"command", "banner", "dispatch", "ended"}, exit \in Nat :
            proc' = [proc EXCEPT ![p].pc = pc, ![p].exit = exit]
    BY DEF Exit
  <1>3. \A pc \in {"command", "banner", "dispatch"} : MoveTo(p, pc) =>
          \E qc \in {"command", "banner", "dispatch", "ended"}, exit \in Nat :
            proc' = [proc EXCEPT ![p].pc = qc, ![p].exit = exit]
    <2> TAKE pc \in {"command", "banner", "dispatch"}
    <2>1. [proc EXCEPT ![p].pc = pc] = [proc EXCEPT ![p].pc = pc, ![p].exit = proc[p].exit]
      BY <1>1 DEF BoundaryInv, Arguments
    <2> QED  BY <1>1, <2>1 DEF MoveTo
  <1>4. proc[p].pc \in {"command", "banner", "dispatch"} /\ UNCHANGED proc =>
          \E pc \in {"command", "banner", "dispatch", "ended"}, exit \in Nat :
            proc' = [proc EXCEPT ![p].pc = pc, ![p].exit = exit]
    <2>1. proc = [proc EXCEPT ![p].pc = proc[p].pc, ![p].exit = proc[p].exit]
      BY <1>1 DEF BoundaryInv, Arguments
    <2> QED  BY <1>1, <2>1
  <1> DEFINE Moves == /\ proc[p].pc \in {"command", "banner", "dispatch"}
                      /\ \E pc \in {"command", "banner", "dispatch", "ended"}, exit \in Nat :
                           proc' = [proc EXCEPT ![p].pc = pc, ![p].exit = exit]
  <1>5. CASE Show(p) \/ Diagnose(p) \/ Sessions(p) \/ ProbeEnds(p) \/ Report(p)
             \/ Record(p) \/ RecordFails(p) \/ Interrupt(p) \/ NextTurn(p)
    <2>1. touched' = touched
      BY <1>5 DEF Show, Diagnose, Sessions, ProbeEnds, Report, Record, RecordFails, Interrupt,
                  NextTurn
    <2>2. proc[p].pc \in {"command", "banner", "dispatch"}
      BY <1>5 DEF Show, Diagnose, Sessions, ProbeEnds, Report, Record, RecordFails, Interrupt,
                  NextTurn, At
    <2>3. UNCHANGED proc \/ \E code \in Nat : Exit(p, code)
      BY <1>5 DEF Show, Diagnose, Sessions, ProbeEnds, Report, Record, RecordFails, Interrupt,
                  NextTurn, Traceback
    <2>4. Moves  BY <1>2, <1>4, <2>2, <2>3
    <2> QED  BY <1>1, <2>1, <2>4 DEF CommandStep
  <1>6. CASE Watch(p) \/ OpenUI(p) \/ Probe(p) \/ Prepare(p) \/ Banner(p)
    <2>1. PICK effects \in SUBSET Effect :
            /\ effects \subseteq Capabilities(Effective(p))
            /\ touched' = [touched EXCEPT ![p] = @ \union effects]
      BY <1>1, <1>6
         DEF Watch, OpenUI, Probe, Prepare, Banner, Touch, At, Capabilities, Effect
    <2>2. Moves
      <3>1. proc[p].pc \in {"command", "banner", "dispatch"}
        BY <1>6 DEF Watch, OpenUI, Probe, Prepare, Banner, At
      <3>2. \/ \E code \in Nat : Exit(p, code)
            \/ MoveTo(p, "dispatch") \/ MoveTo(p, "banner")
        BY <1>6 DEF Watch, OpenUI, Probe, Prepare, Banner, Traceback
      <3> QED  BY <1>2, <1>3, <3>1, <3>2
    <2> QED  BY <2>1, <2>2 DEF CommandStep
  <1> QED  BY <1>5, <1>6

LEMMA StartKeeps == ASSUME BoundaryInv, NEW p \in Process, Start(p)  PROVE  BoundaryInv'
  <1>1. PICK command \in Command \union {"none"}, json \in BOOLEAN, readonly \in BOOLEAN :
          proc' = [proc EXCEPT ![p] = [pc |-> "gate", command |-> command, json |-> json,
                                       readonly |-> readonly, exit |-> 0]]
    BY DEF Start
  <1>2. touched' = touched /\ touched[p] = {}  BY DEF Start, BoundaryInv
  <1>3. proc' \in [Process -> Arguments]  BY <1>1 DEF BoundaryInv, Arguments
  <1>4. proc'[p].pc = "gate" /\ \A q \in Process \ {p} : proc'[q] = proc[q]
    BY <1>1 DEF BoundaryInv
  <1>5. \A q \in Process \ {p} : Effective(q)' = Effective(q)  BY <1>4 DEF Effective
  <1>6. \A q \in Process \ {p} : Capabilities(Effective(q))' = Capabilities(Effective(q))
    BY <1>5 DEF Capabilities
  <1> QED  BY <1>2, <1>3, <1>4, <1>5, <1>6 DEF BoundaryInv

\* The gate lets a readonly process through only where nothing triggers it.
LEMMA GateKeeps == ASSUME BoundaryInv, NEW p \in Process, Gate(p)  PROVE  BoundaryInv'
  <1>1. touched' = touched /\ touched[p] = {} /\ proc[p].pc = "gate"
    BY DEF Gate, BoundaryInv
  <1>2. \/ proc' = [proc EXCEPT ![p].pc = "ended", ![p].exit = 2]
        \/ /\ proc' = [proc EXCEPT ![p].pc = "command"]
           /\ proc[p].readonly => Capabilities(Effective(p)) = {}
    BY DEF Gate, Exit, MoveTo, Triggered
  <1>3. proc' \in [Process -> Arguments]  BY <1>2 DEF BoundaryInv, Arguments
  <1>4. /\ proc'[p].command = proc[p].command /\ proc'[p].readonly = proc[p].readonly
        /\ \A q \in Process \ {p} : proc'[q] = proc[q]
        /\ proc'[p].pc \in {"ended", "command"}
        /\ proc'[p].pc = "command" /\ proc[p].readonly => Capabilities(Effective(p)) = {}
    BY <1>2 DEF BoundaryInv, Arguments
  <1>5. \A q \in Process : Effective(q)' = Effective(q)  BY <1>4 DEF Effective
  <1>6. \A q \in Process : Capabilities(Effective(q))' = Capabilities(Effective(q))
    BY <1>5 DEF Capabilities
  <1> QED  BY <1>1, <1>3, <1>4, <1>5, <1>6 DEF BoundaryInv

LEMMA InitBoundary == CliInit => BoundaryInv
  BY DEF CliInit, BoundaryInv, Arguments

LEMMA NextBoundary == BoundaryInv /\ [CliNext]_cliVars => BoundaryInv'
  <1> SUFFICES ASSUME BoundaryInv, [CliNext]_cliVars  PROVE  BoundaryInv'
    OBVIOUS
  <1>1. CASE UNCHANGED cliVars
    BY <1>1 DEF cliVars, BoundaryInv, Effective, Capabilities
  <1>2. ASSUME NEW p \in Process,
               \/ Start(p) \/ Gate(p) \/ Show(p) \/ Diagnose(p) \/ Sessions(p) \/ Watch(p)
               \/ OpenUI(p) \/ NextTurn(p) \/ Probe(p) \/ ProbeEnds(p) \/ Prepare(p) \/ Banner(p)
               \/ Report(p) \/ Record(p) \/ RecordFails(p) \/ Interrupt(p)
        PROVE  BoundaryInv'
    <2>1. CASE Start(p)  BY <2>1, StartKeeps
    <2>2. CASE Gate(p)  BY <2>2, GateKeeps
    <2>3. CASE ~Start(p) /\ ~Gate(p)
      BY <1>2, <2>3, ActionsAreCommandSteps, CommandStepKeeps
    <2> QED  BY <2>1, <2>2, <2>3
  <1> QED  BY <1>1, <1>2 DEF CliNext

\* No process touches what its command's row of COMMAND_CAPABILITIES does not
\* say, and one in readonly mode touches nothing: for any number of processes.
THEOREM BoundaryAlways == CliSpec => []BoundaryHolds
  <1>1. BoundaryInv => BoundaryHolds  BY DEF BoundaryInv, BoundaryHolds
  <1> QED  BY <1>1, InitBoundary, NextBoundary, PTL DEF CliSpec

-----------------------------------------------------------------------------
\* The ledger.
LedgerOK ==
  /\ lines \in Seq(Nat) /\ Len(lines) <= MaxLines
  /\ cut \in BOOLEAN /\ shared \in BOOLEAN
  /\ seq \in [Writer -> 0..NotMade]
  /\ acked \in Nat /\ tears \in Nat

\* An object no other one has appended after counts the lines rightly, as long
\* as none has appended beside another and every line is finished.
FreshCount ==
  ~shared /\ tears = 0 =>
    /\ ~cut
    /\ \A i \in DOMAIN lines : lines[i] = i
    /\ \A w \in Writer \ stale : seq[w] # NotMade => seq[w] = Len(lines)

\* An unfinished line has yet to cost the entry that will be glued to it.
CutIsOwed == acked + (IF cut THEN 1 ELSE 0) <= Cardinality(Readable) + tears

LedgerInv == LedgerOK /\ FreshCount /\ CutIsOwed

LEMMA ReadableFinite ==
  ASSUME lines \in Seq(Nat)  PROVE  IsFiniteSet(Readable) /\ Cardinality(Readable) \in Nat
  <1>1. Readable \in SUBSET (1..Len(lines))  BY DEF Readable
  <1>2. IsFiniteSet(1..Len(lines))  BY FS_Interval
  <1> QED  BY <1>1, <1>2, FS_Subset, FS_CardinalityType

LEMMA InitLedger == LedgerInit => LedgerInv
  <1> SUFFICES ASSUME LedgerInit  PROVE  LedgerInv
    OBVIOUS
  <1>1. LedgerOK
    <2>1. lines \in Seq(Nat) /\ Len(lines) = 0  BY DEF LedgerInit
    <2>2. NotMade \in 0..NotMade  BY LedgerAssumption DEF NotMade
    <2>3. seq \in [Writer -> 0..NotMade]  BY <2>2 DEF LedgerInit
    <2>4. acked \in Nat /\ tears \in Nat /\ 0 <= MaxLines  BY LedgerAssumption DEF LedgerInit
    <2>5. cut \in BOOLEAN /\ shared \in BOOLEAN  BY DEF LedgerInit
    <2> QED  BY <2>1, <2>3, <2>4, <2>5 DEF LedgerOK
  <1>2. Readable = {}  BY DEF LedgerInit, Readable
  <1>3. CutIsOwed  BY <1>2, FS_EmptySet DEF LedgerInit, CutIsOwed
  <1> QED  BY <1>1, <1>3 DEF LedgerInit, LedgerInv, FreshCount

LEMMA OpenKeeps == ASSUME LedgerInv, NEW w \in Writer, Open(w)  PROVE  LedgerInv'
  <1>1. Len(lines) \in 0..NotMade  BY LedgerAssumption DEF LedgerInv, LedgerOK, NotMade
  <1>2. LedgerOK' /\ Readable' = Readable
    BY <1>1 DEF LedgerInv, LedgerOK, Open, NotMade, Readable
  <1>3. FreshCount'  BY <1>1 DEF LedgerInv, LedgerOK, FreshCount, Open, NotMade
  <1> QED  BY <1>2, <1>3 DEF LedgerInv, CutIsOwed, Open

LEMMA EntryFailsKeeps == ASSUME LedgerInv, NEW w \in Writer, EntryFails(w)  PROVE  LedgerInv'
  <1>1. seq' = seq /\ UNCHANGED <<lines, cut, acked, tears, stale, shared>>
    BY DEF LedgerInv, LedgerOK, EntryFails, NumberAfterFailure
  <1> QED
    BY <1>1 DEF LedgerInv, LedgerOK, FreshCount, CutIsOwed, NotMade, Readable

\* Appending a line adds it to the readable ones, unless it is garbage.
LEMMA OneMoreLine ==
  ASSUME lines \in Seq(Nat), NEW n \in Nat, lines' = Append(lines, n)
  PROVE  /\ lines' \in Seq(Nat) /\ Len(lines') = Len(lines) + 1
         /\ \A i \in DOMAIN lines : lines'[i] = lines[i]
         /\ lines'[Len(lines) + 1] = n
         /\ DOMAIN lines' = DOMAIN lines \union {Len(lines) + 1}
         /\ Cardinality(Readable') = Cardinality(Readable) + (IF n = Garbage THEN 0 ELSE 1)
  <1>1. /\ lines' \in Seq(Nat) /\ Len(lines') = Len(lines) + 1
        /\ DOMAIN lines = 1..Len(lines) /\ DOMAIN lines' = 1..(Len(lines) + 1)
        /\ \A i \in 1..Len(lines) : lines'[i] = lines[i]
        /\ lines'[Len(lines) + 1] = n
    OBVIOUS
  <1>2. 1..(Len(lines) + 1) = (1..Len(lines)) \union {Len(lines) + 1} /\ Len(lines) \in Nat
    OBVIOUS
  <1>3. CASE n = Garbage
    <2>1. Readable' = Readable  BY <1>1, <1>2, <1>3 DEF Readable
    <2> QED  BY <1>1, <1>2, <1>3, <2>1, ReadableFinite
  <1>4. CASE n # Garbage
    <2>1. Readable' = Readable \union {Len(lines) + 1} /\ Len(lines) + 1 \notin Readable
      BY <1>1, <1>2, <1>4 DEF Readable
    <2>2. Cardinality(Readable') = Cardinality(Readable) + 1
      BY <2>1, ReadableFinite, FS_AddElement
    <2> QED  BY <1>1, <1>2, <1>4, <2>2
  <1> QED  BY <1>3, <1>4

LEMMA EntryKeeps == ASSUME LedgerInv, NEW w \in Writer, Entry(w)  PROVE  LedgerInv'
  <1>1. /\ seq[w] \in 0..MaxLines /\ seq[w] + 1 \in Nat /\ seq[w] + 1 # Garbage
        /\ lines \in Seq(Nat) /\ Len(lines) < MaxLines /\ Len(lines) \in Nat
        /\ acked \in Nat /\ tears \in Nat
    BY LedgerAssumption DEF LedgerInv, LedgerOK, Entry, NotMade, Garbage
  <1>2. seq' \in [Writer -> 0..NotMade]
    BY <1>1, LedgerAssumption DEF LedgerInv, LedgerOK, Entry, NotMade
  <1>5. shared' \in BOOLEAN  BY Zenon DEF Entry
  <1>6. NotMade' = NotMade  BY DEF NotMade
  <1>3. CASE cut
    <2>1. lines' = lines /\ cut' = FALSE /\ acked' = acked + 1 /\ tears' = tears
      BY <1>3 DEF Entry, Write
    <2>2. Readable' = Readable /\ Cardinality(Readable) \in Nat
      BY <1>1, <2>1, ReadableFinite DEF Readable
    <2>3. LedgerOK'
      <3>1. lines' \in Seq(Nat) /\ Len(lines') <= MaxLines /\ acked' \in Nat /\ tears' \in Nat
        BY <1>1, <2>1 DEF LedgerInv, LedgerOK
      <3> QED  BY <1>2, <1>5, <1>6, <2>1, <3>1 DEF LedgerOK
    <2>4. FreshCount'
      <3>1. ~(~shared /\ tears = 0)  BY <1>3 DEF LedgerInv, FreshCount
      <3>2. shared' = (shared \/ w \in stale)  BY DEF Entry
      <3> QED  BY <2>1, <3>1, <3>2 DEF FreshCount
    <2>5. CutIsOwed'  BY <1>1, <1>3, <2>1, <2>2 DEF LedgerInv, CutIsOwed
    <2> QED  BY <2>3, <2>4, <2>5 DEF LedgerInv
  <1>4. CASE ~cut
    <2>1. lines' = Append(lines, seq[w] + 1) /\ cut' = FALSE /\ acked' = acked + 1
          /\ tears' = tears
      BY <1>4 DEF Entry, Write
    <2>2. /\ lines' \in Seq(Nat) /\ Len(lines') = Len(lines) + 1
          /\ \A i \in DOMAIN lines : lines'[i] = lines[i]
          /\ lines'[Len(lines) + 1] = seq[w] + 1
          /\ DOMAIN lines' = DOMAIN lines \union {Len(lines) + 1}
          /\ Cardinality(Readable') = Cardinality(Readable) + 1
      BY <1>1, <2>1, OneMoreLine
    <2>3. LedgerOK'
      <3>1. lines' \in Seq(Nat) /\ Len(lines') <= MaxLines /\ acked' \in Nat /\ tears' \in Nat
        BY <1>1, <2>1, <2>2, LedgerAssumption
      <3> QED  BY <1>2, <1>5, <1>6, <2>1, <3>1 DEF LedgerOK
    <2>4. FreshCount'
      <3> SUFFICES ASSUME ~shared', tears' = 0
                   PROVE  /\ ~cut'
                          /\ \A i \in DOMAIN lines' : lines'[i] = i
                          /\ \A v \in Writer \ stale' : seq'[v] # NotMade' => seq'[v] = Len(lines')
        BY DEF FreshCount
      <3>1. ~shared /\ w \notin stale /\ tears = 0  BY <2>1 DEF Entry
      <3>2. seq[w] = Len(lines) /\ \A i \in DOMAIN lines : lines[i] = i
        BY <3>1 DEF LedgerInv, FreshCount, Entry
      <3>3. \A i \in DOMAIN lines' : lines'[i] = i  BY <2>2, <3>2
      <3>4. ASSUME NEW v \in Writer \ stale', seq'[v] # NotMade'
            PROVE  seq'[v] = Len(lines')
        <4>1. CASE v = w
          BY <2>2, <3>2, <4>1, <1>1 DEF Entry, LedgerInv, LedgerOK
        <4>2. CASE v # w
          <5>1. seq'[v] = seq[v] /\ seq[v] = NotMade /\ NotMade' = NotMade
            BY <3>4, <4>2 DEF Entry, NotMade, LedgerInv, LedgerOK
          <5> QED  BY <3>4, <5>1
        <4> QED  BY <4>1, <4>2
      <3> QED  BY <2>1, <3>3, <3>4
    <2>5. CutIsOwed'
      BY <1>1, <1>4, <2>1, <2>2, ReadableFinite DEF LedgerInv, CutIsOwed
    <2> QED  BY <2>3, <2>4, <2>5 DEF LedgerInv
  <1> QED  BY <1>3, <1>4

LEMMA EntryTornKeeps == ASSUME LedgerInv, NEW w \in Writer, EntryTorn(w)  PROVE  LedgerInv'
  <1>1. /\ lines \in Seq(Nat) /\ Len(lines) < MaxLines /\ Len(lines) \in Nat
        /\ acked \in Nat /\ tears \in Nat /\ Garbage \in Nat
        /\ cut' = TRUE /\ tears' = tears + 1 /\ acked' = acked
        /\ UNCHANGED <<seq, stale, shared>>
    BY DEF LedgerInv, LedgerOK, EntryTorn, Garbage
  <1>2. /\ lines' \in Seq(Nat) /\ Len(lines') <= MaxLines
        /\ Cardinality(Readable') = Cardinality(Readable)
    <2>1. CASE cut
      <3>1. lines' = lines  BY <2>1 DEF EntryTorn
      <3>2. Readable' = Readable  BY <3>1 DEF Readable
      <3>3. Len(lines) <= MaxLines  BY DEF LedgerInv, LedgerOK
      <3> QED  BY <1>1, <3>1, <3>2, <3>3
    <2>2. CASE ~cut
      <3>1. lines' = Append(lines, Garbage)  BY <2>2 DEF EntryTorn
      <3>2. Len(lines') = Len(lines) + 1 /\ lines' \in Seq(Nat)
            /\ Cardinality(Readable') = Cardinality(Readable) + 0
        BY <1>1, <3>1, OneMoreLine
      <3>3. Len(lines') <= MaxLines  BY <1>1, <3>2, LedgerAssumption
      <3>4. Cardinality(Readable) \in Nat  BY <1>1, ReadableFinite
      <3> QED  BY <3>2, <3>3, <3>4
    <2> QED  BY <2>1, <2>2
  <1>3. LedgerOK'  BY <1>1, <1>2 DEF LedgerInv, LedgerOK, NotMade
  <1>4. FreshCount'  BY <1>1 DEF FreshCount
  <1>5. CutIsOwed'
    BY <1>1, <1>2, ReadableFinite DEF LedgerInv, CutIsOwed
  <1> QED  BY <1>3, <1>4, <1>5 DEF LedgerInv

\* Whatever a process does, the ledger sees one of these or nothing.
LEMMA NextLedger == LedgerInv /\ [CliNext]_cliVars => LedgerInv'
  <1> SUFFICES ASSUME LedgerInv, [CliNext]_cliVars  PROVE  LedgerInv'
    OBVIOUS
  <1>1. ASSUME UNCHANGED ledgerVars  PROVE LedgerInv'
    BY <1>1 DEF ledgerVars, LedgerInv, LedgerOK, FreshCount, CutIsOwed, NotMade, Readable
  <1>2. ASSUME NEW p \in Process,
               \/ Start(p) \/ Gate(p) \/ Show(p) \/ Diagnose(p) \/ Sessions(p) \/ Watch(p)
               \/ OpenUI(p) \/ NextTurn(p) \/ Probe(p) \/ ProbeEnds(p) \/ Prepare(p) \/ Banner(p)
               \/ Report(p) \/ Record(p) \/ RecordFails(p) \/ Interrupt(p)
        PROVE  \/ UNCHANGED ledgerVars
               \/ \E w \in Writer : Open(w) \/ Entry(w) \/ EntryFails(w) \/ EntryTorn(w)
    BY <1>2 DEF Process, Start, Gate, Show, Diagnose, Sessions, Watch, OpenUI, NextTurn, Probe,
                ProbeEnds, Prepare, Banner, Report, Record, RecordFails, Interrupt
  <1>3. \A w \in Writer : Open(w) \/ Entry(w) \/ EntryFails(w) \/ EntryTorn(w) => LedgerInv'
    BY OpenKeeps, EntryKeeps, EntryFailsKeeps, EntryTornKeeps
  <1> QED  BY <1>1, <1>2, <1>3 DEF CliNext, cliVars

\* For any number of processes: entries are numbered by their lines while one
\* object at a time appends and no line is cut off, and a line that is cut off
\* costs one entry at most.
THEOREM LedgerAlways == CliSpec => []LedgerSound
  <1>1. CliInit => LedgerInv  BY InitLedger DEF CliInit
  <1>2. LedgerInv => LedgerSound
    BY ReadableFinite DEF LedgerInv, LedgerOK, FreshCount, CutIsOwed, LedgerSound,
       NumbersAreLines, TearCostsOneEntry
  <1> QED  BY <1>1, <1>2, NextLedger, PTL DEF CliSpec
=============================================================================
