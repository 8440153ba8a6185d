--------------------------------- MODULE Ledger ---------------------------------
(***************************************************************************)
(* tools/delegation/ledger.py: the DelegationLedger objects over one       *)
(* ledger.jsonl.  A process has one for its probes and makes another one   *)
(* for every chat turn and every `j5 run`; each counts the lines of the    *)
(* file once, when it is made, and numbers its own entries from there.  A  *)
(* write that is cut off leaves part of a line, to which the next entry is *)
(* glued.                                                                  *)
(***************************************************************************)
EXTENDS Naturals, Sequences, FiniteSets

CONSTANTS
  Writer,    \* the DelegationLedger objects
  MaxLines,  \* bound: the lines of the file
  MaxTears   \* bound: the writes that are cut off

ASSUME LedgerAssumption == MaxLines \in Nat /\ MaxTears \in Nat

VARIABLES
  lines,   \* the entries of the file, a line each
  cut,     \* the last line has no end yet
  seq,     \* _seq of each object, NotMade before it is made
  acked,   \* history: the entries append has returned
  tears,   \* history: the writes that were cut off
  stale,   \* history: the objects another one has appended after since they were made
  shared   \* history: one of these has appended

ledgerVars == <<lines, cut, seq, acked, tears, stale, shared>>

NotMade == MaxLines + 1

\* A line json.loads cannot read.
Garbage == 0
Readable == {i \in DOMAIN lines : lines[i] # Garbage}

LedgerInit ==
  /\ lines = <<>> /\ cut = FALSE
  /\ seq = [w \in Writer |-> NotMade]
  /\ acked = 0 /\ tears = 0
  /\ stale = {} /\ shared = FALSE

\* _count_lines counts every line that is not blank.
Open(w) ==
  /\ seq' = [seq EXCEPT ![w] = Len(lines)]
  /\ stale' = stale \ {w}
  /\ UNCHANGED <<lines, cut, acked, tears, shared>>

\* Mutated form: the number is taken before the write.
NumberEarly(w) == seq[w] + 1

NumberAfterFailure(w) == seq[w]

\* The entry ends up behind what a cut write has left, or on its own line.
Write(w) ==
  /\ lines' = IF cut THEN lines ELSE Append(lines, seq[w] + 1)
  /\ cut' = FALSE

Entry(w) ==
  /\ seq[w] # NotMade /\ Len(lines) < MaxLines
  /\ Write(w)
  /\ seq' = [seq EXCEPT ![w] = @ + 1]
  /\ acked' = acked + 1
  /\ stale' = stale \union {v \in Writer \ {w} : seq[v] # NotMade}
  /\ shared' = (shared \/ w \in stale)
  /\ UNCHANGED tears

\* The file cannot be opened or written: append raises.
EntryFails(w) ==
  /\ seq[w] # NotMade
  /\ seq' = [seq EXCEPT ![w] = NumberAfterFailure(w)]
  /\ UNCHANGED <<lines, cut, acked, tears, stale, shared>>

\* The disk is full or the process is killed in the middle of the line.
EntryTorn(w) ==
  /\ seq[w] # NotMade /\ Len(lines) < MaxLines /\ tears < MaxTears
  /\ lines' = IF cut THEN lines ELSE Append(lines, Garbage)
  /\ cut' = TRUE
  /\ tears' = tears + 1
  /\ UNCHANGED <<seq, acked, stale, shared>>

-----------------------------------------------------------------------------
\* As long as one object at a time appends and no write is cut off, the number
\* of an entry is its line: no failed append leaves a gap.
NumbersAreLines ==
  ~shared /\ tears = 0 => \A i \in DOMAIN lines : lines[i] = i

\* A write that is cut off costs no more than one entry beside itself, the one
\* glued to it.
TearCostsOneEntry == acked - Cardinality(Readable) <= tears

\* What a reader of the file may rely on, failed and unfinished appends
\* included: the two together.
LedgerSound == NumbersAreLines /\ TearCostsOneEntry
=============================================================================
