---------------------------- MODULE ResponseCache ----------------------------
(***************************************************************************)
(* tools/latency/caching.py: MultiTierCache, an LRU map in memory over a   *)
(* file of JSON lines.  A process has one cache object, used by all its    *)
(* threads; the file belongs to every process of the checkout.  Each tier  *)
(* has a lock; a call of the cache takes them one after the other.         *)
(* Processes share no lock.                                                *)
(*                                                                         *)
(* Callers never pass a ttl_s of their own, so an entry in memory lives    *)
(* for L1Ttl and one on file for L2Ttl, and never call clear, which is     *)
(* left out.  A value is the number of the set that stored it.             *)
(***************************************************************************)
EXTENDS Naturals, Sequences, FiniteSets, Listing

CONSTANTS
  Process,   \* each with its MultiTierCache, all on the same l2_path
  Thread,
  Owner,     \* the process of each thread
  Key,
  L1Max, L1Ttl, L2Max, L2Ttl,   \* CacheConfig
  None,      \* no value, no entry
  Broken,    \* a line that json.loads refuses
  MaxCalls,  \* bound: the calls made
  MaxFaults, \* bound: crashes and failing writes
  MaxTime    \* bound: the clock

ASSUME CacheAssumption ==
  /\ Owner \in [Thread -> Process]
  /\ {L1Max, L2Max} \subseteq Nat \ {0}
  /\ {L1Ttl, L2Ttl, MaxCalls, MaxFaults, MaxTime} \subseteq Nat
  /\ None \notin Nat /\ Broken # None
  /\ Broken \notin [key : Key, val : Nat, ts : Nat]

VARIABLES
  now,       \* the clock
  calls,     \* how many calls were made
  faults,    \* how many faults there were
  tears,     \* history: how many of them left a line unfinished
  file,      \* the lines of the file
  torn,      \* its last line lacks the newline
  memory,    \* LRUCache._data of each process, least recently used first
  index,     \* DiskCache._index of each process: line number and created_ts
  pc,        \* where each thread is
  call,      \* the call it is in, or was last in
  local,     \* its other variables, see Fresh
  answer,    \* what its last get returned
  stored,    \* history: the sets, each with those that had ended before it
  ended,     \* history: the sets that have ended
  raced      \* history: the keys on which two calls have overlapped

storeVars == <<file, torn, memory, index>>
history == <<stored, ended, raced>>
vars == <<now, calls, faults, tears, file, torn, memory, index, pc, call, local, answer, stored, ended, raced>>

\* "memory", "disk": before the lock of the tier; "appending", "appended":
\* holding the disk lock, before and after the write; "promoting": found on
\* file.
ProgramPoint == {"idle", "memory", "disk", "appending", "appended", "promoting"}

\* stamp: the last time the thread is known to have passed, so that it reads
\* its clock between stamp and now; line: the lines _append counted; ts: the
\* created_ts of the entry it writes; known: the sets ended when it began.
Fresh == [stamp |-> 0, line |-> 0, ts |-> 0, known |-> {}]

Times(t) == local[t].stamp .. now

Init ==
  /\ now = 0 /\ calls = 0 /\ faults = 0 /\ tears = 0
  /\ file = <<>> /\ torn = FALSE
  /\ memory = [p \in Process |-> <<>>]
  /\ index = [p \in Process |-> [k \in Key |-> None]]
  /\ pc = [t \in Thread |-> "idle"]
  /\ call = [t \in Thread |-> None]
  /\ local = [t \in Thread |-> Fresh]
  /\ answer = [t \in Thread |-> None]
  /\ stored = <<>> /\ ended = {} /\ raced = {}

-----------------------------------------------------------------------------
\* LRUCache

Cached(p, k) == Kept(memory[p], {i \in 1..Len(memory[p]) : memory[p][i].key = k})
Others(p, k) == Kept(memory[p], {i \in 1..Len(memory[p]) : memory[p][i].key # k})

Room(es) == IF Len(es) >= L1Max THEN Tail(es) ELSE es

\* is_expired, the negation.
InTime(e, ttl, ts) == e # None /\ ts <= e.ts + ttl

InMemory(p, k, ts) == \E i \in 1..Len(memory[p]) :
  memory[p][i].key = k /\ InTime(memory[p][i], L1Ttl, ts)

\* LRUCache.set
Put(p, k, v, ts) ==
  Append(IF Cached(p, k) # <<>> THEN Others(p, k) ELSE Room(memory[p]),
         [key |-> k, val |-> v, ts |-> ts])

-----------------------------------------------------------------------------
\* DiskCache

\* Mutated form: there is no lock.
Unlocked(p) == TRUE

\* DiskCache._lock of the process is free.
Free(p) == \A t \in Thread : Owner[t] = p => pc[t] \notin {"appending", "appended"}

LinesOf(f, k) == {i \in 1..Len(f) : f[i] # Broken /\ f[i].key = k}

\* Mutated form: the first line of a key stays in the index.
FirstLine(f, k) == CHOOSE i \in LinesOf(f, k) : \A j \in LinesOf(f, k) : i <= j
RebuiltFromFirst(f) ==
  [k \in Key |-> IF LinesOf(f, k) = {} THEN None
                 ELSE [line |-> FirstLine(f, k), ts |-> f[FirstLine(f, k)].ts]]

\* _rebuild_index: the last line of each key; undecodable lines are skipped.
LastLine(f, k) == CHOOSE i \in LinesOf(f, k) : \A j \in LinesOf(f, k) : j <= i
Rebuilt(f) ==
  [k \in Key |-> IF LinesOf(f, k) = {} THEN None
                 ELSE [line |-> LastLine(f, k), ts |-> f[LastLine(f, k)].ts]]

Size(ix) == Cardinality({k \in Key : ix[k] # None})

\* The text goes to the end of the file, on the same line as what a torn
\* write has left there.
Written(l) == IF torn THEN [file EXCEPT ![Len(file)] = Broken] ELSE Append(file, l)

EntryOf(t) == [key |-> call[t].key, val |-> call[t].val, ts |-> local[t].ts]

\* The value on the line the index names, if that line can be read.
LineValue(e) ==
  IF e.line <= Len(file) /\ file[e.line] # Broken THEN file[e.line].val ELSE None
-----------------------------------------------------------------------------
\* The calls of MultiTierCache

Goto(t, label) == pc' = [pc EXCEPT ![t] = label]
Reach(t) == local' = [local EXCEPT ![t].stamp = now]

Return(t, v) ==
  /\ Goto(t, "idle")
  /\ answer' = [answer EXCEPT ![t] = v]
  /\ local' = [local EXCEPT ![t] = [Fresh EXCEPT !.known = local[t].known]]

Start(t, name, k) ==
  /\ pc[t] = "idle"
  /\ calls < MaxCalls
  /\ calls' = calls + 1
  /\ call' = [call EXCEPT ![t] =
       [name |-> name, key |-> k, val |-> IF name = "set" THEN Len(stored) + 1 ELSE 0]]
  /\ stored' = IF name = "set" THEN Append(stored, [key |-> k, older |-> ended]) ELSE stored
  /\ raced' = IF \E u \in Thread : pc[u] # "idle" /\ call[u].key = k
                THEN raced \cup {k} ELSE raced
  /\ answer' = [answer EXCEPT ![t] = None]
  /\ local' = [local EXCEPT ![t] = [Fresh EXCEPT !.stamp = now, !.known = ended]]
  /\ Goto(t, "memory")
  /\ UNCHANGED storeVars
  /\ UNCHANGED <<now, faults, tears, ended>>

\* LRUCache.get: an entry that has expired at the time ts is dropped.
MemoryGet(t) ==
  /\ pc[t] = "memory" /\ call[t].name = "get"
  /\ \E ts \in Times(t) :
       LET p == Owner[t]
           k == call[t].key
       IN  \/ /\ InMemory(p, k, ts)
              /\ memory' = [memory EXCEPT ![p] = Others(p, k) \o Cached(p, k)]
              /\ Return(t, Head(Cached(p, k)).val)
           \/ /\ ~InMemory(p, k, ts)
              /\ memory' = [memory EXCEPT ![p] = Others(p, k)]
              /\ Goto(t, "disk")
              /\ Reach(t)
              /\ UNCHANGED answer
  /\ UNCHANGED history
  /\ UNCHANGED <<now, calls, faults, tears, file, torn, index, call>>

\* DiskCache.get: an expired entry leaves the index; whatever stands on the
\* line of any other is returned.
DiskGet(t) ==
  /\ pc[t] = "disk" /\ call[t].name = "get"
  /\ Free(Owner[t])
  /\ \E ts \in Times(t) :
       LET e == index[Owner[t]][call[t].key]
       IN  \/ /\ InTime(e, L2Ttl, ts) /\ LineValue(e) # None
              /\ call' = [call EXCEPT ![t].val = LineValue(e)]
              /\ Goto(t, "promoting")
              /\ Reach(t)
              /\ UNCHANGED <<index, answer>>
           \/ /\ ~(InTime(e, L2Ttl, ts) /\ LineValue(e) # None)
              /\ index' = IF InTime(e, L2Ttl, ts) THEN index
                          ELSE [index EXCEPT ![Owner[t]][call[t].key] = None]
              /\ Return(t, None)
              /\ UNCHANGED call
  /\ UNCHANGED history
  /\ UNCHANGED <<now, calls, faults, tears, file, torn, memory>>

\* The value found on file is put in memory as if it were new, and returned.
Promote(t) ==
  /\ pc[t] = "promoting"
  /\ \E ts \in Times(t) :
       memory' = [memory EXCEPT ![Owner[t]] = Put(Owner[t], call[t].key, call[t].val, ts)]
  /\ Return(t, call[t].val)
  /\ UNCHANGED history
  /\ UNCHANGED <<now, calls, faults, tears, file, torn, index, call>>

MemorySet(t) ==
  /\ pc[t] = "memory" /\ call[t].name = "set"
  /\ \E ts \in Times(t) :
       memory' = [memory EXCEPT ![Owner[t]] = Put(Owner[t], call[t].key, call[t].val, ts)]
  /\ Goto(t, "disk")
  /\ Reach(t)
  /\ UNCHANGED history
  /\ UNCHANGED <<now, calls, faults, tears, file, torn, index, call, answer>>

\* _append takes the lock and counts the lines.
Count(t) ==
  /\ pc[t] = "disk" /\ call[t].name = "set"
  /\ Free(Owner[t])
  /\ \E ts \in Times(t) :
       local' = [local EXCEPT ![t].line = Len(file), ![t].ts = ts]
  /\ Goto(t, "appending")
  /\ UNCHANGED storeVars
  /\ UNCHANGED history
  /\ UNCHANGED <<now, calls, faults, tears, call, answer>>

Write(t) ==
  /\ pc[t] = "appending"
  /\ file' = Written(EntryOf(t))
  /\ torn' = FALSE
  /\ Goto(t, "appended")
  /\ UNCHANGED history
  /\ UNCHANGED <<now, calls, faults, tears, memory, index, call, local, answer>>

\* Mutated form: the rewritten file replaces the old one.
Emptied(ix) == IF Size(ix) > L2Max THEN <<>> ELSE file

\* _trim_oldest and _rewrite_file leave the file as it is.
Trimmed(ix) == file

\* Lines are numbered from one here, and from zero in the code.
NewLine(t) == local[t].line + 1

\* The entry is indexed under the line counted before; past max_entries the
\* index is trimmed, and then rebuilt from the whole file.
Enter(t) ==
  /\ pc[t] = "appended"
  /\ LET p  == Owner[t]
         ix == [index[p] EXCEPT ![call[t].key] =
                  [line |-> NewLine(t), ts |-> local[t].ts]]
     IN  /\ file' = Trimmed(ix)
         /\ index' = [index EXCEPT ![p] = IF Size(ix) > L2Max THEN Rebuilt(file) ELSE ix]
  /\ ended' = ended \cup {call[t].val}
  /\ Return(t, None)
  /\ UNCHANGED <<now, calls, faults, tears, torn, memory, call, stored, raced>>

\* invalidate
MemoryDrop(t) ==
  /\ pc[t] = "memory" /\ call[t].name = "invalidate"
  /\ memory' = [memory EXCEPT ![Owner[t]] = Others(Owner[t], call[t].key)]
  /\ Goto(t, "disk")
  /\ UNCHANGED history
  /\ UNCHANGED <<now, calls, faults, tears, file, torn, index, call, local, answer>>

DiskDrop(t) ==
  /\ pc[t] = "disk" /\ call[t].name = "invalidate"
  /\ Free(Owner[t])
  /\ index' = [index EXCEPT ![Owner[t]][call[t].key] = None]
  /\ Return(t, None)
  /\ UNCHANGED history
  /\ UNCHANGED <<now, calls, faults, tears, file, torn, memory, call>>
-----------------------------------------------------------------------------
\* The disk is full: part of the line is on file, or all but its newline, and
\* set raises.
WriteFails(t) ==
  /\ pc[t] = "appending"
  /\ faults < MaxFaults
  /\ faults' = faults + 1
  /\ tears' = tears + 1
  /\ \E l \in {Broken, EntryOf(t)} : file' = Written(l)
  /\ torn' = TRUE
  /\ Return(t, None)
  /\ UNCHANGED history
  /\ UNCHANGED <<now, calls, memory, index, call>>

\* A process dies, possibly in the middle of a write, and is started again.
Crash(p) ==
  /\ faults < MaxFaults
  /\ faults' = faults + 1
  /\ \/ UNCHANGED <<file, torn, tears>>
     \/ \E t \in Thread :
          /\ Owner[t] = p /\ pc[t] = "appending"
          /\ \E l \in {Broken, EntryOf(t)} : file' = Written(l)
          /\ torn' = TRUE
          /\ tears' = tears + 1
  /\ memory' = [memory EXCEPT ![p] = <<>>]
  /\ index' = [index EXCEPT ![p] = Rebuilt(file')]
  /\ pc' = [t \in Thread |-> IF Owner[t] = p THEN "idle" ELSE pc[t]]
  /\ answer' = [t \in Thread |-> IF Owner[t] = p THEN None ELSE answer[t]]
  /\ local' = [t \in Thread |-> IF Owner[t] = p THEN Fresh ELSE local[t]]
  /\ UNCHANGED history
  /\ UNCHANGED <<now, calls, call>>

Tick ==
  /\ now < MaxTime
  /\ now' = now + 1
  /\ UNCHANGED storeVars
  /\ UNCHANGED history
  /\ UNCHANGED <<calls, faults, tears, pc, call, local, answer>>

Next ==
  \/ \E t \in Thread :
       \/ \E k \in Key, name \in {"get", "set", "invalidate"} : Start(t, name, k)
       \/ MemoryGet(t) \/ DiskGet(t) \/ Promote(t)
       \/ MemorySet(t) \/ Count(t) \/ Write(t) \/ Enter(t)
       \/ MemoryDrop(t) \/ DiskDrop(t)
       \/ WriteFails(t)
  \/ \E p \in Process : Crash(p)
  \/ Tick

Spec == Init /\ [][Next]_vars
-----------------------------------------------------------------------------
\* Every variable stays in its range; memory holds a key once, and no more
\* entries than its bound.
Val == 1..Len(stored)
Line == [key : Key, val : Val, ts : 0..now]

CacheTypeOK ==
  /\ \A i \in 1..Len(file) : file[i] \in Line \/ file[i] = Broken
  /\ torn => file # <<>>
  /\ \A p \in Process :
       /\ memory[p] \in Seq(Line)
       /\ Len(memory[p]) <= L1Max
       /\ \A i, j \in 1..Len(memory[p]) : memory[p][i].key = memory[p][j].key => i = j
       /\ \A k \in Key : index[p][k] = None \/ index[p][k] \in [line : Nat, ts : 0..now]
  /\ pc \in [Thread -> ProgramPoint]
  /\ \A t \in Thread : local[t] \in [stamp : 0..now, line : Nat, ts : 0..now, known : SUBSET Val]
  /\ answer \in [Thread -> Val \cup {None}]
  /\ ended \subseteq Val

\* "key -> (line_num, created_ts)": what a get returns was set under its key,
\* as long as every line was finished.
AnswerIsForKey ==
  \A t \in Thread :
    tears = 0 /\ answer[t] # None => stored[answer[t]].key = call[t].key

\* A get does not return what was overwritten by a set that had ended before
\* the get began, unless two calls on its key have overlapped (then a
\* promotion may put an old value in front of a newer one).
NoStaleReadUnlessRaced ==
  \A t \in Thread :
    tears = 0 /\ answer[t] # None /\ call[t].key \notin raced =>
      \A w \in local[t].known :
        stored[w].key = call[t].key => answer[t] \notin stored[w].older

\* Each unfinished line costs at most one set that had ended: the one that
\* was written on the same line.  All others can be read after a restart,
\* unless the key was set again.
Lost == {v \in ended : \A i \in 1..Len(file) : file[i] = Broken \/ file[i].val # v}

TearCostsOne == Cardinality(Lost) <= tears
=============================================================================
