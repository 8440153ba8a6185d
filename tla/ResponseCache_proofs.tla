------------------------- MODULE ResponseCache_proofs ------------------------
(***************************************************************************)
(* The answer cache for any number of threads, keys and entries.           *)
(*                                                                         *)
(* What an unfinished line costs is proved for any number of processes on  *)
(* the file.  What a get returns is proved for the threads of one process: *)
(* two processes count the lines of the file under different locks, and    *)
(* the index of one may then name the line of another key.                 *)
(*                                                                         *)
(* FileInv accounts for the sets by their numbers: each is written once,   *)
(* and those that are written and cannot be read are no more than the      *)
(* unfinished lines.  CacheInv adds, while every line is finished, that    *)
(* what stands under a key in the file, the index, the memory or a thread  *)
(* was set under it (KeyInv), and that none of it was overwritten by a set *)
(* that has ended (FreshInv).                                              *)
(***************************************************************************)
EXTENDS ResponseCache, Counting_proofs

-----------------------------------------------------------------------------
\* What each variable holds, as far as the steps need to know it.
Lines == [key : Key, val : Nat, ts : Nat]
Calls == [name : {"get", "set", "invalidate"}, key : Key, val : Nat]
Slots == [line : Nat \ {0}, ts : Nat]
Locals == [stamp : Nat, line : Nat, ts : Nat, known : SUBSET Nat]
Entries(m) == {m[i] : i \in 1..Len(m)}
Storing(t) == pc[t] # "idle" /\ call[t].name = "set"
Writing(t) == pc[t] \in {"appending", "appended"}

TypeInv ==
  /\ now \in Nat /\ tears \in Nat
  /\ file \in Seq(Lines \union {Broken}) /\ (torn => file # <<>>)
  /\ memory \in [Process -> Seq(Lines)]
  /\ index \in [Process -> [Key -> Slots \union {None}]]
  /\ pc \in [Thread -> ProgramPoint]
  /\ call \in [Thread -> Calls \union {None}]
  /\ local \in [Thread -> Locals]
  /\ answer \in [Thread -> Nat \union {None}]
  /\ stored \in Seq([key : Key, older : SUBSET Nat])
  /\ ended \subseteq 1..Len(stored)

\* Which call a thread is in, by its place in the program.
Points ==
  \A t \in Thread :
    /\ pc[t] # "idle" => call[t] \in Calls
    /\ pc[t] = "promoting" => call[t].name = "get"
    /\ Writing(t) => call[t].name = "set"

LEMMA CacheConstants ==
  /\ Owner \in [Thread -> Process]
  /\ L1Max \in Nat \ {0} /\ L2Max \in Nat \ {0} /\ L1Ttl \in Nat /\ L2Ttl \in Nat
  /\ None \notin Nat /\ Broken # None /\ Broken \notin Lines
BY CacheAssumption DEF Lines

\* What a filter leaves of the memory.
LEMMA KeptEntries ==
  ASSUME TypeInv, NEW p \in Process, NEW J \in SUBSET (1..Len(memory[p]))
  PROVE  /\ Kept(memory[p], J) \in Seq(Lines)
         /\ Kept(memory[p], J) = <<>> <=> J = {}
         /\ \A e \in Entries(Kept(memory[p], J)) : \E j \in J : e = memory[p][j]
<1> DEFINE m == memory[p]
<1>1. m \in Seq(Lines)
  BY DEF TypeInv
<1> HIDE DEF m
<1>2. J \in SUBSET (1..Len(m))
  BY DEF m
<1>3. /\ Kept(m, J) \in Seq(Lines)
      /\ Kept(m, J) = <<>> <=> J = {}
      /\ \A n \in 1..Len(Kept(m, J)) : \E j \in J : Kept(m, J)[n] = m[j]
  BY <1>1, <1>2, FilterFacts
<1>4. \A e \in Entries(Kept(m, J)) : \E j \in J : e = m[j]
  BY <1>3 DEF Entries
<1> QED BY <1>3, <1>4 DEF m

LEMMA MemoryTaken ==
  ASSUME TypeInv, NEW p \in Process, NEW k \in Key
  PROVE  /\ Others(p, k) \in Seq(Lines) /\ Cached(p, k) \in Seq(Lines)
         /\ \A e \in Entries(Others(p, k)) : e \in Entries(memory[p]) /\ e.key # k
         /\ \A e \in Entries(Cached(p, k)) : e \in Entries(memory[p]) /\ e.key = k
         /\ Cached(p, k) = <<>> <=> \A e \in Entries(memory[p]) : e.key # k
         /\ Others(p, k) \o Cached(p, k) \in Seq(Lines)
         /\ \A e \in Entries(Others(p, k) \o Cached(p, k)) : e \in Entries(memory[p])
<1> DEFINE C == {i \in 1..Len(memory[p]) : memory[p][i].key = k}
           D == {i \in 1..Len(memory[p]) : memory[p][i].key # k}
           c == Kept(memory[p], C)
           d == Kept(memory[p], D)
<1>1. c \in Seq(Lines) /\ (c = <<>> <=> C = {}) /\ \A e \in Entries(c) : \E j \in C : e = memory[p][j]
  BY KeptEntries
<1>2. d \in Seq(Lines) /\ \A e \in Entries(d) : \E j \in D : e = memory[p][j]
  BY KeptEntries
<1>3. \A e \in Entries(c) : e \in Entries(memory[p]) /\ e.key = k
  <2> HIDE DEF c
  <2> QED BY <1>1 DEF Entries
<1>4. \A e \in Entries(d) : e \in Entries(memory[p]) /\ e.key # k
  <2> HIDE DEF d
  <2> QED BY <1>2 DEF Entries
<1>5. c = <<>> <=> \A e \in Entries(memory[p]) : e.key # k
  <2> HIDE DEF c
  <2> QED BY <1>1 DEF Entries
<1> HIDE DEF c, d
<1>6. d \o c \in Seq(Lines) /\ \A e \in Entries(d \o c) : e \in Entries(d) \/ e \in Entries(c)
  BY <1>1, <1>2 DEF Entries
<1>7. \A e \in Entries(d \o c) : e \in Entries(memory[p])
  BY <1>3, <1>4, <1>6
<1>8. c = Cached(p, k) /\ d = Others(p, k)
  BY DEF c, d, Cached, Others
<1> QED BY <1>1, <1>2, <1>3, <1>4, <1>5, <1>6, <1>7, <1>8

LEMMA MemoryPut ==
  ASSUME TypeInv, NEW p \in Process, NEW k \in Key, NEW v \in Nat, NEW ts \in Nat
  PROVE  /\ Put(p, k, v, ts) \in Seq(Lines)
         /\ \A e \in Entries(Put(p, k, v, ts)) :
              \/ e = [key |-> k, val |-> v, ts |-> ts]
              \/ e \in Entries(memory[p]) /\ e.key # k
<1> DEFINE m == memory[p]
           new == [key |-> k, val |-> v, ts |-> ts]
           base == IF Cached(p, k) # <<>> THEN Others(p, k) ELSE Room(m)
<1>1. m \in Seq(Lines) /\ new \in Lines
  BY DEF TypeInv, Lines
<1>2. base \in Seq(Lines) /\ \A e \in Entries(base) : e \in Entries(m) /\ e.key # k
  <2>1. CASE Cached(p, k) # <<>>
    BY <2>1, MemoryTaken
  <2>2. CASE Cached(p, k) = <<>>
    <3>1. \A e \in Entries(m) : e.key # k
      BY <2>2, MemoryTaken
    <3>2. Room(m) \in Seq(Lines) /\ \A e \in Entries(Room(m)) : e \in Entries(m)
      <4> HIDE DEF m
      <4>1. CASE Len(m) >= L1Max
        <5>1. m # <<>>
          BY <4>1, <1>1, CacheConstants
        <5>2. Tail(m) \in Seq(Lines) /\ Len(Tail(m)) = Len(m) - 1
              /\ \A i \in 1..Len(Tail(m)) : Tail(m)[i] = m[i + 1]
          BY <1>1, <5>1
        <5>3. \A e \in Entries(Tail(m)) : e \in Entries(m)
          BY <1>1, <5>2 DEF Entries
        <5> QED BY <4>1, <5>2, <5>3 DEF Room
      <4>2. CASE ~(Len(m) >= L1Max)
        BY <4>2, <1>1 DEF Room
      <4> QED BY <4>1, <4>2
    <3>3. base = Room(m)
      BY <2>2
    <3> QED BY <3>1, <3>2, <3>3
  <2> QED BY <2>1, <2>2
<1> HIDE DEF base, new
<1>3. Append(base, new) \in Seq(Lines) /\ \A e \in Entries(Append(base, new)) : e = new \/ e \in Entries(base)
  BY <1>1, <1>2 DEF Entries
<1>4. Put(p, k, v, ts) = Append(base, new)
  BY DEF Put, base, new
<1> QED BY <1>2, <1>3, <1>4 DEF new

LEMMA Moved ==
  ASSUME TypeInv, Points, NEW t \in Thread, NEW l \in ProgramPoint, NEW c \in Calls,
         pc' = [pc EXCEPT ![t] = l], call' = [call EXCEPT ![t] = c],
         l = "promoting" => c.name = "get", l \in {"appending", "appended"} => c.name = "set"
  PROVE  pc' \in [Thread -> ProgramPoint] /\ call' \in [Thread -> Calls \union {None}] /\ Points'
<1>1. pc' \in [Thread -> ProgramPoint] /\ call' \in [Thread -> Calls \union {None}]
  BY DEF TypeInv
<1>2. pc'[t] = l /\ call'[t] = c /\ \A u \in Thread \ {t} : pc'[u] = pc[u] /\ call'[u] = call[u]
  BY DEF TypeInv
<1>3. Points'
  BY <1>2 DEF Points, Writing
<1> QED BY <1>1, <1>3

LEMMA Stayed ==
  ASSUME TypeInv, Points, NEW t \in Thread, NEW l \in ProgramPoint,
         pc' = [pc EXCEPT ![t] = l], call' = call, pc[t] # "idle",
         l = "promoting" => call[t].name = "get", l \in {"appending", "appended"} => call[t].name = "set"
  PROVE  pc' \in [Thread -> ProgramPoint] /\ call' \in [Thread -> Calls \union {None}] /\ Points'
<1>1. call' = [call EXCEPT ![t] = call[t]]
  BY DEF TypeInv
<1>2. call[t] \in Calls
  BY DEF Points
<1> QED BY <1>1, <1>2, Moved

LEMMA Returned ==
  ASSUME TypeInv, NEW t \in Thread, NEW v \in Nat \union {None}, Return(t, v)
  PROVE  /\ pc' = [pc EXCEPT ![t] = "idle"] /\ answer' = [answer EXCEPT ![t] = v]
         /\ local' \in [Thread -> Locals] /\ answer' \in [Thread -> Nat \union {None}]
<1>1. local[t].known \in SUBSET Nat
  BY DEF TypeInv, Locals
<1>2. [Fresh EXCEPT !.known = local[t].known] \in Locals
  BY <1>1 DEF Fresh, Locals
<1> QED BY <1>2 DEF Return, Goto, TypeInv

LEMMA Reached ==
  ASSUME TypeInv, NEW t \in Thread, Reach(t)
  PROVE  local' \in [Thread -> Locals]
<1>1. [local[t] EXCEPT !.stamp = now] \in Locals
  BY DEF TypeInv, Locals
<1> QED BY <1>1 DEF Reach, TypeInv

LEMMA IndexSet ==
  ASSUME TypeInv, NEW p \in Process, NEW k \in Key, NEW x \in Slots \union {None}
  PROVE  LET new == [index EXCEPT ![p][k] = x]
         IN /\ new \in [Process -> [Key -> Slots \union {None}]]
            /\ \A q \in Process, j \in Key : new[q][j] = IF q = p /\ j = k THEN x ELSE index[q][j]
<1> DEFINE S == Slots \union {None}
<1>1. index \in [Process -> [Key -> S]] /\ x \in S
  BY DEF TypeInv
<1> HIDE DEF S
<1> DEFINE row == [index[p] EXCEPT ![k] = x]
           new == [index EXCEPT ![p] = row]
<1>2. row \in [Key -> S] /\ \A j \in Key : row[j] = IF j = k THEN x ELSE index[p][j]
  BY <1>1
<1> HIDE DEF row
<1>3. new \in [Process -> [Key -> S]] /\ \A q \in Process : new[q] = IF q = p THEN row ELSE index[q]
  BY <1>1, <1>2
<1>4. [index EXCEPT ![p][k] = x] = new
  BY DEF row
<1> HIDE DEF new
<1>5. \A q \in Process, j \in Key : new[q][j] = IF q = p /\ j = k THEN x ELSE index[q][j]
  BY <1>2, <1>3
<1> QED BY <1>3, <1>4, <1>5 DEF S

LEMMA TimesAreTimes ==
  ASSUME TypeInv, NEW t \in Thread
  PROVE  Times(t) \in SUBSET Nat
BY DEF Times, TypeInv, Locals

\* What a step makes of the file.
LEMMA LinesWritten ==
  ASSUME TypeInv, NEW l \in Lines \union {Broken}
  PROVE  /\ Written(l) \in Seq(Lines \union {Broken}) /\ Written(l) # <<>>
         /\ torn => /\ Len(Written(l)) = Len(file) /\ Len(file) \in 1..Len(file)
                    /\ Written(l)[Len(file)] = Broken
                    /\ \A i \in 1..Len(file) : i # Len(file) => Written(l)[i] = file[i]
         /\ ~torn => /\ Len(Written(l)) = Len(file) + 1
                     /\ Written(l)[Len(file) + 1] = l
                     /\ \A i \in 1..Len(file) : Written(l)[i] = file[i]
<1> DEFINE S == Lines \union {Broken}
           n == Len(file)
<1>1. file \in Seq(S) /\ Broken \in S /\ l \in S
  BY DEF TypeInv
<1> HIDE DEF S
<1>2. CASE torn
  <2>1. file # <<>> /\ n \in Nat /\ n \in 1..n
    BY <1>1, <1>2 DEF TypeInv
  <2> DEFINE w == [file EXCEPT ![n] = Broken]
  <2>2. w \in Seq(S) /\ Len(w) = n /\ w[n] = Broken /\ \A i \in 1..n : i # n => w[i] = file[i]
    BY <1>1, <2>1
  <2>3. w # <<>>
    <3> HIDE DEF w
    <3>1. Len(w) # 0
      BY <2>1, <2>2
    <3> QED BY <3>1
  <2>4. Written(l) = w
    BY <1>2 DEF Written
  <2> QED BY <1>2, <2>1, <2>2, <2>3, <2>4 DEF S
<1>3. CASE ~torn
  <2> DEFINE w == Append(file, l)
  <2>1. w \in Seq(S) /\ Len(w) = n + 1 /\ w[n + 1] = l /\ \A i \in 1..n : w[i] = file[i]
    BY <1>1
  <2>2. w # <<>>
    BY <1>1, <2>1
  <2>3. Written(l) = w
    BY <1>3 DEF Written
  <2> QED BY <1>3, <2>1, <2>2, <2>3 DEF S
<1> QED BY <1>2, <1>3

LEMMA EntryIsLine ==
  ASSUME TypeInv, Points, NEW t \in Thread, pc[t] # "idle"
  PROVE  EntryOf(t) \in Lines /\ EntryOf(t) # Broken /\ EntryOf(t).val = call[t].val /\ EntryOf(t).key = call[t].key
<1>1. call[t].key \in Key /\ call[t].val \in Nat /\ local[t].ts \in Nat
  BY DEF TypeInv, Points, Calls, Locals
<1>2. EntryOf(t) \in Lines
  BY <1>1 DEF EntryOf, Lines
<1>3. EntryOf(t).val = call[t].val /\ EntryOf(t).key = call[t].key
  BY DEF EntryOf
<1> QED BY <1>2, <1>3, CacheConstants

\* The last line of a key.
LEMMA LastOfKey ==
  ASSUME NEW f \in Seq(Lines \union {Broken}), NEW k \in Key, LinesOf(f, k) # {}
  PROVE  /\ LastLine(f, k) \in LinesOf(f, k) /\ LastLine(f, k) \in 1..Len(f)
         /\ f[LastLine(f, k)] \in Lines /\ f[LastLine(f, k)].key = k
         /\ \A j \in LinesOf(f, k) : j <= LastLine(f, k)
<1> DEFINE J == LinesOf(f, k)
           c == Cardinality(J)
           top == Place(c, J, UpTo(J))
<1>1. f \in Seq(Lines \union {Broken}) /\ J \in SUBSET (1..Len(f)) /\ J \in SUBSET Nat /\ J # {}
  BY DEF LinesOf
<1> HIDE DEF J
<1>2. IsFiniteSet(J)
  BY <1>1, FilterFacts
<1>3. /\ c \in Nat
      /\ \A n \in 1..c : Place(n, J, UpTo(J)) \in J
      /\ \A m, n \in 1..c : m < n => Place(m, J, UpTo(J)) < Place(n, J, UpTo(J))
      /\ \A j \in J : \E n \in 1..c : Place(n, J, UpTo(J)) = j
  BY <1>1, <1>2, KeptFacts
<1>4. c \in 1..c
  <2>1. c # 0
    BY <1>1, <1>2, FS_EmptySet
  <2> QED BY <1>3, <2>1
<1>5. top \in J /\ \A j \in J : j <= top
  <2>1. ASSUME NEW j \in J PROVE j <= top
    <3>1. PICK n \in 1..c : Place(n, J, UpTo(J)) = j
      BY <1>3
    <3>2. n < c \/ n = c
      BY <1>3
    <3>3. top \in Nat /\ j \in Nat
      BY <1>1, <1>3, <1>4
    <3>4. n < c => Place(n, J, UpTo(J)) < top
      BY <1>3, <1>4
    <3> HIDE DEF top
    <3>5. n = c => j = top
      BY <3>1 DEF top
    <3> QED BY <3>1, <3>2, <3>3, <3>4, <3>5
  <2> QED BY <1>3, <1>4, <2>1
<1> HIDE DEF top
<1>6. LastLine(f, k) \in J /\ \A j \in J : j <= LastLine(f, k)
  BY <1>5 DEF LastLine, J
<1>7. \A j \in J : f[j] \in Lines /\ f[j].key = k
  BY <1>1 DEF J, LinesOf
<1> QED BY <1>1, <1>6, <1>7 DEF J

LEMMA RebuiltIndex ==
  ASSUME NEW f \in Seq(Lines \union {Broken})
  PROVE  /\ Rebuilt(f) \in [Key -> Slots \union {None}]
         /\ \A k \in Key : Rebuilt(f)[k] # None => LinesOf(f, k) # {} /\ Rebuilt(f)[k].line = LastLine(f, k)
<1>1. ASSUME NEW k \in Key, LinesOf(f, k) # {}
      PROVE  [line |-> LastLine(f, k), ts |-> f[LastLine(f, k)].ts] \in Slots
  <2>1. LastLine(f, k) \in 1..Len(f) /\ f[LastLine(f, k)] \in Lines
    BY <1>1, LastOfKey
  <2>2. LastLine(f, k) \in Nat \ {0}
    BY <2>1
  <2>3. f[LastLine(f, k)].ts \in Nat
    BY <2>1 DEF Lines
  <2> QED BY <2>2, <2>3 DEF Slots
<1>2. ASSUME NEW k \in Key
      PROVE  /\ Rebuilt(f)[k] \in Slots \union {None}
             /\ Rebuilt(f)[k] # None => LinesOf(f, k) # {} /\ Rebuilt(f)[k].line = LastLine(f, k)
  <2>1. Rebuilt(f)[k] = IF LinesOf(f, k) = {} THEN None ELSE [line |-> LastLine(f, k), ts |-> f[LastLine(f, k)].ts]
    BY DEF Rebuilt
  <2>2. CASE LinesOf(f, k) = {}
    BY <2>1, <2>2
  <2>3. CASE LinesOf(f, k) # {}
    BY <1>1, <2>1, <2>3
  <2> QED BY <2>2, <2>3
<1> QED BY <1>2 DEF Rebuilt

TypeAndPoints == TypeInv /\ Points

LEMMA CacheTypesInit == Init => TypeAndPoints
<1> SUFFICES ASSUME Init PROVE TypeAndPoints
  OBVIOUS
<1>1. Fresh \in Locals
  BY DEF Fresh, Locals
<1>2. /\ now = 0 /\ tears = 0 /\ file = <<>> /\ torn = FALSE
      /\ memory = [p \in Process |-> <<>>] /\ index = [p \in Process |-> [k \in Key |-> None]]
      /\ pc = [t \in Thread |-> "idle"] /\ call = [t \in Thread |-> None]
      /\ local = [t \in Thread |-> Fresh] /\ answer = [t \in Thread |-> None]
      /\ stored = <<>> /\ ended = {}
  BY DEF Init
<1>3. pc \in [Thread -> ProgramPoint]
  BY <1>2 DEF ProgramPoint
<1>4. local \in [Thread -> Locals]
  BY <1>1, <1>2
<1>5. TypeInv
  BY <1>2, <1>3, <1>4 DEF TypeInv
<1>6. Points
  BY <1>2 DEF Points, Writing
<1> QED BY <1>5, <1>6 DEF TypeAndPoints

LEMMA StartTypes ==
  ASSUME TypeInv, Points, NEW t \in Thread, NEW k \in Key, NEW name \in {"get", "set", "invalidate"},
         Start(t, name, k)
  PROVE  TypeInv' /\ Points'
<1> DEFINE c == [name |-> name, key |-> k, val |-> IF name = "set" THEN Len(stored) + 1 ELSE 0]
           new == [key |-> k, older |-> ended]
<1>1. Len(stored) \in Nat /\ ended \in SUBSET Nat /\ stored \in Seq([key : Key, older : SUBSET Nat])
  BY DEF TypeInv
<1>2. c \in Calls /\ new \in [key : Key, older : SUBSET Nat]
  BY <1>1 DEF Calls
<1> HIDE DEF c, new
<1>3. pc' = [pc EXCEPT ![t] = "memory"] /\ call' = [call EXCEPT ![t] = c]
  BY DEF Start, Goto, c
<1>4. pc' \in [Thread -> ProgramPoint] /\ call' \in [Thread -> Calls \union {None}] /\ Points'
  <2>1. "memory" \in ProgramPoint /\ "memory" # "promoting" /\ "memory" \notin {"appending", "appended"}
    BY DEF ProgramPoint
  <2> QED BY <1>2, <1>3, <2>1, Moved
<1>5. stored' = Append(stored, new) \/ stored' = stored
  BY DEF Start, new
<1>6. stored' \in Seq([key : Key, older : SUBSET Nat]) /\ Len(stored') \in Nat /\ Len(stored) <= Len(stored')
  <2> DEFINE S == [key : Key, older : SUBSET Nat]
  <2>1. stored \in Seq(S) /\ new \in S
    BY <1>1, <1>2
  <2> HIDE DEF S
  <2>2. stored' \in Seq(S) /\ Len(stored') \in Nat /\ Len(stored) <= Len(stored')
    BY <1>5, <2>1
  <2> QED BY <2>2 DEF S
<1>7. ended' = ended /\ ended' \subseteq 1..Len(stored')
  BY <1>1, <1>6 DEF Start, TypeInv
<1>8. [Fresh EXCEPT !.stamp = now, !.known = ended] \in Locals
  BY <1>1 DEF Fresh, Locals, TypeInv
<1>9. local' \in [Thread -> Locals] /\ answer' \in [Thread -> Nat \union {None}]
  BY <1>8 DEF Start, TypeInv
<1>10. UNCHANGED <<now, tears, file, torn, memory, index>>
  BY DEF Start, storeVars
<1> QED BY <1>4, <1>6, <1>7, <1>9, <1>10 DEF TypeInv

LEMMA MemoryGetTypes ==
  ASSUME TypeInv, Points, NEW t \in Thread, MemoryGet(t)
  PROVE  TypeInv' /\ Points'
<1>1. UNCHANGED <<now, tears, file, torn, index, call, stored, ended, raced>> /\ pc[t] = "memory"
      /\ pc[t] # "idle"
  BY DEF MemoryGet, history
<1>2. Owner[t] \in Process /\ call[t].key \in Key
  BY <1>1, CacheConstants DEF Points, Calls
<1> DEFINE p == Owner[t]
           k == call[t].key
           back == Others(p, k) \o Cached(p, k)
<1>3. \/ /\ memory' = [memory EXCEPT ![p] = back] /\ back # <<>> /\ Cached(p, k) # <<>>
         /\ Return(t, Head(Cached(p, k)).val)
      \/ /\ memory' = [memory EXCEPT ![p] = Others(p, k)]
         /\ Goto(t, "disk") /\ Reach(t) /\ UNCHANGED answer
  <2>1. PICK ts \in Times(t) :
          \/ /\ InMemory(p, k, ts)
             /\ memory' = [memory EXCEPT ![p] = back]
             /\ Return(t, Head(Cached(p, k)).val)
          \/ /\ ~InMemory(p, k, ts)
             /\ memory' = [memory EXCEPT ![p] = Others(p, k)]
             /\ Goto(t, "disk") /\ Reach(t) /\ UNCHANGED answer
    BY DEF MemoryGet
  <2>2. InMemory(p, k, ts) => \E e \in Entries(memory[p]) : e.key = k
    BY DEF InMemory, Entries
  <2>3. InMemory(p, k, ts) => Cached(p, k) # <<>>
    BY <1>2, <2>2, MemoryTaken
  <2>4. Cached(p, k) # <<>> => back # <<>>
    <3>1. Others(p, k) \in Seq(Lines) /\ Cached(p, k) \in Seq(Lines)
      BY <1>2, MemoryTaken
    <3> DEFINE a == Others(p, k)
               b == Cached(p, k)
    <3> HIDE DEF a, b
    <3>2. a \in Seq(Lines) /\ b \in Seq(Lines)
      BY <3>1 DEF a, b
    <3>3. b # <<>> => a \o b # <<>>
      BY <3>2
    <3> QED BY <3>3 DEF a, b
  <2> QED BY <2>1, <2>3, <2>4
<1>4. back \in Seq(Lines) /\ Others(p, k) \in Seq(Lines) /\ Cached(p, k) \in Seq(Lines)
  BY <1>2, MemoryTaken
<1>5. Cached(p, k) # <<>> => Head(Cached(p, k)).val \in Nat
  <2> DEFINE b == Cached(p, k)
  <2>1. b \in Seq(Lines)
    BY <1>4
  <2> HIDE DEF b
  <2>2. b # <<>> => Head(b) \in Lines
    BY <2>1
  <2>3. b # <<>> => Head(b).val \in Nat
    BY <2>2 DEF Lines
  <2> QED BY <2>3 DEF b
<1> HIDE DEF back
<1>6. memory' \in [Process -> Seq(Lines)]
  BY <1>2, <1>3, <1>4 DEF TypeInv
<1>7. CASE Return(t, Head(Cached(p, k)).val) /\ Cached(p, k) # <<>>
  <2> DEFINE v == Head(Cached(p, k)).val
  <2>1. v \in Nat \union {None} /\ Return(t, v)
    BY <1>5, <1>7
  <2> HIDE DEF v
  <2>2. /\ pc' = [pc EXCEPT ![t] = "idle"]
        /\ local' \in [Thread -> Locals] /\ answer' \in [Thread -> Nat \union {None}]
    BY <2>1, Returned
  <2>3. pc' \in [Thread -> ProgramPoint] /\ Points'
    BY <1>1, <2>2, Stayed DEF ProgramPoint
  <2> QED BY <1>1, <1>6, <2>2, <2>3 DEF TypeInv
<1>8. CASE Goto(t, "disk") /\ Reach(t) /\ UNCHANGED answer
  <2>1. pc' = [pc EXCEPT ![t] = "disk"] /\ local' \in [Thread -> Locals]
    BY <1>8, Reached DEF Goto
  <2>2. pc' \in [Thread -> ProgramPoint] /\ Points'
    BY <1>1, <2>1, Stayed DEF ProgramPoint
  <2> QED BY <1>1, <1>6, <1>8, <2>1, <2>2 DEF TypeInv
<1> QED BY <1>3, <1>7, <1>8

LEMMA DiskGetTypes ==
  ASSUME TypeInv, Points, NEW t \in Thread, DiskGet(t)
  PROVE  TypeInv' /\ Points'
<1>1. UNCHANGED <<now, tears, file, torn, memory, stored, ended, raced>> /\ pc[t] # "idle" /\ call[t].name = "get"
  BY DEF DiskGet, history
<1>2. Owner[t] \in Process /\ call[t] \in Calls /\ call[t].key \in Key /\ index[Owner[t]] \in [Key -> Slots \union {None}]
  BY <1>1, CacheConstants DEF Points, Calls, TypeInv
<1> DEFINE e == index[Owner[t]][call[t].key]
           found == LineValue(e)
<1>3. \/ /\ found # None /\ e # None
         /\ call' = [call EXCEPT ![t].val = found]
         /\ Goto(t, "promoting") /\ Reach(t) /\ UNCHANGED <<index, answer>>
      \/ /\ index' = index \/ index' = [index EXCEPT ![Owner[t]][call[t].key] = None]
         /\ Return(t, None) /\ UNCHANGED call
  <2>1. PICK ts \in Times(t) :
          \/ /\ InTime(e, L2Ttl, ts) /\ LineValue(e) # None
             /\ call' = [call EXCEPT ![t].val = LineValue(e)]
             /\ Goto(t, "promoting")
             /\ Reach(t)
             /\ UNCHANGED <<index, answer>>
          \/ /\ ~(InTime(e, L2Ttl, ts) /\ LineValue(e) # None)
             /\ index' = IF InTime(e, L2Ttl, ts) THEN index
                          ELSE [index EXCEPT ![Owner[t]][call[t].key] = None]
             /\ Return(t, None)
             /\ UNCHANGED call
    BY DEF DiskGet
  <2> QED BY <2>1 DEF InTime
<1>4. CASE /\ found # None /\ e # None
           /\ call' = [call EXCEPT ![t].val = found]
           /\ Goto(t, "promoting") /\ Reach(t) /\ UNCHANGED <<index, answer>>
  <2>1. found \in Nat
    <3>1. e \in Slots
      BY <1>2, <1>4
    <3> HIDE DEF e
    <3>2. e.line \in Nat \ {0}
      BY <3>1 DEF Slots
    <3>3. e.line <= Len(file) /\ file[e.line] # Broken /\ found = file[e.line].val
      BY <1>4 DEF LineValue
    <3>4. file \in Seq(Lines \union {Broken}) /\ e.line \in 1..Len(file)
      BY <3>2, <3>3 DEF TypeInv
    <3>5. file[e.line] \in Lines
      BY <3>3, <3>4
    <3> QED BY <3>3, <3>5 DEF Lines
  <2> DEFINE c == [call[t] EXCEPT !.val = found]
  <2>2. c \in Calls /\ c.name = "get"
    <3> HIDE DEF found
    <3> QED BY <1>1, <1>2, <2>1 DEF Calls
  <2> HIDE DEF found
  <2>3. call' = [call EXCEPT ![t] = c] /\ pc' = [pc EXCEPT ![t] = "promoting"]
    BY <1>4 DEF Goto, TypeInv
  <2> HIDE DEF c
  <2>4. pc' \in [Thread -> ProgramPoint] /\ call' \in [Thread -> Calls \union {None}] /\ Points'
    BY <2>2, <2>3, Moved DEF ProgramPoint
  <2>5. local' \in [Thread -> Locals]
    BY <1>4, Reached
  <2> QED BY <1>1, <1>4, <2>4, <2>5 DEF TypeInv
<1>5. CASE /\ index' = index \/ index' = [index EXCEPT ![Owner[t]][call[t].key] = None]
           /\ Return(t, None) /\ UNCHANGED call
  <2>1. /\ pc' = [pc EXCEPT ![t] = "idle"]
        /\ local' \in [Thread -> Locals] /\ answer' \in [Thread -> Nat \union {None}]
    BY <1>5, Returned
  <2>2. pc' \in [Thread -> ProgramPoint] /\ Points'
    BY <1>1, <1>5, <2>1, Stayed DEF ProgramPoint
  <2>3. index' \in [Process -> [Key -> Slots \union {None}]]
    <3>1. None \in Slots \union {None} /\ Owner[t] \in Process /\ call[t].key \in Key
      BY <1>2
    <3>2. [index EXCEPT ![Owner[t]][call[t].key] = None] \in [Process -> [Key -> Slots \union {None}]]
      BY <3>1, IndexSet
    <3>3. index \in [Process -> [Key -> Slots \union {None}]]
      BY DEF TypeInv
    <3> QED BY <1>5, <3>2, <3>3
  <2> QED BY <1>1, <1>5, <2>1, <2>2, <2>3 DEF TypeInv
<1> QED BY <1>3, <1>4, <1>5

LEMMA StoreTypes ==
  ASSUME TypeInv, Points, NEW t \in Thread, Promote(t) \/ MemorySet(t)
  PROVE  TypeInv' /\ Points'
<1>1. UNCHANGED <<now, tears, file, torn, index, stored, ended, call>> /\ pc[t] # "idle"
  BY DEF Promote, MemorySet, history
<1>2. Owner[t] \in Process /\ call[t].key \in Key /\ call[t].val \in Nat
  BY <1>1, CacheConstants DEF Points, Calls
<1>3. PICK ts \in Times(t) :
        memory' = [memory EXCEPT ![Owner[t]] = Put(Owner[t], call[t].key, call[t].val, ts)]
  BY DEF Promote, MemorySet
<1>4. Put(Owner[t], call[t].key, call[t].val, ts) \in Seq(Lines)
  <2>1. ts \in Nat
    BY TimesAreTimes
  <2> QED BY <1>2, <2>1, MemoryPut
<1>5. memory' \in [Process -> Seq(Lines)]
  BY <1>2, <1>3, <1>4 DEF TypeInv
<1>6. CASE Promote(t)
  <2>1. Return(t, call[t].val) /\ call[t].val \in Nat \union {None}
    BY <1>2, <1>6 DEF Promote
  <2>2. /\ pc' = [pc EXCEPT ![t] = "idle"]
        /\ local' \in [Thread -> Locals] /\ answer' \in [Thread -> Nat \union {None}]
    BY <2>1, Returned
  <2>3. pc' \in [Thread -> ProgramPoint] /\ Points'
    BY <1>1, <2>2, Stayed DEF ProgramPoint
  <2> QED BY <1>1, <1>5, <2>2, <2>3 DEF TypeInv
<1>7. CASE MemorySet(t)
  <2>1. pc' = [pc EXCEPT ![t] = "disk"] /\ local' \in [Thread -> Locals] /\ answer' = answer
    BY <1>7, Reached DEF Goto, MemorySet
  <2>2. pc' \in [Thread -> ProgramPoint] /\ Points'
    BY <1>1, <2>1, Stayed DEF ProgramPoint
  <2> QED BY <1>1, <1>5, <2>1, <2>2 DEF TypeInv
<1> QED BY <1>6, <1>7

LEMMA CountTypes ==
  ASSUME TypeInv, Points, NEW t \in Thread, Count(t)
  PROVE  TypeInv' /\ Points'
<1>1. UNCHANGED <<now, tears, file, torn, memory, index, stored, ended, call, answer>>
      /\ pc[t] # "idle" /\ call[t].name = "set"
  BY DEF Count, history, storeVars
<1>2. PICK ts \in Times(t) : local' = [local EXCEPT ![t].line = Len(file), ![t].ts = ts]
  BY DEF Count
<1>3. Len(file) \in Nat /\ ts \in Nat /\ local[t] \in Locals
  BY TimesAreTimes DEF TypeInv
<1> DEFINE n == Len(file)
           new == [local[t] EXCEPT !.line = n, !.ts = ts]
<1> HIDE DEF n
<1>4. new \in Locals
  BY <1>3 DEF Locals, n
<1> HIDE DEF new
<1>5. local' = [local EXCEPT ![t] = new]
  BY <1>2 DEF new, n, TypeInv
<1>6. local' \in [Thread -> Locals]
  BY <1>4, <1>5 DEF TypeInv
<1>7. pc' = [pc EXCEPT ![t] = "appending"]
  BY DEF Count, Goto
<1>8. pc' \in [Thread -> ProgramPoint] /\ Points'
  BY <1>1, <1>7, Stayed DEF ProgramPoint
<1> QED BY <1>1, <1>6, <1>8 DEF TypeInv

LEMMA WriteTypes ==
  ASSUME TypeInv, Points, NEW t \in Thread, Write(t)
  PROVE  TypeInv' /\ Points'
<1>1. UNCHANGED <<now, tears, memory, index, stored, ended, call, answer, local>>
      /\ pc[t] = "appending" /\ pc[t] # "idle" /\ file' = Written(EntryOf(t)) /\ ~torn'
  BY DEF Write, history
<1>2. call[t].name = "set" /\ EntryOf(t) \in Lines \union {Broken}
  BY <1>1, EntryIsLine DEF Points, Writing
<1>3. file' \in Seq(Lines \union {Broken})
  BY <1>1, <1>2, LinesWritten
<1>4. pc' = [pc EXCEPT ![t] = "appended"]
  BY DEF Write, Goto
<1>5. pc' \in [Thread -> ProgramPoint] /\ Points'
  BY <1>1, <1>2, <1>4, Stayed DEF ProgramPoint
<1> QED BY <1>1, <1>3, <1>5 DEF TypeInv

LEMMA EnterTypes ==
  ASSUME TypeInv, Points, NEW t \in Thread, Enter(t), call[t].val \in 1..Len(stored)
  PROVE  TypeInv' /\ Points'
<1>1. UNCHANGED <<now, tears, file, torn, memory, stored, call>>
      /\ pc[t] # "idle" /\ ended' = ended \cup {call[t].val} /\ Return(t, None)
  BY DEF Enter, history, Trimmed
<1> DEFINE p == Owner[t]
           k == call[t].key
           slot == [line |-> NewLine(t), ts |-> local[t].ts]
           new == [index EXCEPT ![p][k] = slot]
           ix == [index[p] EXCEPT ![k] = slot]
<1>2. p \in Process /\ k \in Key
  BY <1>1, CacheConstants DEF Points, Calls
<1>3. slot \in Slots
  <2>1. local[t].line + 1 \in Nat \ {0} /\ local[t].ts \in Nat
    BY DEF TypeInv, Locals
  <2> QED BY <2>1 DEF Slots, NewLine
<1>4. index' = [index EXCEPT ![p] = ix] \/ index' = [index EXCEPT ![p] = Rebuilt(file)]
  BY DEF Enter
<1>5. ix \in [Key -> Slots \union {None}]
  <2> HIDE DEF slot
  <2> QED BY <1>2, <1>3 DEF TypeInv
<1>6. Rebuilt(file) \in [Key -> Slots \union {None}]
  BY RebuiltIndex DEF TypeInv
<1> HIDE DEF ix
<1>7. index' \in [Process -> [Key -> Slots \union {None}]]
  BY <1>2, <1>4, <1>5, <1>6 DEF TypeInv
<1>8. ended' \subseteq 1..Len(stored')
  BY <1>1 DEF TypeInv
<1>9. /\ pc' = [pc EXCEPT ![t] = "idle"]
      /\ local' \in [Thread -> Locals] /\ answer' \in [Thread -> Nat \union {None}]
  BY <1>1, Returned
<1>10. pc' \in [Thread -> ProgramPoint] /\ Points'
  BY <1>1, <1>9, Stayed DEF ProgramPoint
<1> QED BY <1>1, <1>7, <1>8, <1>9, <1>10 DEF TypeInv

LEMMA DropTypes ==
  ASSUME TypeInv, Points, NEW t \in Thread, MemoryDrop(t) \/ DiskDrop(t)
  PROVE  TypeInv' /\ Points'
<1>1. UNCHANGED <<now, tears, file, torn, stored, ended, call>> /\ pc[t] # "idle"
  BY DEF MemoryDrop, DiskDrop, history
<1>2. Owner[t] \in Process /\ call[t].key \in Key
  BY <1>1, CacheConstants DEF Points, Calls
<1>3. CASE MemoryDrop(t)
  <2>1. Others(Owner[t], call[t].key) \in Seq(Lines)
    BY <1>2, MemoryTaken
  <2>2. memory' \in [Process -> Seq(Lines)] /\ UNCHANGED <<index, answer, local>>
    BY <1>2, <1>3, <2>1 DEF TypeInv, MemoryDrop
  <2>3. pc' = [pc EXCEPT ![t] = "disk"]
    BY <1>3 DEF Goto, MemoryDrop
  <2>4. pc' \in [Thread -> ProgramPoint] /\ Points'
    BY <1>1, <2>3, Stayed DEF ProgramPoint
  <2> QED BY <1>1, <2>2, <2>4 DEF TypeInv
<1>4. CASE DiskDrop(t)
  <2>1. None \in Slots \union {None} /\ index' = [index EXCEPT ![Owner[t]][call[t].key] = None]
        /\ memory' = memory /\ Return(t, None)
    BY <1>4 DEF DiskDrop
  <2>2. index' \in [Process -> [Key -> Slots \union {None}]]
    BY <1>2, <2>1, IndexSet
  <2>3. /\ pc' = [pc EXCEPT ![t] = "idle"]
        /\ local' \in [Thread -> Locals] /\ answer' \in [Thread -> Nat \union {None}]
    BY <2>1, Returned
  <2>4. pc' \in [Thread -> ProgramPoint] /\ Points'
    BY <1>1, <2>3, Stayed DEF ProgramPoint
  <2> QED BY <1>1, <2>1, <2>2, <2>3, <2>4 DEF TypeInv
<1> QED BY <1>3, <1>4

LEMMA WriteFailsTypes ==
  ASSUME TypeInv, Points, NEW t \in Thread, WriteFails(t)
  PROVE  TypeInv' /\ Points'
<1>1. UNCHANGED <<now, memory, index, stored, ended, call>>
      /\ pc[t] # "idle" /\ Return(t, None) /\ tears' = tears + 1
  BY DEF WriteFails, history
<1>2. PICK l \in {Broken, EntryOf(t)} : file' = Written(l)
  BY DEF WriteFails
<1>3. file' \in Seq(Lines \union {Broken}) /\ file' # <<>>
  BY <1>1, <1>2, EntryIsLine, LinesWritten
<1>4. /\ pc' = [pc EXCEPT ![t] = "idle"]
      /\ local' \in [Thread -> Locals] /\ answer' \in [Thread -> Nat \union {None}]
  BY <1>1, Returned
<1>5. pc' \in [Thread -> ProgramPoint] /\ Points'
  BY <1>1, <1>4, Stayed DEF ProgramPoint
<1> QED BY <1>1, <1>3, <1>4, <1>5 DEF TypeInv

LEMMA CrashTypes ==
  ASSUME TypeInv, Points, NEW p \in Process, Crash(p)
  PROVE  TypeInv' /\ Points'
<1>1. UNCHANGED <<now, stored, ended, call>>
  BY DEF Crash, history
<1>2. \/ UNCHANGED <<file, torn, tears>>
      \/ \E t \in Thread : \E l \in {Broken, EntryOf(t)} :
           pc[t] = "appending" /\ file' = Written(l) /\ tears' = tears + 1
  BY DEF Crash
<1>3. file' \in Seq(Lines \union {Broken}) /\ (torn' => file' # <<>>) /\ tears' \in Nat
  <2>1. ASSUME NEW t \in Thread, NEW l \in {Broken, EntryOf(t)}, pc[t] = "appending",
               file' = Written(l), tears' = tears + 1
        PROVE  file' \in Seq(Lines \union {Broken}) /\ file' # <<>> /\ tears' \in Nat
    <3>1. EntryOf(t) \in Lines
      BY <2>1, EntryIsLine
    <3>2. file' \in Seq(Lines \union {Broken}) /\ file' # <<>>
      BY <2>1, <3>1, LinesWritten
    <3> QED BY <2>1, <3>2 DEF TypeInv
  <2>2. CASE UNCHANGED <<file, torn, tears>>
    BY <2>2 DEF TypeInv
  <2> QED BY <1>2, <2>1, <2>2
<1>4. memory' \in [Process -> Seq(Lines)]
  BY DEF Crash, TypeInv
<1>5. index' \in [Process -> [Key -> Slots \union {None}]]
  <2>1. Rebuilt(file') \in [Key -> Slots \union {None}]
    BY <1>3, RebuiltIndex
  <2>2. index' = [index EXCEPT ![p] = Rebuilt(file')]
    BY DEF Crash
  <2> QED BY <2>1, <2>2 DEF TypeInv
<1>6. Fresh \in Locals
  BY DEF Fresh, Locals
<1>7. /\ pc' = [t \in Thread |-> IF Owner[t] = p THEN "idle" ELSE pc[t]]
      /\ answer' = [t \in Thread |-> IF Owner[t] = p THEN None ELSE answer[t]]
      /\ local' = [t \in Thread |-> IF Owner[t] = p THEN Fresh ELSE local[t]]
  BY DEF Crash
<1>8. pc' \in [Thread -> ProgramPoint]
  BY <1>7 DEF TypeInv, ProgramPoint
<1>9. answer' \in [Thread -> Nat \union {None}] /\ local' \in [Thread -> Locals]
  BY <1>6, <1>7 DEF TypeInv
<1>10. Points'
  BY <1>1, <1>7 DEF Points, Writing
<1> QED BY <1>1, <1>3, <1>4, <1>5, <1>8, <1>9, <1>10 DEF TypeInv

-----------------------------------------------------------------------------
\* Sets under way are told apart by their numbers, every line was written by a
\* set, and what a set found ended has ended.
Numbered ==
  /\ \A t \in Thread : Storing(t) =>
       /\ call[t].val \in 1..Len(stored) /\ call[t].val \notin ended
       /\ stored[call[t].val].key = call[t].key
  /\ \A t, u \in Thread : Storing(t) /\ Storing(u) /\ call[t].val = call[u].val => t = u
  /\ \A i \in 1..Len(file) : file[i] # Broken => file[i].val \in 1..Len(stored)
  /\ \A v \in 1..Len(stored) : stored[v].older \subseteq ended

\* Every step but the start of a call.
Works ==
  \/ \E t \in Thread :
       \/ MemoryGet(t) \/ DiskGet(t) \/ Promote(t)
       \/ MemorySet(t) \/ Count(t) \/ Write(t) \/ Enter(t)
       \/ MemoryDrop(t) \/ DiskDrop(t)
       \/ WriteFails(t)
  \/ \E p \in Process : Crash(p)
  \/ Tick
  \/ UNCHANGED vars

Starts == \E t \in Thread, k \in Key, name \in {"get", "set", "invalidate"} : Start(t, name, k)

LEMMA StepKinds == [Next]_vars => Works \/ Starts
BY DEF Next, Works, Starts

\* A set under way stays the set it is.
LEMMA StoringSteps ==
  ASSUME TypeInv, Points, Works
  PROVE  /\ stored' = stored
         /\ \A t \in Thread : Storing(t)' => Storing(t) /\ call'[t] = call[t]
<1> DEFINE Goal == /\ stored' = stored
                   /\ \A t \in Thread : Storing(t)' => Storing(t) /\ call'[t] = call[t]
<1>1. ASSUME NEW t \in Thread, NEW l, pc' = [pc EXCEPT ![t] = l], pc[t] # "idle", call' = call, stored' = stored
      PROVE  Goal
  BY <1>1 DEF Storing, TypeInv
<1>2. ASSUME NEW t \in Thread, MemoryGet(t) \/ Promote(t) \/ MemorySet(t) \/ Count(t) \/ Write(t) \/ Enter(t)
                               \/ MemoryDrop(t) \/ DiskDrop(t) \/ WriteFails(t)
      PROVE  Goal
  <2>1. pc[t] # "idle" /\ call' = call /\ stored' = stored /\ \E l : pc' = [pc EXCEPT ![t] = l]
    BY <1>2 DEF MemoryGet, Promote, MemorySet, Count, Write, Enter, MemoryDrop, DiskDrop, WriteFails,
                history, Return, Goto
  <2> QED BY <1>1, <2>1
<1>3. ASSUME NEW t \in Thread, DiskGet(t) PROVE Goal
  <2>1. pc[t] # "idle" /\ stored' = stored /\ call[t].name = "get" /\ call[t] \in Calls
        /\ (call' = call \/ \E v : call' = [call EXCEPT ![t].val = v])
        /\ \E l : pc' = [pc EXCEPT ![t] = l]
    BY <1>3 DEF DiskGet, history, Return, Goto, Points
  <2>2. call'[t].name = "get" /\ \A u \in Thread \ {t} : call'[u] = call[u] /\ pc'[u] = pc[u]
    BY <2>1 DEF TypeInv, Calls
  <2> QED BY <2>1, <2>2 DEF Storing
<1>4. ASSUME NEW p \in Process, Crash(p) PROVE Goal
  BY <1>4 DEF Crash, history, Storing
<1>5. CASE Tick \/ UNCHANGED vars
  BY <1>5 DEF Tick, vars, history, Storing
<1> QED BY <1>2, <1>3, <1>4, <1>5 DEF Works

\* What a step may do to the file.
LEMMA FileSteps ==
  ASSUME TypeInv, Works
  PROVE  \/ UNCHANGED <<file, torn, tears>>
         \/ \E t \in Thread : Write(t)
         \/ /\ tears' = tears + 1 /\ torn'
            /\ ended' = ended
            /\ \E t \in Thread : /\ pc[t] = "appending" /\ pc'[t] = "idle"
                                 /\ \E l \in {Broken, EntryOf(t)} : file' = Written(l)
<1> DEFINE Goal == \/ UNCHANGED <<file, torn, tears>>
                   \/ \E t \in Thread : Write(t)
                   \/ /\ tears' = tears + 1 /\ torn'
                      /\ ended' = ended
                      /\ \E t \in Thread : /\ pc[t] = "appending" /\ pc'[t] = "idle"
                                           /\ \E l \in {Broken, EntryOf(t)} : file' = Written(l)
<1>1. ASSUME NEW t \in Thread, MemoryGet(t) \/ DiskGet(t) \/ Promote(t) \/ MemorySet(t) \/ Count(t) \/ Enter(t)
                               \/ MemoryDrop(t) \/ DiskDrop(t)
      PROVE  Goal
  BY <1>1 DEF MemoryGet, DiskGet, Promote, MemorySet, Count, Enter, MemoryDrop, DiskDrop, storeVars, Trimmed
<1>2. ASSUME NEW t \in Thread, Write(t) PROVE Goal
  BY <1>2
<1>3. ASSUME NEW t \in Thread, WriteFails(t) PROVE Goal
  BY <1>3 DEF WriteFails, history, Return, Goto, TypeInv
<1>4. ASSUME NEW p \in Process, Crash(p) PROVE Goal
  BY <1>4 DEF Crash, history
<1>5. CASE Tick \/ UNCHANGED vars
  BY <1>5 DEF Tick, vars, storeVars
<1> QED BY <1>1, <1>2, <1>3, <1>4, <1>5 DEF Works

LEMMA EndedSteps ==
  ASSUME TypeInv, Points, Works
  PROVE  \/ ended' = ended
         \/ \E t \in Thread : /\ Storing(t) /\ ~Storing(t)' /\ pc[t] = "appended"
                              /\ ended' = ended \cup {call[t].val} /\ Enter(t)
<1> DEFINE Goal == \/ ended' = ended
                   \/ \E t \in Thread : /\ Storing(t) /\ ~Storing(t)' /\ pc[t] = "appended"
                                        /\ ended' = ended \cup {call[t].val} /\ Enter(t)
<1>1. ASSUME NEW t \in Thread, Enter(t) PROVE Goal
  <2>1. pc[t] = "appended" /\ ended' = ended \cup {call[t].val} /\ pc' = [pc EXCEPT ![t] = "idle"]
    BY <1>1 DEF Enter, Return, Goto
  <2>2. Storing(t) /\ pc'[t] = "idle"
    BY <2>1 DEF Storing, Points, Writing, TypeInv
  <2> QED BY <1>1, <2>1, <2>2 DEF Storing
<1>2. ASSUME NEW t \in Thread, MemoryGet(t) \/ DiskGet(t) \/ Promote(t) \/ MemorySet(t) \/ Count(t) \/ Write(t)
                               \/ MemoryDrop(t) \/ DiskDrop(t) \/ WriteFails(t)
      PROVE  Goal
  BY <1>2 DEF MemoryGet, DiskGet, Promote, MemorySet, Count, Write, MemoryDrop, DiskDrop, WriteFails, history
<1>3. ASSUME NEW p \in Process, Crash(p) PROVE Goal
  BY <1>3 DEF Crash, history
<1>4. CASE Tick \/ UNCHANGED vars
  BY <1>4 DEF Tick, vars, history
<1> QED BY <1>1, <1>2, <1>3, <1>4 DEF Works

LEMMA LinesOfWorks ==
  ASSUME TypeInv, Points, Works
  PROVE  \A i \in 1..Len(file') :
           \/ file'[i] = Broken
           \/ i \in 1..Len(file) /\ file'[i] = file[i]
           \/ \E t \in Thread : Storing(t) /\ file'[i] = EntryOf(t)
<1> DEFINE Goal(f) == \A i \in 1..Len(f) :
                        \/ f[i] = Broken
                        \/ i \in 1..Len(file) /\ f[i] = file[i]
                        \/ \E t \in Thread : Storing(t) /\ f[i] = EntryOf(t)
<1>1. ASSUME NEW t \in Thread, pc[t] = "appending", NEW l \in {Broken, EntryOf(t)}
      PROVE  Goal(Written(l))
  <2>1. Storing(t) /\ l \in Lines \union {Broken}
    BY <1>1, EntryIsLine DEF Storing, Points, Writing
  <2>2. Len(file) \in Nat
    BY DEF TypeInv
  <2>3. torn => /\ Len(Written(l)) = Len(file) /\ Written(l)[Len(file)] = Broken
                /\ \A i \in 1..Len(file) : i # Len(file) => Written(l)[i] = file[i]
    BY <2>1, LinesWritten
  <2>4. ~torn => /\ Len(Written(l)) = Len(file) + 1
                 /\ Written(l)[Len(file) + 1] = l
                 /\ \A i \in 1..Len(file) : Written(l)[i] = file[i]
    BY <2>1, LinesWritten
  <2> DEFINE w == Written(l)
             n == Len(file)
  <2> HIDE DEF w, n
  <2>5. CASE torn
    <3>1. Len(w) = n /\ w[n] = Broken /\ \A i \in 1..n : i # n => w[i] = file[i]
      BY <2>3, <2>5 DEF w, n
    <3>2. Goal(w)
      BY <3>1 DEF n
    <3> QED BY <3>2 DEF w
  <2>6. CASE ~torn
    <3>1. Len(w) = n + 1 /\ w[n + 1] = l /\ n \in Nat /\ \A i \in 1..n : w[i] = file[i]
      BY <2>2, <2>4, <2>6 DEF w, n
    <3>2. ASSUME NEW i \in 1..Len(w) PROVE i \in 1..n \/ i = n + 1
      BY <3>1
    <3>3. Goal(w)
      BY <1>1, <2>1, <3>1, <3>2 DEF n
    <3> QED BY <3>3 DEF w
  <2> QED BY <2>5, <2>6
<1>2. \/ file' = file
      \/ \E t \in Thread : pc[t] = "appending" /\ \E l \in {Broken, EntryOf(t)} : file' = Written(l)
  BY FileSteps DEF Write
<1>3. Goal(file)
  OBVIOUS
<1> HIDE DEF Goal
<1>4. Goal(file')
  BY <1>1, <1>2, <1>3
<1> QED BY <1>4 DEF Goal

LEMMA NumberedWorks ==
  ASSUME TypeInv, Points, Numbered, Works
  PROVE  Numbered'
<1>1. stored' = stored /\ \A t \in Thread : Storing(t)' => Storing(t) /\ call'[t] = call[t]
  BY StoringSteps
<1>2. \/ ended' = ended
      \/ \E t \in Thread : Storing(t) /\ ~Storing(t)' /\ ended' = ended \cup {call[t].val}
  BY EndedSteps
<1>3. \A t \in Thread : Storing(t)' =>
        /\ call'[t].val \in 1..Len(stored) /\ call'[t].val \notin ended'
        /\ stored'[call'[t].val].key = call'[t].key
  BY <1>1, <1>2 DEF Numbered
<1>4. \A t, u \in Thread : Storing(t)' /\ Storing(u)' /\ call'[t].val = call'[u].val => t = u
  BY <1>1 DEF Numbered
<1>5. \A i \in 1..Len(file') : file'[i] # Broken => file'[i].val \in 1..Len(stored)
  <2>1. \A t \in Thread : Storing(t) => EntryOf(t).val \in 1..Len(stored)
    BY DEF EntryOf, Numbered
  <2> QED BY <2>1, LinesOfWorks DEF Numbered
<1>6. \A v \in 1..Len(stored) : stored'[v].older \subseteq ended'
  BY <1>1, <1>2 DEF Numbered
<1> QED BY <1>1, <1>3, <1>4, <1>5, <1>6 DEF Numbered

\* A set takes the next number.
LEMMA Numbering ==
  ASSUME TypeInv, NEW t \in Thread, NEW k \in Key, NEW name \in {"get", "set", "invalidate"}, Start(t, name, k)
  PROVE  /\ UNCHANGED <<file, torn, tears, memory, index, ended>>
         /\ pc[t] = "idle" /\ pc' = [pc EXCEPT ![t] = "memory"]
         /\ \A u \in Thread \ {t} : pc'[u] = pc[u] /\ call'[u] = call[u] /\ answer'[u] = answer[u] /\ local'[u] = local[u]
         /\ call'[t].name = name /\ call'[t].key = k /\ answer'[t] = None /\ local'[t].known = ended
         /\ name = "set" => /\ call'[t].val = Len(stored) + 1 /\ Len(stored') = Len(stored) + 1
                            /\ stored'[Len(stored) + 1].key = k /\ stored'[Len(stored) + 1].older = ended
         /\ name # "set" => stored' = stored
         /\ Len(stored) \in Nat /\ Len(stored') \in Nat /\ Len(stored) <= Len(stored')
         /\ \A v \in 1..Len(stored) : v \in 1..Len(stored') /\ stored'[v] = stored[v]
<1> DEFINE new == [key |-> k, older |-> ended]
           n == Len(stored)
           S == [key : Key, older : SUBSET Nat]
<1>1. UNCHANGED <<file, torn, tears, memory, index, ended>> /\ pc[t] = "idle" /\ pc' = [pc EXCEPT ![t] = "memory"]
      /\ call' = [call EXCEPT ![t] =
           [name |-> name, key |-> k, val |-> IF name = "set" THEN n + 1 ELSE 0]]
      /\ answer' = [answer EXCEPT ![t] = None]
      /\ local' = [local EXCEPT ![t] = [Fresh EXCEPT !.stamp = now, !.known = ended]]
  BY DEF Start, storeVars, Goto
<1>2. stored' = IF name = "set" THEN Append(stored, new) ELSE stored
  BY DEF Start
<1>3. stored \in Seq(S) /\ new \in S /\ new.key = k /\ new.older = ended
  BY DEF TypeInv
<1> HIDE DEF new, S
<1>4. n \in Nat
  BY <1>3
<1>5. CASE name = "set"
  <2>1. stored' = Append(stored, new)
    BY <1>2, <1>5
  <2>2. Len(stored') = n + 1 /\ stored'[n + 1] = new /\ \A v \in 1..n : v \in 1..Len(stored') /\ stored'[v] = stored[v]
    BY <1>3, <2>1
  <2>3. stored'[n + 1].key = k /\ stored'[n + 1].older = ended /\ Len(stored') \in Nat /\ n <= Len(stored')
    BY <1>3, <1>4, <2>2
  <2> HIDE DEF n
  <2>4. call'[t].name = name /\ call'[t].key = k /\ call'[t].val = n + 1 /\ \A u \in Thread \ {t} : call'[u] = call[u]
    BY <1>1, <1>5 DEF TypeInv
  <2>5. answer'[t] = None /\ local'[t].known = ended
        /\ \A u \in Thread \ {t} : pc'[u] = pc[u] /\ answer'[u] = answer[u] /\ local'[u] = local[u]
    BY <1>1 DEF TypeInv, Fresh
  <2> QED BY <1>1, <1>4, <1>5, <2>2, <2>3, <2>4, <2>5 DEF n
<1>6. CASE name # "set"
  <2>1. stored' = stored
    BY <1>2, <1>6
  <2>2. call'[t].name = name /\ call'[t].key = k /\ \A u \in Thread \ {t} : call'[u] = call[u]
    BY <1>1 DEF TypeInv
  <2>3. answer'[t] = None /\ local'[t].known = ended
        /\ \A u \in Thread \ {t} : pc'[u] = pc[u] /\ answer'[u] = answer[u] /\ local'[u] = local[u]
    BY <1>1 DEF TypeInv, Fresh
  <2> QED BY <1>1, <1>4, <1>6, <2>1, <2>2, <2>3
<1> QED BY <1>5, <1>6

LEMMA NumberedStarts ==
  ASSUME TypeInv, Points, Numbered, Starts
  PROVE  Numbered'
<1>1. PICK t \in Thread, k \in Key, name \in {"get", "set", "invalidate"} : Start(t, name, k)
  BY DEF Starts
<1> DEFINE n == Len(stored)
<1>2. /\ UNCHANGED <<file, ended>> /\ pc' = [pc EXCEPT ![t] = "memory"]
      /\ \A u \in Thread \ {t} : pc'[u] = pc[u] /\ call'[u] = call[u]
      /\ call'[t].name = name /\ call'[t].key = k
      /\ name = "set" => /\ call'[t].val = n + 1 /\ Len(stored') = n + 1
                         /\ stored'[n + 1].key = k /\ stored'[n + 1].older = ended
      /\ name # "set" => stored' = stored
      /\ n \in Nat /\ Len(stored') \in Nat /\ n <= Len(stored')
      /\ \A v \in 1..n : v \in 1..Len(stored') /\ stored'[v] = stored[v]
  BY <1>1, Numbering
<1>3. ended \subseteq 1..n
  BY DEF TypeInv
<1>4. /\ \A u \in Thread \ {t} : Storing(u)' <=> Storing(u)
      /\ Storing(t)' => name = "set"
  BY <1>2 DEF Storing
<1>5. \A u \in Thread : Storing(u) => call[u].val \in 1..n /\ call[u].val \notin ended /\ stored[call[u].val].key = call[u].key
  BY DEF Numbered
<1> HIDE DEF n
<1>6. n + 1 \notin 1..n /\ n + 1 \notin ended
  BY <1>2, <1>3
<1>7. \A u \in Thread : Storing(u)' =>
        /\ call'[u].val \in 1..Len(stored') /\ call'[u].val \notin ended'
        /\ stored'[call'[u].val].key = call'[u].key
  <2>1. ASSUME NEW u \in Thread \ {t}, Storing(u)'
        PROVE  /\ call'[u].val \in 1..Len(stored') /\ call'[u].val \notin ended'
               /\ stored'[call'[u].val].key = call'[u].key
    BY <1>2, <1>4, <1>5, <2>1
  <2>2. Storing(t)' => /\ call'[t].val \in 1..Len(stored') /\ call'[t].val \notin ended'
                       /\ stored'[call'[t].val].key = call'[t].key
    BY <1>2, <1>4, <1>6
  <2> QED BY <2>1, <2>2
<1>8. \A u, w \in Thread : Storing(u)' /\ Storing(w)' /\ call'[u].val = call'[w].val => u = w
  BY <1>2, <1>4, <1>5, <1>6 DEF Numbered
<1>9. \A i \in 1..Len(file') : file'[i] # Broken => file'[i].val \in 1..Len(stored')
  BY <1>2 DEF Numbered, n
<1>10. \A v \in 1..Len(stored') : stored'[v].older \subseteq ended'
  <2>1. \A v \in 1..n : stored[v].older \subseteq ended
    BY DEF Numbered, n
  <2>2. \A v \in 1..Len(stored') : v \in 1..n \/ (name = "set" /\ v = n + 1)
    <3>1. CASE name = "set"
      BY <1>2, <3>1
    <3>2. CASE name # "set"
      BY <1>2, <3>2 DEF n
    <3> QED BY <3>1, <3>2
  <2> QED BY <1>2, <2>1, <2>2
<1> QED BY <1>7, <1>8, <1>9, <1>10 DEF Numbered

-----------------------------------------------------------------------------
\* Written to the file, as far as the program knows; under way or written.
Done(v) == v \in ended \/ \E t \in Thread : pc[t] = "appended" /\ call[t].val = v
Live(v) == v \in ended \/ \E t \in Thread : Storing(t) /\ call[t].val = v

Missing(f, v) == \A i \in 1..Len(f) : f[i] = Broken \/ f[i].val # v
Unread == {v \in 1..Len(stored) : Done(v) /\ Missing(file, v)}

\* Every set that was written and cannot be read is paid for by an unfinished
\* line; the last one, while the newline is missing, is yet to be paid with.
TearInv ==
  /\ Cardinality(Unread) <= tears
  /\ torn => /\ Cardinality(Unread) + 1 <= tears
             /\ \A v : file[Len(file)] # Broken /\ file[Len(file)].val = v => ~Live(v)

LEMMA DoneIsLive ==
  ASSUME Points, NEW v, Done(v)
  PROVE  Live(v)
BY DEF Points, Done, Live, Storing, Writing

LEMMA UnreadCounted ==
  ASSUME TypeInv
  PROVE  /\ IsFiniteSet(Unread) /\ Cardinality(Unread) \in Nat
         /\ \A S : S \subseteq Unread => IsFiniteSet(S) /\ Cardinality(S) \in Nat /\ Cardinality(S) <= Cardinality(Unread)
         /\ \A S, v : S \subseteq Unread \cup {v} =>
              IsFiniteSet(S) /\ Cardinality(S) \in Nat /\ Cardinality(S) <= Cardinality(Unread) + 1
<1>1. \A n \in Nat : IsFiniteSet(1..n)
  BY FS_Interval
<1>2. Len(stored) \in Nat
  BY DEF TypeInv
<1> DEFINE U == Unread
           n == Len(stored)
<1>3. U \in SUBSET (1..n)
  BY DEF Unread
<1> HIDE DEF U, n
<1>4. IsFiniteSet(U)
  BY <1>1, <1>2, <1>3, FS_Subset DEF n
<1>5. Cardinality(U) \in Nat /\ \A S : S \subseteq U => IsFiniteSet(S) /\ Cardinality(S) <= Cardinality(U)
  BY <1>4, FS_Subset, FS_CardinalityType
<1>6. ASSUME NEW S, NEW v, S \subseteq U \cup {v}
      PROVE  IsFiniteSet(S) /\ Cardinality(S) <= Cardinality(U) + 1
  <2> DEFINE W == U \cup {v}
  <2>1. IsFiniteSet(W) /\ Cardinality(W) = IF v \in U THEN Cardinality(U) ELSE Cardinality(U) + 1
    BY <1>4, FS_AddElement
  <2> HIDE DEF W
  <2>2. IsFiniteSet(S) /\ Cardinality(S) <= Cardinality(W) /\ Cardinality(S) \in Nat
    <3>1. S \in SUBSET W
      BY <1>6 DEF W
    <3> QED BY <2>1, <3>1, FS_Subset, FS_CardinalityType
  <2>3. Cardinality(W) <= Cardinality(U) + 1
    BY <1>5, <2>1
  <2> QED BY <1>5, <2>1, <2>2, <2>3
<1>7. \A S : IsFiniteSet(S) => Cardinality(S) \in Nat
  BY FS_CardinalityType
<1> QED BY <1>4, <1>5, <1>6, <1>7 DEF U

\* What a line lost could be read before it was written over: a line that is
\* not finished belongs to no set that ends.
LEMMA WrittenOver ==
  ASSUME TypeInv, Points, TearInv, NEW l \in Lines \union {Broken}, NEW v, Live(v), Missing(Written(l), v)
  PROVE  Missing(file, v)
<1> DEFINE w == Written(l)
           n == Len(file)
<1>1. \A i \in 1..Len(w) : w[i] = Broken \/ w[i].val # v
  BY DEF Missing
<1>2. torn => Len(w) = n /\ \A i \in 1..n : i # n => w[i] = file[i]
  BY LinesWritten
<1>3. ~torn => Len(w) = n + 1 /\ \A i \in 1..n : w[i] = file[i]
  BY LinesWritten
<1>4. torn => (file[n] # Broken => file[n].val # v)
  BY DEF TearInv
<1> HIDE DEF w
<1>5. n \in Nat
  BY DEF TypeInv
<1> HIDE DEF n
<1>6. \A i \in 1..n : file[i] = Broken \/ file[i].val # v
  <2>1. CASE torn
    BY <1>1, <1>2, <1>4, <2>1
  <2>2. CASE ~torn
    BY <1>1, <1>3, <1>5, <2>2
  <2> QED BY <2>1, <2>2
<1> QED BY <1>6 DEF Missing, n

LEMMA LiveWorks ==
  ASSUME TypeInv, Points, Works
  PROVE  /\ \A v : Live(v)' => Live(v)
         /\ stored' = stored
<1>1. stored' = stored /\ \A t \in Thread : Storing(t)' => Storing(t) /\ call'[t] = call[t]
  BY StoringSteps
<1>2. \/ ended' = ended
      \/ \E t \in Thread : Storing(t) /\ ended' = ended \cup {call[t].val}
  BY EndedSteps
<1> QED BY <1>1, <1>2 DEF Live

LEMMA DoneWorks ==
  ASSUME TypeInv, Points, Works, \A t \in Thread : ~Write(t)
  PROVE  \A v : Done(v)' => Done(v)
<1>1. \A t \in Thread : pc'[t] = "appended" => pc[t] = "appended" /\ call'[t] = call[t]
  <2>1. ASSUME NEW t \in Thread, NEW l, pc' = [pc EXCEPT ![t] = l], l # "appended",
               \A u \in Thread \ {t} : call'[u] = call[u]
        PROVE  \A u \in Thread : pc'[u] = "appended" => pc[u] = "appended" /\ call'[u] = call[u]
    BY <2>1 DEF TypeInv
  <2>2. ASSUME NEW t \in Thread, MemoryGet(t) \/ Promote(t) \/ MemorySet(t) \/ Count(t) \/ Enter(t)
                               \/ MemoryDrop(t) \/ DiskDrop(t) \/ WriteFails(t) \/ DiskGet(t)
        PROVE  /\ \E l : pc' = [pc EXCEPT ![t] = l] /\ l # "appended"
               /\ \A u \in Thread \ {t} : call'[u] = call[u]
    <3>1. \E l : pc' = [pc EXCEPT ![t] = l] /\ l # "appended"
      BY <2>2 DEF MemoryGet, Promote, MemorySet, Count, Enter, MemoryDrop, DiskDrop, WriteFails, DiskGet, Return, Goto
    <3>2. call' = call \/ \E v : call' = [call EXCEPT ![t].val = v]
      BY <2>2 DEF MemoryGet, Promote, MemorySet, Count, Enter, MemoryDrop, DiskDrop, WriteFails, DiskGet
    <3> QED BY <3>1, <3>2 DEF TypeInv
  <2>3. ASSUME NEW p \in Process, Crash(p)
        PROVE  \A u \in Thread : pc'[u] = "appended" => pc[u] = "appended" /\ call'[u] = call[u]
    BY <2>3 DEF Crash
  <2>4. CASE Tick \/ UNCHANGED vars
    BY <2>4 DEF Tick, vars
  <2> QED BY <2>1, <2>2, <2>3, <2>4 DEF Works
<1>2. \/ ended' = ended
      \/ \E t \in Thread : pc[t] = "appended" /\ ended' = ended \cup {call[t].val}
  BY EndedSteps
<1> QED BY <1>1, <1>2 DEF Done

LEMMA TearWorks ==
  ASSUME TypeInv, Points, Numbered, TearInv, Works, TypeInv'
  PROVE  TearInv'
<1>1. stored' = stored /\ \A v : Live(v)' => Live(v)
  BY LiveWorks
<1>2. tears \in Nat
  BY DEF TypeInv
<1>3. ASSUME NEW t \in Thread, Write(t) PROVE TearInv'
  <2>1. /\ file' = Written(EntryOf(t)) /\ pc' = [pc EXCEPT ![t] = "appended"] /\ pc[t] = "appending"
        /\ UNCHANGED <<tears, ended, call>> /\ ~torn'
    BY <1>3 DEF Write, Goto, history
  <2> DEFINE new == call[t].val
  <2>2. EntryOf(t) \in Lines /\ EntryOf(t) # Broken /\ EntryOf(t).val = new
    BY <2>1, EntryIsLine
  <2>3. \A v : Done(v)' => Done(v) \/ v = new
    BY <2>1 DEF Done, TypeInv
  <2>4. \A v : Done(v) /\ Missing(file', v) => Missing(file, v)
    BY <2>1, <2>2, WrittenOver, DoneIsLive
  <2>5. CASE torn
    <3>1. Unread' \subseteq Unread \cup {new}
      BY <1>1, <2>3, <2>4 DEF Unread
    <3>2. Cardinality(Unread') <= Cardinality(Unread) + 1
      BY <3>1, UnreadCounted
    <3>3. Cardinality(Unread') \in Nat /\ Cardinality(Unread) \in Nat
      BY <3>1, UnreadCounted
    <3> QED BY <1>2, <2>1, <2>5, <3>2, <3>3 DEF TearInv
  <2>6. CASE ~torn
    <3>1. ~Missing(file', new)
      <4> DEFINE w == Written(EntryOf(t))
                 n == Len(file)
      <4>1. Len(w) = n + 1 /\ w[n + 1] = EntryOf(t) /\ n \in Nat
        BY <2>2, <2>6, LinesWritten DEF TypeInv
      <4> HIDE DEF w, n
      <4>2. n + 1 \in 1..Len(w) /\ w[n + 1] # Broken /\ w[n + 1].val = new
        BY <2>2, <4>1
      <4>3. ~Missing(w, new)
        BY <4>2 DEF Missing
      <4> QED BY <2>1, <4>3 DEF w
    <3>2. Unread' \subseteq Unread
      BY <1>1, <2>3, <2>4, <3>1 DEF Unread
    <3>3. Cardinality(Unread') <= Cardinality(Unread) /\ Cardinality(Unread') \in Nat /\ Cardinality(Unread) \in Nat
      BY <3>2, UnreadCounted
    <3> QED BY <1>2, <2>1, <3>3 DEF TearInv
  <2> QED BY <2>5, <2>6
<1>4. CASE \A t \in Thread : ~Write(t)
  <2>1. \A v : Done(v)' => Done(v)
    BY <1>4, DoneWorks
  <2>2. CASE UNCHANGED <<file, torn, tears>>
    <3>1. Unread' \subseteq Unread
      BY <1>1, <2>1, <2>2 DEF Unread
    <3>2. Cardinality(Unread') <= Cardinality(Unread) /\ Cardinality(Unread') \in Nat /\ Cardinality(Unread) \in Nat
      BY <3>1, UnreadCounted
    <3> QED BY <1>1, <1>2, <2>2, <3>2 DEF TearInv
  <2>3. ASSUME tears' = tears + 1, torn', ended' = ended,
               NEW t \in Thread, pc[t] = "appending", pc'[t] = "idle",
               NEW l \in {Broken, EntryOf(t)}, file' = Written(l)
        PROVE  TearInv'
    <3>1. EntryOf(t) \in Lines /\ EntryOf(t).val = call[t].val
      BY <2>3, EntryIsLine
    <3>2. l \in Lines \union {Broken}
      BY <3>1
    <3>3. Unread' \subseteq Unread
      <4>1. \A v : Done(v) /\ Missing(file', v) => Missing(file, v)
        BY <2>3, <3>2, WrittenOver, DoneIsLive
      <4> QED BY <1>1, <2>1, <4>1 DEF Unread
    <3>4. Cardinality(Unread') <= Cardinality(Unread) /\ Cardinality(Unread') \in Nat /\ Cardinality(Unread) \in Nat
      BY <3>3, UnreadCounted
    <3>5. Storing(t)
      BY <2>3 DEF Points, Storing, Writing
    <3>6. \A v : v = call[t].val => ~Live(v)'
      <4>1. call[t].val \notin ended
        BY <3>5 DEF Numbered
      <4>2. \A u \in Thread : Storing(u)' => Storing(u) /\ call'[u] = call[u]
        BY StoringSteps
      <4>3. ~Storing(t)'
        BY <2>3 DEF Storing
      <4>4. \A u \in Thread : Storing(u)' => call'[u].val # call[t].val
        BY <3>5, <4>2, <4>3 DEF Numbered
      <4>5. \A v : v = call[t].val => ~Live(v)'
        BY <2>3, <4>1, <4>4 DEF Live
      <4> QED BY <4>5
    <3>7. \A v : file'[Len(file')] # Broken /\ file'[Len(file')].val = v => ~Live(v)'
      <4> DEFINE w == Written(l)
                 n == Len(file)
      <4>1. torn => Len(w) = n /\ w[n] = Broken
        BY <3>2, LinesWritten
      <4>2. ~torn => Len(w) = n + 1 /\ w[n + 1] = l
        BY <3>2, LinesWritten
      <4> HIDE DEF w, n
      <4>3. w[Len(w)] = Broken \/ w[Len(w)] = l
        BY <4>1, <4>2
      <4>4. w[Len(w)] = Broken \/ w[Len(w)].val = call[t].val
        BY <2>3, <3>1, <4>3
      <4>5. file' = w
        BY <2>3 DEF w
      <4> QED BY <3>6, <4>4, <4>5
    <3>8. Cardinality(Unread') + 1 <= tears' /\ Cardinality(Unread') <= tears'
      BY <1>2, <2>3, <3>4 DEF TearInv
    <3> QED BY <3>7, <3>8 DEF TearInv
  <2> QED BY <1>4, <2>2, <2>3, FileSteps
<1> QED BY <1>3, <1>4

LEMMA TearStarts ==
  ASSUME TypeInv, Points, Numbered, TearInv, Starts, TypeInv'
  PROVE  TearInv'
<1>1. PICK t \in Thread, k \in Key, name \in {"get", "set", "invalidate"} : Start(t, name, k)
  BY DEF Starts
<1> DEFINE n == Len(stored)
<1>2. /\ UNCHANGED <<file, torn, tears, ended>> /\ pc[t] = "idle" /\ pc'[t] = "memory"
      /\ \A u \in Thread \ {t} : pc'[u] = pc[u] /\ call'[u] = call[u]
      /\ call'[t].name = name /\ (name = "set" => call'[t].val = n + 1)
      /\ n \in Nat
  <2>1. /\ UNCHANGED <<file, torn, tears, ended>> /\ pc[t] = "idle" /\ pc' = [pc EXCEPT ![t] = "memory"]
        /\ \A u \in Thread \ {t} : pc'[u] = pc[u] /\ call'[u] = call[u]
        /\ call'[t].name = name /\ (name = "set" => call'[t].val = n + 1)
        /\ n \in Nat
    BY <1>1, Numbering
  <2> QED BY <2>1 DEF TypeInv
<1>3. \A v : Done(v)' => Done(v)
  BY <1>2 DEF Done
<1>4. \A v \in 1..n : Live(v)' => Live(v)
  <2>1. \A u \in Thread : Storing(u)' => (Storing(u) /\ call'[u] = call[u]) \/ call'[u].val = n + 1
    BY <1>2 DEF Storing
  <2>2. \A v \in 1..n : v # n + 1
    BY <1>2
  <2> HIDE DEF n
  <2> QED BY <1>2, <2>1, <2>2 DEF Live
<1>5. \A v : Done(v) => v \in 1..n
  BY DEF Done, Numbered, TypeInv, Storing, Points, Writing
<1>6. Unread' \subseteq Unread
  BY <1>2, <1>3, <1>5 DEF Unread
<1>7. Cardinality(Unread') <= Cardinality(Unread) /\ Cardinality(Unread') \in Nat /\ Cardinality(Unread) \in Nat
  BY <1>6, UnreadCounted
<1>8. torn => /\ file # <<>>
              /\ file[Len(file)] # Broken => file[Len(file)].val \in 1..n
  <2>1. file \in Seq(Lines \union {Broken}) /\ (torn => file # <<>>)
    BY DEF TypeInv
  <2>2. torn => Len(file) \in 1..Len(file)
    BY <2>1
  <2> QED BY <2>1, <2>2 DEF Numbered
<1>9. torn => \A v : file[Len(file)] # Broken /\ file[Len(file)].val = v => ~Live(v)'
  BY <1>4, <1>8 DEF TearInv
<1> HIDE DEF n
<1>10. tears \in Nat
  BY DEF TypeInv
<1>11. Cardinality(Unread') <= tears /\ (torn => Cardinality(Unread') + 1 <= tears)
  BY <1>7, <1>10 DEF TearInv
<1>12. torn' => \A v : file'[Len(file')] # Broken /\ file'[Len(file')].val = v => ~Live(v)'
  BY <1>2, <1>9
<1> QED BY <1>2, <1>11, <1>12 DEF TearInv

LEMMA TypesWork ==
  ASSUME TypeInv, Points, Numbered, Works
  PROVE  TypeInv' /\ Points'
<1>1. ASSUME NEW t \in Thread, Enter(t) PROVE TypeInv' /\ Points'
  <2>1. pc[t] = "appended"
    BY <1>1 DEF Enter
  <2>2. call[t].val \in 1..Len(stored)
    BY <2>1 DEF Numbered, Storing, Points, Writing
  <2> QED BY <1>1, <2>2, EnterTypes
<1>2. CASE Tick
  BY <1>2 DEF Tick, TypeInv, Points, Writing, storeVars, history
<1>3. CASE UNCHANGED vars
  BY <1>3 DEF vars, TypeInv, Points, Writing
<1> QED BY <1>1, <1>2, <1>3, MemoryGetTypes, DiskGetTypes, StoreTypes, CountTypes, WriteTypes, DropTypes,
           WriteFailsTypes, CrashTypes DEF Works

FileInv == TypeInv /\ Points /\ Numbered /\ TearInv

LEMMA FileInvInit == Init => FileInv
<1> SUFFICES ASSUME Init PROVE FileInv
  OBVIOUS
<1>1. TypeInv /\ Points
  BY CacheTypesInit DEF TypeAndPoints
<1>2. stored = <<>> /\ file = <<>> /\ torn = FALSE /\ tears = 0 /\ pc = [t \in Thread |-> "idle"]
  BY DEF Init
<1>3. Len(stored) = 0 /\ Len(file) = 0
  BY <1>2
<1>4. Numbered
  BY <1>2, <1>3 DEF Numbered, Storing
<1>5. Unread = {}
  BY <1>3 DEF Unread
<1>6. Cardinality(Unread) = 0
  BY <1>5, FS_EmptySet
<1> QED BY <1>1, <1>2, <1>4, <1>6 DEF FileInv, TearInv

LEMMA FileInvStep == FileInv /\ [Next]_vars => FileInv'
<1> SUFFICES ASSUME TypeInv, Points, Numbered, TearInv, [Next]_vars PROVE FileInv'
  BY DEF FileInv
<1>1. CASE Works
  <2>1. TypeInv' /\ Points'
    BY <1>1, TypesWork
  <2> QED BY <1>1, <2>1, NumberedWorks, TearWorks DEF FileInv
<1>2. CASE Starts
  <2>1. TypeInv' /\ Points'
    BY <1>2, StartTypes DEF Starts
  <2> QED BY <1>2, <2>1, NumberedStarts, TearStarts DEF FileInv
<1> QED BY <1>1, <1>2, StepKinds

LEMMA FileInvAlways == Spec => []FileInv
BY FileInvInit, FileInvStep, PTL DEF Spec

\* caching.py DiskCache._append: for any number of threads and processes, each
\* unfinished line costs at most one set that had ended.
THEOREM TearCostsOneAlways == Spec => []TearCostsOne
<1>1. FileInv => TearCostsOne
  <2> SUFFICES ASSUME TypeInv, TearInv PROVE TearCostsOne
    BY DEF FileInv
  <2>1. Lost \subseteq Unread
    BY DEF Lost, Unread, Done, Missing, TypeInv
  <2>2. Cardinality(Lost) <= Cardinality(Unread) /\ Cardinality(Lost) \in Nat /\ Cardinality(Unread) \in Nat
    BY <2>1, UnreadCounted
  <2> QED BY <2>2 DEF TearCostsOne, TearInv, TypeInv
<1> QED BY <1>1, FileInvAlways, PTL

-----------------------------------------------------------------------------
\* One process uses the file.
OneProcess == \A p, q \in Process : p = q

\* The lock of the file, the calls that do not overlap, and what is known to
\* have ended.
Alone ==
  /\ \A t, u \in Thread : Writing(t) /\ Writing(u) => t = u
  /\ \A t, u \in Thread :
       t # u /\ pc[t] # "idle" /\ pc[u] # "idle" /\ call[t].key = call[u].key => call[t].key \in raced
  /\ \A t \in Thread : local[t].known \subseteq ended

\* The thread that takes a step, and where it comes to.
LEMMA Takers ==
  ASSUME TypeInv, NEW t \in Thread,
         \/ MemoryGet(t) \/ DiskGet(t) \/ Promote(t) \/ MemorySet(t) \/ Count(t) \/ Write(t) \/ Enter(t)
         \/ MemoryDrop(t) \/ DiskDrop(t) \/ WriteFails(t)
  PROVE  /\ pc[t] # "idle" /\ raced' = raced /\ stored' = stored
         /\ \E l : pc' = [pc EXCEPT ![t] = l]
         /\ \A u \in Thread \ {t} : pc'[u] = pc[u] /\ call'[u] = call[u] /\ local'[u] = local[u] /\ answer'[u] = answer[u]
<1>1. pc[t] # "idle" /\ raced' = raced /\ stored' = stored /\ \E l : pc' = [pc EXCEPT ![t] = l]
  BY DEF MemoryGet, DiskGet, Promote, MemorySet, Count, Write, Enter, MemoryDrop, DiskDrop, WriteFails,
         history, Return, Goto
<1>2. call' = call \/ \E v : call' = [call EXCEPT ![t].val = v]
  BY DEF MemoryGet, DiskGet, Promote, MemorySet, Count, Write, Enter, MemoryDrop, DiskDrop, WriteFails
<1>3. answer' = answer \/ \E v : answer' = [answer EXCEPT ![t] = v]
  BY DEF MemoryGet, DiskGet, Promote, MemorySet, Count, Write, Enter, MemoryDrop, DiskDrop, WriteFails, Return
<1>4. local' = local \/ \E x : local' = [local EXCEPT ![t] = x]
  <2>1. CASE Count(t)
    <3>1. PICK ts \in Times(t) : local' = [local EXCEPT ![t].line = Len(file), ![t].ts = ts]
      BY <2>1 DEF Count
    <3>2. local' = [local EXCEPT ![t] = [local[t] EXCEPT !.line = Len(file), !.ts = ts]]
      BY <3>1 DEF TypeInv
    <3> QED BY <3>2
  <2>2. CASE Reach(t)
    BY <2>2 DEF Reach
  <2>3. CASE local' = local
    BY <2>3
  <2>4. ASSUME NEW v, Return(t, v) PROVE \E x : local' = [local EXCEPT ![t] = x]
    BY <2>4 DEF Return
  <2>5. Count(t) \/ Reach(t) \/ local' = local \/ \E v : Return(t, v)
    BY DEF MemoryGet, DiskGet, Promote, MemorySet, Write, Enter, MemoryDrop, DiskDrop, WriteFails
  <2> QED BY <2>1, <2>2, <2>3, <2>4, <2>5
<1>5. \A u \in Thread \ {t} : call'[u] = call[u] /\ answer'[u] = answer[u]
  BY <1>2, <1>3 DEF TypeInv
<1>6. \A u \in Thread \ {t} : pc'[u] = pc[u] /\ local'[u] = local[u]
  BY <1>1, <1>4 DEF TypeInv
<1> QED BY <1>1, <1>5, <1>6

LEMMA CallSteps ==
  ASSUME TypeInv, Points, Works, NEW u \in Thread
  PROVE  /\ raced' = raced
         /\ pc'[u] # "idle" => pc[u] # "idle"
         /\ call'[u].key = call[u].key
         /\ local'[u].known = local[u].known \/ local'[u].known = {}
<1> DEFINE Goal == /\ raced' = raced
                   /\ pc'[u] # "idle" => pc[u] # "idle"
                   /\ call'[u].key = call[u].key
                   /\ local'[u].known = local[u].known \/ local'[u].known = {}
<1>1. ASSUME NEW t \in Thread,
             \/ MemoryGet(t) \/ DiskGet(t) \/ Promote(t) \/ MemorySet(t) \/ Count(t) \/ Write(t) \/ Enter(t)
             \/ MemoryDrop(t) \/ DiskDrop(t) \/ WriteFails(t)
      PROVE  Goal
  <2>1. pc[t] # "idle" /\ raced' = raced
        /\ \A w \in Thread \ {t} : pc'[w] = pc[w] /\ call'[w] = call[w] /\ local'[w] = local[w]
    BY <1>1, Takers
  <2>2. call'[t].key = call[t].key
    <3>1. call' = call \/ \E v : call' = [call EXCEPT ![t].val = v]
      BY <1>1 DEF MemoryGet, DiskGet, Promote, MemorySet, Count, Write, Enter, MemoryDrop, DiskDrop, WriteFails
    <3>2. call[t] \in Calls /\ call \in [Thread -> Calls \union {None}]
      BY <2>1 DEF Points, TypeInv
    <3> QED BY <3>1, <3>2 DEF Calls
  <2>3. local'[t].known = local[t].known
    <3>1. local \in [Thread -> Locals] /\ local[t] \in Locals
      BY DEF TypeInv
    <3>2. CASE Count(t)
      BY <3>1, <3>2 DEF Count, Locals
    <3>3. CASE Reach(t)
      BY <3>1, <3>3 DEF Reach, Locals
    <3>4. CASE local' = local
      BY <3>4
    <3>5. ASSUME NEW v, Return(t, v) PROVE local'[t].known = local[t].known
      BY <3>1, <3>5 DEF Return, Fresh
    <3>6. Count(t) \/ Reach(t) \/ local' = local \/ \E v : Return(t, v)
      BY <1>1 DEF MemoryGet, DiskGet, Promote, MemorySet, Write, Enter, MemoryDrop, DiskDrop, WriteFails
    <3> QED BY <3>2, <3>3, <3>4, <3>5, <3>6
  <2> QED BY <2>1, <2>2, <2>3
<1>2. ASSUME NEW p \in Process, Crash(p) PROVE Goal
  BY <1>2 DEF Crash, history, Fresh
<1>3. CASE Tick \/ UNCHANGED vars
  BY <1>3 DEF Tick, vars, history
<1> QED BY <1>1, <1>2, <1>3 DEF Works

\* How a thread comes to write a line.
LEMMA WriterSteps ==
  ASSUME TypeInv, Points, Works, NEW u \in Thread
  PROVE  /\ pc'[u] = "appending" => \/ Count(u)
                                    \/ pc[u] = "appending" /\ local'[u] = local[u] /\ call'[u] = call[u]
         /\ pc'[u] = "appended" => \/ Write(u)
                                   \/ pc[u] = "appended" /\ local'[u] = local[u] /\ call'[u] = call[u]
<1> DEFINE Goal == /\ pc'[u] = "appending" => \/ Count(u)
                                              \/ pc[u] = "appending" /\ local'[u] = local[u] /\ call'[u] = call[u]
                   /\ pc'[u] = "appended" => \/ Write(u)
                                             \/ pc[u] = "appended" /\ local'[u] = local[u] /\ call'[u] = call[u]
<1>1. ASSUME NEW t \in Thread,
             \/ MemoryGet(t) \/ DiskGet(t) \/ Promote(t) \/ MemorySet(t) \/ Count(t) \/ Write(t) \/ Enter(t)
             \/ MemoryDrop(t) \/ DiskDrop(t) \/ WriteFails(t)
      PROVE  Goal
  <2>1. \A w \in Thread \ {t} : pc'[w] = pc[w] /\ call'[w] = call[w] /\ local'[w] = local[w]
    BY <1>1, Takers
  <2>2. Count(t) \/ Write(t) \/ pc'[t] \notin {"appending", "appended"}
    BY <1>1 DEF MemoryGet, DiskGet, Promote, MemorySet, Enter, MemoryDrop, DiskDrop, WriteFails, Return, Goto, TypeInv
  <2>3. Count(t) => pc'[t] = "appending"
    BY DEF Count, Goto, TypeInv
  <2>4. Write(t) => pc'[t] = "appended"
    BY DEF Write, Goto, TypeInv
  <2>5. CASE u = t
    BY <2>2, <2>3, <2>4, <2>5
  <2>6. CASE u # t
    BY <2>1, <2>6
  <2> QED BY <2>5, <2>6
<1>2. ASSUME NEW p \in Process, Crash(p) PROVE Goal
  BY <1>2 DEF Crash
<1>3. CASE Tick \/ UNCHANGED vars
  BY <1>3 DEF Tick, vars
<1> QED BY <1>1, <1>2, <1>3 DEF Works

LEMMA AloneWorks ==
  ASSUME TypeInv, Points, Alone, Works, OneProcess
  PROVE  Alone'
<1>1. \A t, u \in Thread : Writing(t)' /\ Writing(u)' => t = u
  <2>1. ASSUME NEW t \in Thread, Writing(t)' PROVE Count(t) \/ Writing(t)
    BY <2>1, WriterSteps DEF Writing, Write
  <2>2. ASSUME NEW t \in Thread, Count(t), NEW u \in Thread, Writing(u)' PROVE t = u
    <3>1. Owner[u] = Owner[t]
      BY CacheConstants DEF OneProcess
    <3>2. ~Writing(u)
      BY <2>2, <3>1 DEF Count, Free, Writing
    <3>3. u # t => pc'[u] = pc[u]
      BY <2>2, Takers
    <3> QED BY <2>2, <3>2, <3>3 DEF Writing
  <2> QED BY <2>1, <2>2 DEF Alone
<1>2. \A t, u \in Thread :
        t # u /\ pc'[t] # "idle" /\ pc'[u] # "idle" /\ call'[t].key = call'[u].key => call'[t].key \in raced'
  BY CallSteps DEF Alone
<1>3. \A t \in Thread : local'[t].known \subseteq ended'
  BY CallSteps, EndedSteps DEF Alone
<1> QED BY <1>1, <1>2, <1>3 DEF Alone

LEMMA AloneStarts ==
  ASSUME TypeInv, Points, Alone, Starts
  PROVE  Alone'
<1>1. PICK t \in Thread, k \in Key, name \in {"get", "set", "invalidate"} : Start(t, name, k)
  BY DEF Starts
<1>2. /\ UNCHANGED <<ended>> /\ pc[t] = "idle" /\ pc' = [pc EXCEPT ![t] = "memory"]
      /\ \A u \in Thread \ {t} : pc'[u] = pc[u] /\ call'[u] = call[u] /\ local'[u] = local[u]
      /\ call'[t].key = k /\ local'[t].known = ended
  BY <1>1, Numbering
<1>3. raced' = IF \E u \in Thread : pc[u] # "idle" /\ call[u].key = k THEN raced \cup {k} ELSE raced
  BY <1>1 DEF Start
<1>4. pc'[t] = "memory"
  BY <1>2 DEF TypeInv
<1>5. \A u, w \in Thread : Writing(u)' /\ Writing(w)' => u = w
  BY <1>2, <1>4 DEF Alone, Writing
<1>6. ASSUME NEW u \in Thread, NEW w \in Thread, u # w, pc'[u] # "idle", pc'[w] # "idle", call'[u].key = call'[w].key
      PROVE  call'[u].key \in raced'
  <2>1. CASE u # t /\ w # t
    BY <1>2, <1>3, <1>6, <2>1 DEF Alone
  <2>2. CASE u = t
    <3>1. pc[w] # "idle" /\ call[w].key = k
      BY <1>2, <1>6, <2>2
    <3> QED BY <1>2, <1>3, <2>2, <3>1
  <2>3. CASE w = t
    <3>1. pc[u] # "idle" /\ call[u].key = k
      BY <1>2, <1>6, <2>3
    <3> QED BY <1>2, <1>3, <1>6, <2>3, <3>1
  <2> QED BY <2>1, <2>2, <2>3
<1>7. \A u \in Thread : local'[u].known \subseteq ended'
  BY <1>2 DEF Alone
<1> QED BY <1>5, <1>6, <1>7 DEF Alone

LEMMA EnterIsOne ==
  ASSUME TypeInv, NEW t \in Thread, Enter(t), NEW u \in Thread, Enter(u)
  PROVE  u = t
<1>1. pc' = [pc EXCEPT ![t] = "idle"] /\ pc' = [pc EXCEPT ![u] = "idle"] /\ pc[u] = "appended"
  BY DEF Enter, Return, Goto
<1> QED BY <1>1 DEF TypeInv

\* What an entry put in memory leaves there.
LEMMA PutSteps ==
  ASSUME TypeInv, Points, NEW t \in Thread, Promote(t) \/ MemorySet(t)
  PROVE  \A p \in Process : \A e \in Entries(memory'[p]) :
           \/ e.key = call[t].key /\ e.val = call[t].val
           \/ e \in Entries(memory[p]) /\ (p = Owner[t] => e.key # call[t].key)
<1> DEFINE o == Owner[t]
           k == call[t].key
           v == call[t].val
<1>1. o \in Process /\ k \in Key /\ v \in Nat
  BY CacheConstants DEF Promote, MemorySet, Points, Calls
<1>2. PICK ts \in Times(t) : memory' = [memory EXCEPT ![o] = Put(o, k, v, ts)]
  BY DEF Promote, MemorySet
<1>3. \A e \in Entries(Put(o, k, v, ts)) :
        e = [key |-> k, val |-> v, ts |-> ts] \/ (e \in Entries(memory[o]) /\ e.key # k)
  <2>1. ts \in Nat
    BY TimesAreTimes
  <2> QED BY <1>1, <2>1, MemoryPut
<1>4. memory'[o] = Put(o, k, v, ts) /\ \A p \in Process : p # o => memory'[p] = memory[p]
  BY <1>1, <1>2 DEF TypeInv
<1>5. \A e \in Entries(memory'[o]) : (e.key = k /\ e.val = v) \/ (e \in Entries(memory[o]) /\ e.key # k)
  BY <1>3, <1>4
<1> QED BY <1>4, <1>5

LEMMA PastMemory ==
  ASSUME TypeInv, Works, NEW t \in Thread, pc[t] = "memory", call[t].name = "set",
         pc'[t] # "memory", pc'[t] # "idle"
  PROVE  MemorySet(t)
<1>1. ASSUME NEW u \in Thread,
             \/ MemoryGet(u) \/ DiskGet(u) \/ Promote(u) \/ MemorySet(u) \/ Count(u) \/ Write(u) \/ Enter(u)
             \/ MemoryDrop(u) \/ DiskDrop(u) \/ WriteFails(u)
      PROVE  MemorySet(t)
  <2>1. u = t
    BY <1>1, Takers
  <2> QED BY <1>1, <2>1 DEF MemoryGet, DiskGet, Promote, Count, Write, Enter, MemoryDrop, DiskDrop, WriteFails
<1>2. \A p \in Process : ~Crash(p)
  BY DEF Crash
<1>3. ~Tick /\ ~UNCHANGED vars
  BY DEF Tick, vars
<1> QED BY <1>1, <1>2, <1>3 DEF Works

\* How an entry comes to be in memory.
LEMMA MemorySteps ==
  ASSUME TypeInv, Points, Works
  PROVE  \/ \A p \in Process : \A e \in Entries(memory'[p]) : e \in Entries(memory[p])
         \/ \E t \in Thread :
              /\ Promote(t) \/ MemorySet(t)
              /\ \A p \in Process : \A e \in Entries(memory'[p]) :
                   \/ e.key = call[t].key /\ e.val = call[t].val
                   \/ e \in Entries(memory[p]) /\ (p = Owner[t] => e.key # call[t].key)
<1> DEFINE Kept1 == \A p \in Process : \A e \in Entries(memory'[p]) : e \in Entries(memory[p])
           Placed(t) == \A p \in Process : \A e \in Entries(memory'[p]) :
                          \/ e.key = call[t].key /\ e.val = call[t].val
                          \/ e \in Entries(memory[p]) /\ (p = Owner[t] => e.key # call[t].key)
<1>1. ASSUME NEW t \in Thread, MemoryGet(t) \/ MemoryDrop(t) PROVE Kept1
  <2> DEFINE o == Owner[t]
             k == call[t].key
  <2>1. o \in Process /\ k \in Key
    BY <1>1, CacheConstants DEF MemoryGet, MemoryDrop, Points, Calls
  <2>2. \/ memory' = [memory EXCEPT ![o] = Others(o, k)]
        \/ memory' = [memory EXCEPT ![o] = Others(o, k) \o Cached(o, k)]
    BY <1>1 DEF MemoryGet, MemoryDrop
  <2>3. /\ \A e \in Entries(Others(o, k)) : e \in Entries(memory[o])
        /\ \A e \in Entries(Others(o, k) \o Cached(o, k)) : e \in Entries(memory[o])
    BY <2>1, MemoryTaken
  <2> HIDE DEF o, k
  <2>4. \/ memory'[o] = Others(o, k)
        \/ memory'[o] = Others(o, k) \o Cached(o, k)
    BY <2>1, <2>2 DEF TypeInv
  <2>5. \A p \in Process : p # o => memory'[p] = memory[p]
    BY <2>2 DEF TypeInv
  <2>6. \A e \in Entries(memory'[o]) : e \in Entries(memory[o])
    BY <2>3, <2>4
  <2> QED BY <2>5, <2>6
<1>2. ASSUME NEW t \in Thread, Promote(t) \/ MemorySet(t) PROVE Placed(t)
  BY <1>2, PutSteps
<1>3. ASSUME NEW t \in Thread, DiskGet(t) \/ Count(t) \/ Write(t) \/ Enter(t) \/ DiskDrop(t) \/ WriteFails(t)
      PROVE  Kept1
  BY <1>3 DEF DiskGet, Count, Write, Enter, DiskDrop, WriteFails, storeVars
<1>4. ASSUME NEW p \in Process, Crash(p) PROVE Kept1
  <2>1. memory' = [memory EXCEPT ![p] = <<>>]
    BY <1>4 DEF Crash
  <2>2. memory'[p] = <<>> /\ \A q \in Process : q # p => memory'[q] = memory[q]
    BY <2>1 DEF TypeInv
  <2>3. Entries(memory'[p]) = {}
    BY <2>2 DEF Entries
  <2> QED BY <2>2, <2>3
<1>5. CASE Tick \/ UNCHANGED vars
  BY <1>5 DEF Tick, vars, storeVars
<1> QED BY <1>1, <1>2, <1>3, <1>4, <1>5 DEF Works

\* How a line comes to be in the index.
LEMMA IndexSteps ==
  ASSUME TypeInv, TypeInv', Points, Works, NEW p \in Process, NEW k \in Key, index'[p][k] # None
  PROVE  \/ /\ index'[p][k] = index[p][k]
            /\ \A t \in Thread : Enter(t) => ~(Owner[t] = p /\ call[t].key = k)
         \/ \E t \in Thread : Enter(t) /\ call[t].key = k /\ index'[p][k].line = NewLine(t)
         \/ LinesOf(file', k) # {} /\ index'[p][k].line = LastLine(file', k)
<1> DEFINE Goal == \/ /\ index'[p][k] = index[p][k]
                      /\ \A t \in Thread : Enter(t) => ~(Owner[t] = p /\ call[t].key = k)
                   \/ \E t \in Thread : Enter(t) /\ call[t].key = k /\ index'[p][k].line = NewLine(t)
                   \/ LinesOf(file', k) # {} /\ index'[p][k].line = LastLine(file', k)
<1> DEFINE NoEnter == \A t \in Thread : ~Enter(t)
<1>1. ASSUME NEW t \in Thread, Enter(t) PROVE Goal
  <2> DEFINE o == Owner[t]
             j == call[t].key
             slot == [line |-> NewLine(t), ts |-> local[t].ts]
             ix == [index[o] EXCEPT ![j] = slot]
  <2>1. index' = [index EXCEPT ![o] = ix] \/ index' = [index EXCEPT ![o] = Rebuilt(file)]
    BY <1>1 DEF Enter
  <2>2. o \in Process /\ j \in Key /\ file' = file
    BY <1>1, CacheConstants DEF Enter, Points, Calls, Trimmed
  <2>3. CASE p # o
    <3>1. index'[p][k] = index[p][k]
      BY <2>1, <2>3 DEF TypeInv
    <3>2. \A u \in Thread : Enter(u) => u = t
      BY <1>1, EnterIsOne
    <3> QED BY <2>3, <3>1, <3>2
  <2>4. CASE p = o /\ index' = [index EXCEPT ![o] = ix]
    <3>1. index'[p][k] = ix[k]
      BY <2>2, <2>4 DEF TypeInv
    <3>2. CASE k = j
      <4>1. index'[p][k] = slot
        BY <2>2, <3>1, <3>2 DEF TypeInv
      <4>2. index'[p][k].line = NewLine(t)
        BY <4>1
      <4> QED BY <1>1, <3>2, <4>2
    <3>3. CASE k # j
      <4>1. index'[p][k] = index[p][k]
        BY <2>2, <2>4, <3>1, <3>3 DEF TypeInv
      <4>2. \A u \in Thread : Enter(u) => u = t
        BY <1>1, EnterIsOne
      <4> QED BY <3>3, <4>1, <4>2
    <3> QED BY <3>2, <3>3
  <2>5. CASE p = o /\ index' = [index EXCEPT ![o] = Rebuilt(file)]
    <3>1. index'[p][k] = Rebuilt(file)[k]
      BY <2>2, <2>5 DEF TypeInv
    <3>2. file \in Seq(Lines \union {Broken})
      BY DEF TypeInv
    <3> QED BY <2>2, <3>1, <3>2, RebuiltIndex
  <2> QED BY <2>1, <2>3, <2>4, <2>5
<1>2. ASSUME NoEnter, index' = index PROVE Goal
  BY <1>2
<1>3. ASSUME NoEnter, NEW t \in Thread, DiskGet(t) \/ DiskDrop(t) PROVE Goal
  <2>1. Owner[t] \in Process /\ call[t].key \in Key /\ None \in Slots \union {None}
    BY <1>3, CacheConstants DEF DiskGet, DiskDrop, Points, Calls
  <2>2. index' = index \/ index' = [index EXCEPT ![Owner[t]][call[t].key] = None]
    BY <1>3 DEF DiskGet, DiskDrop
  <2>3. index'[p][k] = index[p][k]
    BY <2>1, <2>2, IndexSet
  <2> QED BY <1>3, <2>3
<1>4. ASSUME NoEnter, NEW q \in Process, Crash(q) PROVE Goal
  <2>1. index' = [index EXCEPT ![q] = Rebuilt(file')]
    BY <1>4 DEF Crash
  <2>2. CASE p = q
    <3>1. index'[p][k] = Rebuilt(file')[k]
      BY <2>1, <2>2 DEF TypeInv
    <3>2. file' \in Seq(Lines \union {Broken})
      BY DEF TypeInv
    <3> QED BY <3>1, <3>2, RebuiltIndex
  <2>3. CASE p # q
    <3>1. index'[p][k] = index[p][k]
      BY <2>1, <2>3 DEF TypeInv
    <3> QED BY <1>4, <3>1
  <2> QED BY <2>2, <2>3
<1>5. CASE NoEnter
  <2>1. ASSUME NEW t \in Thread,
               MemoryGet(t) \/ Promote(t) \/ MemorySet(t) \/ Count(t) \/ Write(t) \/ MemoryDrop(t) \/ WriteFails(t)
        PROVE  index' = index
    BY <2>1 DEF MemoryGet, Promote, MemorySet, Count, Write, MemoryDrop, WriteFails, storeVars
  <2>2. CASE Tick \/ UNCHANGED vars
    BY <1>2, <1>5, <2>2 DEF Tick, vars, storeVars
  <2> QED BY <1>2, <1>3, <1>4, <1>5, <2>1, <2>2 DEF Works
<1> QED BY <1>1, <1>5

\* How a thread comes to hold what it found on file.
LEMMA FoundSteps ==
  ASSUME TypeInv, Points, Works, NEW u \in Thread, pc'[u] = "promoting"
  PROVE  \/ pc[u] = "promoting" /\ call'[u] = call[u]
         \/ /\ call'[u].val = LineValue(index[Owner[u]][call[u].key])
            /\ LineValue(index[Owner[u]][call[u].key]) # None /\ index[Owner[u]][call[u].key] # None
            /\ file' = file /\ ended' = ended
            /\ Owner[u] \in Process /\ call[u].key \in Key
<1> DEFINE Goal == \/ pc[u] = "promoting" /\ call'[u] = call[u]
                   \/ /\ call'[u].val = LineValue(index[Owner[u]][call[u].key])
                      /\ LineValue(index[Owner[u]][call[u].key]) # None /\ index[Owner[u]][call[u].key] # None
                      /\ file' = file /\ ended' = ended
                      /\ Owner[u] \in Process /\ call[u].key \in Key
<1>1. ASSUME NEW t \in Thread,
             \/ MemoryGet(t) \/ DiskGet(t) \/ Promote(t) \/ MemorySet(t) \/ Count(t) \/ Write(t) \/ Enter(t)
             \/ MemoryDrop(t) \/ DiskDrop(t) \/ WriteFails(t)
      PROVE  Goal
  <2>1. \A w \in Thread \ {t} : pc'[w] = pc[w] /\ call'[w] = call[w] /\ local'[w] = local[w]
    BY <1>1, Takers
  <2>2. u # t => Goal
    BY <2>1
  <2>3. ASSUME u = t PROVE Goal
    <3> DEFINE x == LineValue(index[Owner[t]][call[t].key])
    <3>1. DiskGet(t)
      BY <1>1, <2>3 DEF MemoryGet, Promote, MemorySet, Count, Write, Enter, MemoryDrop, DiskDrop, WriteFails,
                        Return, Goto, TypeInv
    <3>2. /\ call' = [call EXCEPT ![t].val = x] /\ x # None /\ index[Owner[t]][call[t].key] # None
      <4>1. pc'[t] # "idle"
        BY <2>3
      <4>2. \A v : ~Return(t, v)
        BY <4>1 DEF Return, Goto, TypeInv
      <4> QED BY <3>1, <4>2 DEF DiskGet, InTime
    <3>3. file' = file /\ ended' = ended /\ call[t] \in Calls /\ Owner[t] \in Process
      BY <3>1, CacheConstants DEF DiskGet, history, Points
    <3>4. call[t].key \in Key
      BY <3>3 DEF Calls
    <3> HIDE DEF x
    <3>5. call'[t].val = x
      BY <3>2, <3>3 DEF TypeInv, Calls
    <3> QED BY <2>3, <3>2, <3>3, <3>4, <3>5 DEF x
  <2> QED BY <2>2, <2>3
<1>2. ASSUME NEW p \in Process, Crash(p) PROVE Goal
  BY <1>2 DEF Crash
<1>3. CASE Tick \/ UNCHANGED vars
  BY <1>3 DEF Tick, vars
<1> QED BY <1>1, <1>2, <1>3 DEF Works

\* How a get comes to answer.
LEMMA AnswerSteps ==
  ASSUME TypeInv, Points, Works, NEW u \in Thread, answer'[u] # None
  PROVE  \/ answer'[u] = answer[u] /\ local'[u].known = local[u].known
         \/ /\ local'[u].known = local[u].known
            /\ \/ pc[u] = "promoting" /\ answer'[u] = call[u].val
               \/ /\ Owner[u] \in Process
                  /\ \E e \in Entries(memory[Owner[u]]) : e.key = call[u].key /\ answer'[u] = e.val
<1> DEFINE Goal == \/ answer'[u] = answer[u] /\ local'[u].known = local[u].known
                   \/ /\ local'[u].known = local[u].known
                      /\ \/ pc[u] = "promoting" /\ answer'[u] = call[u].val
                         \/ /\ Owner[u] \in Process
                            /\ \E e \in Entries(memory[Owner[u]]) : e.key = call[u].key /\ answer'[u] = e.val
<1>1. ASSUME NEW t \in Thread,
             \/ MemoryGet(t) \/ DiskGet(t) \/ Promote(t) \/ MemorySet(t) \/ Count(t) \/ Write(t) \/ Enter(t)
             \/ MemoryDrop(t) \/ DiskDrop(t) \/ WriteFails(t)
      PROVE  Goal
  <2>1. \A w \in Thread \ {t} : answer'[w] = answer[w] /\ local'[w] = local[w]
    BY <1>1, Takers
  <2>2. u # t => Goal
    BY <2>1
  <2>3. ASSUME u = t PROVE Goal
    <3>1. local \in [Thread -> Locals] /\ local[t] \in Locals /\ answer \in [Thread -> Nat \union {None}]
      BY DEF TypeInv
    <3>2. \A v : Return(t, v) => local'[t].known = local[t].known /\ answer'[t] = v
      BY <3>1 DEF Return, Fresh
    <3>3. Reach(t) => local'[t].known = local[t].known
      BY <3>1 DEF Reach, Locals
    <3>4. CASE Promote(t)
      BY <2>3, <3>2, <3>4 DEF Promote
    <3>5. CASE MemoryGet(t)
      <4> DEFINE o == Owner[t]
                 k == call[t].key
                 c == Cached(o, k)
      <4>1. o \in Process /\ k \in Key
        BY <3>5, CacheConstants DEF MemoryGet, Points, Calls
      <4>2. \/ Reach(t) /\ answer' = answer
            \/ /\ Return(t, Head(c).val)
               /\ \E i \in 1..Len(memory[o]) : memory[o][i].key = k
        BY <3>5 DEF MemoryGet, InMemory
      <4>3. ASSUME NEW i \in 1..Len(memory[o]), memory[o][i].key = k
            PROVE  Head(c) \in Entries(memory[o]) /\ Head(c).key = k
        <5>1. memory[o][i] \in Entries(memory[o])
          BY DEF Entries
        <5>2. c # <<>> /\ c \in Seq(Lines) /\ \A e \in Entries(c) : e \in Entries(memory[o]) /\ e.key = k
          BY <4>1, <4>3, <5>1, MemoryTaken
        <5> HIDE DEF c
        <5>3. Head(c) \in Entries(c)
          BY <5>2 DEF Entries
        <5> QED BY <5>2, <5>3
      <4> HIDE DEF c
      <4>4. CASE Reach(t) /\ answer' = answer
        BY <2>3, <3>3, <4>4
      <4>5. CASE /\ Return(t, Head(c).val)
                 /\ \E i \in 1..Len(memory[o]) : memory[o][i].key = k
        BY <2>3, <3>2, <4>1, <4>3, <4>5
      <4> QED BY <4>2, <4>4, <4>5
    <3>6. CASE MemorySet(t) \/ (DiskGet(t) /\ Reach(t) /\ answer' = answer)
      BY <2>3, <3>3, <3>6 DEF MemorySet
    <3>7. CASE Return(t, None)
      BY <2>3, <3>2, <3>7
    <3>8. CASE Count(t)
      <4>1. PICK ts \in Times(t) : local' = [local EXCEPT ![t].line = Len(file), ![t].ts = ts]
        BY <3>8 DEF Count
      <4>2. local'[t].known = local[t].known
        BY <3>1, <4>1 DEF Locals
      <4> QED BY <2>3, <3>8, <4>2 DEF Count
    <3>9. CASE Write(t) \/ MemoryDrop(t)
      BY <2>3, <3>9 DEF Write, MemoryDrop
    <3>10. DiskGet(t) \/ Enter(t) \/ DiskDrop(t) \/ WriteFails(t) => Return(t, None) \/ (DiskGet(t) /\ Reach(t) /\ answer' = answer)
      BY DEF DiskGet, Enter, DiskDrop, WriteFails
    <3> QED BY <1>1, <3>4, <3>5, <3>6, <3>7, <3>8, <3>9, <3>10
  <2> QED BY <2>2, <2>3
<1>2. ASSUME NEW p \in Process, Crash(p) PROVE Goal
  BY <1>2 DEF Crash
<1>3. CASE Tick \/ UNCHANGED vars
  BY <1>3 DEF Tick, vars
<1> QED BY <1>1, <1>2, <1>3 DEF Works

-----------------------------------------------------------------------------
\* What stands under a key was set under it.
FileKeys ==
  ~torn /\ \A i \in 1..Len(file) : file[i] # Broken /\ stored[file[i].val].key = file[i].key

MemoryKeys ==
  \A p \in Process : \A e \in Entries(memory[p]) :
    e.val \in 1..Len(stored) /\ stored[e.val].key = e.key

IndexKeys ==
  \A p \in Process, k \in Key :
    index[p][k] # None =>
      index[p][k].line \in 1..Len(file) /\ file[index[p][k].line].key = k

ThreadKeys ==
  \A t \in Thread :
    /\ pc[t] = "appending" => local[t].line = Len(file)
    /\ pc[t] = "appended" => NewLine(t) = Len(file) /\ NewLine(t) \in 1..Len(file) /\ file[NewLine(t)] = EntryOf(t)
    /\ pc[t] = "promoting" => call[t].val \in 1..Len(stored) /\ stored[call[t].val].key = call[t].key
    /\ answer[t] # None => answer[t] \in 1..Len(stored) /\ stored[answer[t]].key = call[t].key

KeyInv == tears = 0 => FileKeys /\ MemoryKeys /\ IndexKeys /\ ThreadKeys

\* As long as every line is finished, the file only grows.
LEMMA FileGrows ==
  ASSUME FileInv, FileKeys, Works, tears' = 0
  PROVE  /\ tears = 0 /\ ~torn'
         /\ Len(file) \in Nat /\ Len(file) <= Len(file')
         /\ \A i \in 1..Len(file) : i \in 1..Len(file') /\ file'[i] = file[i]
         /\ \/ file' = file
            \/ \E t \in Thread : /\ Write(t) /\ pc[t] = "appending" /\ Storing(t)
                                 /\ Len(file') = Len(file) + 1 /\ file'[Len(file) + 1] = EntryOf(t)
                                 /\ EntryOf(t) # Broken
<1>1. TypeInv /\ Points /\ ~torn /\ tears \in Nat
  BY DEF FileInv, FileKeys, TypeInv
<1>2. Len(file) \in Nat
  BY <1>1 DEF TypeInv
<1>3. tears' # tears + 1
  BY <1>1
<1>4. CASE UNCHANGED <<file, torn, tears>>
  BY <1>1, <1>2, <1>4
<1>5. ASSUME NEW t \in Thread, Write(t)
      PROVE  /\ tears = 0 /\ ~torn' /\ pc[t] = "appending" /\ Storing(t)
             /\ Len(file') = Len(file) + 1 /\ file'[Len(file) + 1] = EntryOf(t)
             /\ EntryOf(t) # Broken
             /\ \A i \in 1..Len(file) : file'[i] = file[i]
  <2>1. /\ file' = Written(EntryOf(t)) /\ pc[t] = "appending" /\ tears' = tears /\ ~torn'
    BY <1>5 DEF Write
  <2>2. Storing(t) /\ EntryOf(t) \in Lines /\ EntryOf(t) # Broken
    BY <1>1, <2>1, EntryIsLine DEF Storing, Points, Writing
  <2> DEFINE w == Written(EntryOf(t))
  <2>3. /\ Len(w) = Len(file) + 1 /\ w[Len(file) + 1] = EntryOf(t)
        /\ \A i \in 1..Len(file) : w[i] = file[i]
    BY <1>1, <2>2, LinesWritten
  <2> HIDE DEF w
  <2>4. file' = w
    BY <2>1 DEF w
  <2> QED BY <2>1, <2>2, <2>3, <2>4
<1>6. ASSUME NEW t \in Thread, Write(t)
      PROVE  Len(file) <= Len(file') /\ \A i \in 1..Len(file) : i \in 1..Len(file')
  BY <1>2, <1>5, <1>6
<1>7. UNCHANGED <<file, torn, tears>> \/ \E t \in Thread : Write(t)
  BY <1>1, <1>3, FileSteps
<1> QED BY <1>2, <1>4, <1>5, <1>6, <1>7

LEMMA KeyWorks ==
  ASSUME FileInv, FileInv', Alone, KeyInv, Works, OneProcess
  PROVE  KeyInv'
<1> SUFFICES ASSUME tears' = 0 PROVE FileKeys' /\ MemoryKeys' /\ IndexKeys' /\ ThreadKeys'
  BY DEF KeyInv
<1>1. TypeInv /\ TypeInv' /\ Points /\ Points' /\ Numbered /\ Numbered'
  BY DEF FileInv
<1>2. tears = 0
  <2>1. tears \in Nat /\ tears' # tears + 1
    BY <1>1 DEF TypeInv
  <2> QED BY <1>1, <2>1, FileSteps DEF Write
<1>3. FileKeys /\ MemoryKeys /\ IndexKeys /\ ThreadKeys
  BY <1>2 DEF KeyInv
<1>4. stored' = stored /\ \A t \in Thread : Storing(t)' => Storing(t) /\ call'[t] = call[t]
  BY <1>1, StoringSteps
<1> DEFINE n == Len(file)
<1>5. /\ ~torn' /\ n \in Nat /\ n <= Len(file')
      /\ \A i \in 1..n : i \in 1..Len(file') /\ file'[i] = file[i]
      /\ \/ file' = file
         \/ \E t \in Thread : /\ Write(t) /\ pc[t] = "appending" /\ Storing(t)
                              /\ Len(file') = n + 1 /\ file'[n + 1] = EntryOf(t)
                              /\ EntryOf(t) # Broken
  BY <1>3, FileGrows
<1>6. \A t \in Thread : EntryOf(t).val = call[t].val /\ EntryOf(t).key = call[t].key
  BY DEF EntryOf
<1>7. \A t \in Thread : Storing(t) => call[t].val \in 1..Len(stored) /\ stored[call[t].val].key = call[t].key
  BY <1>1 DEF Numbered
<1>8. FileKeys'
  <2>1. CASE file' = file
    BY <1>3, <1>4, <1>5, <2>1 DEF FileKeys
  <2>2. ASSUME NEW t \in Thread, Storing(t), Len(file') = n + 1, file'[n + 1] = EntryOf(t), EntryOf(t) # Broken
        PROVE  FileKeys'
    <3>1. \A i \in 1..Len(file') : i \in 1..n \/ i = n + 1
      <4> HIDE DEF n
      <4> QED BY <1>5, <2>2
    <3>2. ASSUME NEW i \in 1..n PROVE file'[i] # Broken /\ stored[file'[i].val].key = file'[i].key
      BY <1>3, <1>5 DEF FileKeys
    <3>3. file'[n + 1] # Broken /\ stored[file'[n + 1].val].key = file'[n + 1].key
      BY <1>6, <1>7, <2>2
    <3> HIDE DEF n
    <3> QED BY <1>4, <1>5, <3>1, <3>2, <3>3 DEF FileKeys
  <2> QED BY <1>5, <2>1, <2>2
<1>9. MemoryKeys'
  <2>1. CASE \A p \in Process : \A e \in Entries(memory'[p]) : e \in Entries(memory[p])
    BY <1>3, <1>4, <2>1 DEF MemoryKeys
  <2>2. ASSUME NEW t \in Thread, Promote(t) \/ MemorySet(t),
               \A p \in Process : \A e \in Entries(memory'[p]) :
                   \/ e.key = call[t].key /\ e.val = call[t].val
                   \/ e \in Entries(memory[p]) /\ (p = Owner[t] => e.key # call[t].key)
        PROVE  MemoryKeys'
    <3>1. call[t].val \in 1..Len(stored) /\ stored[call[t].val].key = call[t].key
      <4>1. CASE Promote(t)
        BY <1>3, <4>1 DEF Promote, ThreadKeys
      <4>2. CASE MemorySet(t)
        BY <1>7, <4>2 DEF MemorySet, Storing
      <4> QED BY <2>2, <4>1, <4>2
    <3> QED BY <1>3, <1>4, <2>2, <3>1 DEF MemoryKeys
  <2> QED BY <1>1, <2>1, <2>2, MemorySteps
<1>10. IndexKeys'
  <2> SUFFICES ASSUME NEW p \in Process, NEW k \in Key, index'[p][k] # None
               PROVE  index'[p][k].line \in 1..Len(file') /\ file'[index'[p][k].line].key = k
    BY DEF IndexKeys
  <2>1. CASE index'[p][k] = index[p][k]
    BY <1>3, <1>5, <2>1 DEF IndexKeys
  <2>2. ASSUME NEW t \in Thread, Enter(t), call[t].key = k, index'[p][k].line = NewLine(t)
        PROVE  index'[p][k].line \in 1..Len(file') /\ file'[index'[p][k].line].key = k
    <3>1. pc[t] = "appended"
      BY <2>2 DEF Enter
    <3>2. NewLine(t) \in 1..n /\ file[NewLine(t)] = EntryOf(t)
      BY <1>3, <3>1 DEF ThreadKeys
    <3>3. NewLine(t) \in 1..Len(file') /\ file'[NewLine(t)] = EntryOf(t)
      BY <1>5, <3>2
    <3> QED BY <1>6, <2>2, <3>3
  <2>3. CASE LinesOf(file', k) # {} /\ index'[p][k].line = LastLine(file', k)
    <3>1. file' \in Seq(Lines \union {Broken})
      BY <1>1 DEF TypeInv
    <3>2. LastLine(file', k) \in 1..Len(file') /\ file'[LastLine(file', k)].key = k
      BY <2>3, <3>1, LastOfKey
    <3> QED BY <2>3, <3>2
  <2> QED BY <1>1, <2>1, <2>2, <2>3, IndexSteps
<1>11. ThreadKeys'
  <2> SUFFICES ASSUME NEW t \in Thread
               PROVE  /\ pc'[t] = "appending" => local'[t].line = Len(file')
                      /\ pc'[t] = "appended" => /\ local'[t].line + 1 = Len(file') /\ local'[t].line + 1 \in 1..Len(file')
                                                /\ file'[local'[t].line + 1] = EntryOf(t)'
                      /\ pc'[t] = "promoting" => call'[t].val \in 1..Len(stored) /\ stored[call'[t].val].key = call'[t].key
                      /\ answer'[t] # None => answer'[t] \in 1..Len(stored) /\ stored[answer'[t]].key = call'[t].key
    BY <1>4 DEF ThreadKeys, NewLine
  <2>0. call'[t].key = call[t].key
    BY <1>1, CallSteps
  <2>1. pc'[t] = "appending" => local'[t].line = Len(file')
    <3>1. CASE Count(t)
      <4>1. PICK ts \in Times(t) : local' = [local EXCEPT ![t].line = Len(file), ![t].ts = ts]
        BY <3>1 DEF Count
      <4>2. local[t] \in Locals /\ local \in [Thread -> Locals]
        BY <1>1 DEF TypeInv
      <4>3. local'[t].line = Len(file)
        BY <4>1, <4>2 DEF Locals
      <4> QED BY <3>1, <4>3 DEF Count, storeVars
    <3>2. CASE pc'[t] = "appending" /\ pc[t] = "appending" /\ local'[t] = local[t]
      <4>1. \A u \in Thread : ~Write(u)
        <5> SUFFICES ASSUME NEW u \in Thread, Write(u) PROVE FALSE
          OBVIOUS
        <5>1. u = t
          BY <3>2 DEF Write, Alone, Writing
        <5>2. pc'[u] = "appended"
          BY <1>1 DEF Write, Goto, TypeInv
        <5> QED BY <3>2, <5>1, <5>2
      <4>2. file' = file
        BY <1>5, <4>1
      <4> QED BY <1>3, <3>2, <4>2 DEF ThreadKeys
    <3> QED BY <1>1, <3>1, <3>2, WriterSteps
  <2>2. pc'[t] = "appended" => /\ local'[t].line + 1 = Len(file') /\ local'[t].line + 1 \in 1..Len(file')
                               /\ file'[local'[t].line + 1] = EntryOf(t)'
    <3>1. CASE Write(t)
      <4>1. pc[t] = "appending" /\ call' = call /\ local' = local
        BY <3>1 DEF Write
      <4>2. local[t].line = n
        BY <1>3, <4>1 DEF ThreadKeys
      <4>3. file' = Written(EntryOf(t)) /\ ~torn /\ EntryOf(t) \in Lines
        BY <1>1, <1>3, <3>1, <4>1, EntryIsLine DEF Write, FileKeys
      <4> DEFINE w == Written(EntryOf(t))
      <4>4. Len(w) = n + 1 /\ w[n + 1] = EntryOf(t)
        BY <1>1, <4>3, LinesWritten
      <4> HIDE DEF w, n
      <4>5. file' = w
        BY <4>3 DEF w
      <4>6. n + 1 = Len(file') /\ n + 1 \in 1..Len(file') /\ file'[n + 1] = EntryOf(t)
        BY <1>5, <4>4, <4>5
      <4>7. EntryOf(t)' = EntryOf(t)
        BY <4>1 DEF EntryOf
      <4> QED BY <4>1, <4>2, <4>6, <4>7
    <3>2. CASE pc'[t] = "appended" /\ pc[t] = "appended" /\ local'[t] = local[t] /\ call'[t] = call[t]
      <4>1. \A u \in Thread : ~Write(u)
        <5> SUFFICES ASSUME NEW u \in Thread, Write(u) PROVE FALSE
          OBVIOUS
        <5>1. u = t /\ pc[u] = "appending"
          BY <3>2 DEF Write, Alone, Writing
        <5> QED BY <3>2, <5>1
      <4>2. file' = file
        BY <1>5, <4>1
      <4>3. EntryOf(t)' = EntryOf(t)
        BY <3>2 DEF EntryOf
      <4> QED BY <1>3, <3>2, <4>2, <4>3 DEF ThreadKeys, NewLine
    <3> QED BY <1>1, <3>1, <3>2, WriterSteps
  <2>3. pc'[t] = "promoting" => call'[t].val \in 1..Len(stored) /\ stored[call'[t].val].key = call'[t].key
    <3> SUFFICES ASSUME pc'[t] = "promoting"
                 PROVE  call'[t].val \in 1..Len(stored) /\ stored[call'[t].val].key = call'[t].key
      OBVIOUS
    <3>1. CASE pc[t] = "promoting" /\ call'[t] = call[t]
      BY <1>3, <3>1 DEF ThreadKeys
    <3>2. CASE /\ call'[t].val = LineValue(index[Owner[t]][call[t].key])
               /\ LineValue(index[Owner[t]][call[t].key]) # None /\ index[Owner[t]][call[t].key] # None
               /\ Owner[t] \in Process /\ call[t].key \in Key
      <4> DEFINE l == index[Owner[t]][call[t].key].line
      <4>1. l \in 1..n /\ file[l].key = call[t].key
        BY <1>3, <3>2 DEF IndexKeys
      <4>2. file[l] # Broken /\ call'[t].val = file[l].val
        BY <3>2 DEF LineValue
      <4> HIDE DEF l
      <4>3. file[l].val \in 1..Len(stored)
        BY <1>1, <4>1, <4>2 DEF Numbered
      <4> QED BY <1>3, <2>0, <4>1, <4>2, <4>3 DEF FileKeys
    <3> QED BY <1>1, <3>1, <3>2, FoundSteps
  <2>4. answer'[t] # None => answer'[t] \in 1..Len(stored) /\ stored[answer'[t]].key = call'[t].key
    <3> SUFFICES ASSUME answer'[t] # None
                 PROVE  answer'[t] \in 1..Len(stored) /\ stored[answer'[t]].key = call'[t].key
      OBVIOUS
    <3>1. CASE answer'[t] = answer[t]
      BY <1>3, <2>0, <3>1 DEF ThreadKeys
    <3>2. CASE pc[t] = "promoting" /\ answer'[t] = call[t].val
      BY <1>3, <2>0, <3>2 DEF ThreadKeys
    <3>3. CASE /\ Owner[t] \in Process
               /\ \E e \in Entries(memory[Owner[t]]) : e.key = call[t].key /\ answer'[t] = e.val
      BY <1>3, <2>0, <3>3 DEF MemoryKeys
    <3> QED BY <1>1, <3>1, <3>2, <3>3, AnswerSteps
  <2> QED BY <2>1, <2>2, <2>3, <2>4
<1> QED BY <1>8, <1>9, <1>10, <1>11

LEMMA KeyStarts ==
  ASSUME FileInv, KeyInv, Starts
  PROVE  KeyInv'
<1> SUFFICES ASSUME tears' = 0 PROVE FileKeys' /\ MemoryKeys' /\ IndexKeys' /\ ThreadKeys'
  BY DEF KeyInv
<1>1. TypeInv /\ Numbered
  BY DEF FileInv
<1>2. PICK t \in Thread, k \in Key, name \in {"get", "set", "invalidate"} : Start(t, name, k)
  BY DEF Starts
<1> DEFINE n == Len(stored)
<1>3. /\ UNCHANGED <<file, torn, tears, memory, index, ended>>
      /\ pc' = [pc EXCEPT ![t] = "memory"]
      /\ \A u \in Thread \ {t} : pc'[u] = pc[u] /\ call'[u] = call[u] /\ answer'[u] = answer[u] /\ local'[u] = local[u]
      /\ answer'[t] = None
      /\ \A v \in 1..n : v \in 1..Len(stored') /\ stored'[v] = stored[v]
  BY <1>1, <1>2, Numbering
<1>4. pc'[t] = "memory"
  BY <1>1, <1>3 DEF TypeInv
<1>5. FileKeys /\ MemoryKeys /\ IndexKeys /\ ThreadKeys
  BY <1>3 DEF KeyInv
<1>6. \A i \in 1..Len(file) : file[i] # Broken => file[i].val \in 1..n
  BY <1>1 DEF Numbered
<1>7. FileKeys'
  BY <1>3, <1>5, <1>6 DEF FileKeys
<1>8. MemoryKeys' /\ IndexKeys'
  BY <1>3, <1>5 DEF MemoryKeys, IndexKeys
<1>9. ThreadKeys'
  <2> SUFFICES ASSUME NEW u \in Thread
               PROVE  /\ pc'[u] = "appending" => local'[u].line = Len(file')
                      /\ pc'[u] = "appended" => /\ local'[u].line + 1 = Len(file') /\ local'[u].line + 1 \in 1..Len(file')
                                                /\ file'[local'[u].line + 1] = EntryOf(u)'
                      /\ pc'[u] = "promoting" => call'[u].val \in 1..Len(stored') /\ stored'[call'[u].val].key = call'[u].key
                      /\ answer'[u] # None => answer'[u] \in 1..Len(stored') /\ stored'[answer'[u]].key = call'[u].key
    BY DEF ThreadKeys, NewLine
  <2>1. CASE u = t
    BY <1>3, <1>4, <2>1
  <2>2. CASE u # t
    <3>1. pc'[u] = pc[u] /\ call'[u] = call[u] /\ answer'[u] = answer[u] /\ local'[u] = local[u]
      BY <1>3, <2>2
    <3>2. EntryOf(u)' = EntryOf(u)
      BY <3>1 DEF EntryOf
    <3> QED BY <1>3, <1>5, <3>1, <3>2 DEF ThreadKeys, NewLine
  <2> QED BY <2>1, <2>2
<1> QED BY <1>7, <1>8, <1>9

-----------------------------------------------------------------------------
\* A set that had ended before v's key was set again, by a set that has ended.
Overwritten(v) == \E w \in ended : stored[w].key = stored[v].key /\ v \in stored[w].older

MemoryFresh ==
  \A p \in Process : \A e \in Entries(memory[p]) : \A v :
    e.key \notin raced /\ v = e.val => ~Overwritten(v)

LastFresh ==
  \A k \in Key : \A v :
    k \notin raced /\ LinesOf(file, k) # {} /\ v = file[LastLine(file, k)].val => ~Overwritten(v)

IndexFresh ==
  \A p \in Process, k \in Key : \A v :
    k \notin raced /\ index[p][k] # None /\ v = file[index[p][k].line].val => ~Overwritten(v)

FoundFresh ==
  \A t \in Thread : \A v :
    pc[t] = "promoting" /\ call[t].key \notin raced /\ v = call[t].val => ~Overwritten(v)

\* While a set is under way, its value is the only one of its key in memory.
OwnFresh ==
  \A t \in Thread :
    Storing(t) /\ pc[t] # "memory" /\ call[t].key \notin raced =>
      \A p \in Process : \A e \in Entries(memory[p]) : e.key = call[t].key => e.val = call[t].val

AnswerFresh ==
  \A t \in Thread :
    answer[t] # None /\ call[t].key \notin raced =>
      \A w \in local[t].known : stored[w].key = call[t].key => answer[t] \notin stored[w].older

FreshInv ==
  tears = 0 => MemoryFresh /\ LastFresh /\ IndexFresh /\ FoundFresh /\ OwnFresh /\ AnswerFresh

LEMMA OverwrittenEnded ==
  ASSUME FileInv, NEW v, Overwritten(v)
  PROVE  v \in ended
<1>1. \A w \in ended : w \in 1..Len(stored)
  BY DEF FileInv, TypeInv
<1> QED BY <1>1 DEF Overwritten, FileInv, Numbered

LEMMA OverwrittenWorks ==
  ASSUME FileInv, Works, NEW v, Overwritten(v)'
  PROVE  /\ v \in ended
         /\ \/ Overwritten(v)
            \/ \E t \in Thread : Enter(t) /\ pc[t] = "appended" /\ Storing(t) /\ stored[v].key = call[t].key
         /\ ended' = ended => Overwritten(v)
<1>1. TypeInv /\ Points /\ Numbered
  BY DEF FileInv
<1>2. stored' = stored
  BY <1>1, StoringSteps
<1>3. PICK w \in ended' : stored[w].key = stored[v].key /\ v \in stored[w].older
  BY <1>2 DEF Overwritten
<1>4. CASE w \in ended
  <2>1. Overwritten(v)
    BY <1>3, <1>4 DEF Overwritten
  <2> QED BY <2>1, OverwrittenEnded
<1>5. CASE w \notin ended
  <2>1. PICK t \in Thread : Storing(t) /\ pc[t] = "appended" /\ ended' = ended \cup {call[t].val} /\ Enter(t)
    BY <1>1, <1>5, EndedSteps
  <2>2. w = call[t].val
    BY <1>5, <2>1
  <2>3. w \in 1..Len(stored) /\ stored[w].key = call[t].key /\ w \notin ended
    BY <1>1, <2>1, <2>2 DEF Numbered
  <2>4. v \in ended
    BY <1>1, <1>3, <2>3 DEF Numbered
  <2> QED BY <1>3, <1>5, <2>1, <2>3, <2>4
<1> QED BY <1>4, <1>5

\* The last line of a key, after another line.
LEMMA LastAppended ==
  ASSUME NEW f \in Seq(Lines \union {Broken}), NEW g \in Seq(Lines \union {Broken}), NEW k \in Key,
         Len(g) = Len(f) + 1, \A i \in 1..Len(f) : g[i] = f[i], LinesOf(g, k) # {}
  PROVE  \/ LastLine(g, k) = Len(f) + 1
         \/ LinesOf(f, k) # {} /\ LastLine(g, k) = LastLine(f, k) /\ LastLine(f, k) \in 1..Len(f)
<1>1. Len(f) \in Nat
  OBVIOUS
<1> DEFINE l == LastLine(g, k)
           m == LastLine(f, k)
<1>2. l \in LinesOf(g, k) /\ l \in 1..Len(g) /\ \A j \in LinesOf(g, k) : j <= l
  BY LastOfKey
<1> HIDE DEF l
<1>3. CASE l \in 1..Len(f)
  <2>1. l \in LinesOf(f, k)
    BY <1>2, <1>3 DEF LinesOf
  <2>2. m \in LinesOf(f, k) /\ m \in 1..Len(f) /\ \A j \in LinesOf(f, k) : j <= m
    BY <2>1, LastOfKey
  <2> HIDE DEF m
  <2>3. m \in LinesOf(g, k)
    BY <1>1, <2>2 DEF LinesOf
  <2>4. l <= m /\ m <= l
    BY <1>2, <2>1, <2>2, <2>3
  <2>5. l = m
    BY <1>1, <1>3, <2>2, <2>4
  <2> QED BY <2>1, <2>2, <2>5 DEF l, m
<1>4. CASE l = Len(f) + 1
  BY <1>4 DEF l
<1>5. l \in 1..Len(f) \/ l = Len(f) + 1
  BY <1>1, <1>2
<1> QED BY <1>3, <1>4, <1>5

LEMMA FreshWorks ==
  ASSUME FileInv, FileInv', Alone, KeyInv, KeyInv', FreshInv, Works, OneProcess
  PROVE  FreshInv'
<1> SUFFICES ASSUME tears' = 0
             PROVE  MemoryFresh' /\ LastFresh' /\ IndexFresh' /\ FoundFresh' /\ OwnFresh' /\ AnswerFresh'
  BY DEF FreshInv
<1>1. TypeInv /\ TypeInv' /\ Points /\ Points' /\ Numbered
  BY DEF FileInv
<1>2. tears = 0
  <2>1. tears \in Nat /\ tears' # tears + 1
    BY <1>1 DEF TypeInv
  <2> QED BY <1>1, <2>1, FileSteps DEF Write
<1>3. /\ FileKeys /\ MemoryKeys /\ IndexKeys /\ ThreadKeys
      /\ FileKeys' /\ MemoryKeys' /\ IndexKeys' /\ ThreadKeys'
      /\ MemoryFresh /\ LastFresh /\ IndexFresh /\ FoundFresh /\ OwnFresh /\ AnswerFresh
  BY <1>2 DEF KeyInv, FreshInv
<1>4. stored' = stored /\ \A t \in Thread : Storing(t)' => Storing(t) /\ call'[t] = call[t]
  BY <1>1, StoringSteps
<1> DEFINE n == Len(file)
<1>5. /\ n \in Nat /\ n <= Len(file')
      /\ \A i \in 1..n : i \in 1..Len(file') /\ file'[i] = file[i]
      /\ \/ file' = file
         \/ \E t \in Thread : /\ Write(t) /\ pc[t] = "appending" /\ Storing(t)
                              /\ Len(file') = n + 1 /\ file'[n + 1] = EntryOf(t)
  BY <1>3, FileGrows
<1>6. \A t \in Thread : EntryOf(t).val = call[t].val /\ EntryOf(t).key = call[t].key
  BY DEF EntryOf
<1>7. \A t \in Thread : Storing(t) => call[t].val \in 1..Len(stored) /\ call[t].val \notin ended
  BY <1>1 DEF Numbered
<1>8. \A v : Overwritten(v)' =>
        /\ v \in ended
        /\ Overwritten(v) \/ \E t \in Thread : Enter(t) /\ pc[t] = "appended" /\ Storing(t) /\ stored[v].key = call[t].key
        /\ ended' = ended => Overwritten(v)
  BY OverwrittenWorks
<1>9. /\ raced' = raced
      /\ \A u \in Thread : (pc'[u] # "idle" => pc[u] # "idle") /\ call'[u].key = call[u].key
  <2>1. \A u \in Thread : raced' = raced /\ (pc'[u] # "idle" => pc[u] # "idle") /\ call'[u].key = call[u].key
    BY <1>1, CallSteps
  <2>2. raced' = raced
    BY <1>1, Takers DEF Works, Crash, Tick, vars, history
  <2> QED BY <2>1, <2>2
<1>10. \A t, u \in Thread :
         pc[t] # "idle" /\ pc[u] # "idle" /\ call[t].key = call[u].key /\ call[t].key \notin raced => t = u
  BY DEF Alone
<1>11. MemoryFresh'
  <2> SUFFICES ASSUME NEW p \in Process, NEW e \in Entries(memory'[p]), NEW v,
                      e.key \notin raced, v = e.val, Overwritten(v)'
               PROVE  FALSE
    BY <1>9 DEF MemoryFresh
  <2>1. v \in ended /\ stored[v].key = e.key
    BY <1>3, <1>4, <1>8 DEF MemoryKeys
  <2>2. CASE e \in Entries(memory[p])
    <3>1. ~Overwritten(v)
      BY <1>3, <2>2 DEF MemoryFresh
    <3>2. PICK t \in Thread : Enter(t) /\ pc[t] = "appended" /\ Storing(t) /\ stored[v].key = call[t].key
      BY <1>8, <3>1
    <3>3. e.val = call[t].val
      BY <1>3, <2>1, <2>2, <3>2 DEF OwnFresh
    <3> QED BY <1>7, <2>1, <3>2, <3>3
  <2>3. ASSUME NEW t \in Thread, Promote(t) \/ MemorySet(t), e.key = call[t].key, e.val = call[t].val PROVE FALSE
    <3>1. ended' = ended
      BY <2>3 DEF Promote, MemorySet, history
    <3>2. Overwritten(v)
      BY <1>8, <3>1
    <3>3. CASE Promote(t)
      BY <1>3, <2>3, <3>2, <3>3 DEF Promote, FoundFresh
    <3>4. CASE MemorySet(t)
      BY <1>7, <2>1, <2>3, <3>4 DEF MemorySet, Storing
    <3> QED BY <2>3, <3>3, <3>4
  <2> QED BY <1>1, <2>2, <2>3, MemorySteps
<1>12. LastFresh'
  <2> SUFFICES ASSUME NEW k \in Key, NEW v, k \notin raced, LinesOf(file', k) # {},
                      v = file'[LastLine(file', k)].val, Overwritten(v)'
               PROVE  FALSE
    BY <1>9 DEF LastFresh
  <2>1. file \in Seq(Lines \union {Broken}) /\ file' \in Seq(Lines \union {Broken})
    BY <1>1 DEF TypeInv
  <2> DEFINE l == LastLine(file', k)
             m == LastLine(file, k)
  <2>2. l \in 1..Len(file') /\ file'[l].key = k /\ \A j \in LinesOf(file', k) : j <= l
    BY <2>1, LastOfKey
  <2> HIDE DEF l
  <2>3. v = file'[l].val
    BY DEF l
  <2>4. stored[v].key = k
    BY <1>3, <1>4, <2>2, <2>3 DEF FileKeys
  <2>5. CASE file' = file
    <3>1. ~Overwritten(v)
      BY <1>3, <2>5 DEF LastFresh
    <3>2. PICK t \in Thread : Enter(t) /\ pc[t] = "appended" /\ Storing(t) /\ stored[v].key = call[t].key
      BY <1>8, <3>1
    <3>3. NewLine(t) = n /\ n \in 1..n /\ file[n] = EntryOf(t)
      BY <1>3, <3>2 DEF ThreadKeys
    <3>4. file[n] # Broken /\ file[n].key = k /\ file[n].val = call[t].val
      BY <1>3, <1>6, <2>4, <3>2, <3>3 DEF FileKeys
    <3>5. n \in LinesOf(file', k)
      BY <2>5, <3>3, <3>4 DEF LinesOf
    <3>6. l = n
      BY <1>5, <2>2, <2>5, <3>5
    <3> QED BY <1>7, <1>8, <2>3, <2>5, <3>2, <3>4, <3>6
  <2>6. ASSUME NEW t \in Thread, Write(t), Storing(t), Len(file') = n + 1, file'[n + 1] = EntryOf(t)
        PROVE  FALSE
    <3>1. \/ l = n + 1
          \/ LinesOf(file, k) # {} /\ l = m /\ m \in 1..n
      BY <1>5, <2>1, <2>6, LastAppended DEF l
    <3>2. CASE l = n + 1
      BY <1>6, <1>7, <1>8, <2>3, <2>6, <3>2
    <3>3. CASE LinesOf(file, k) # {} /\ l = m /\ m \in 1..n
      <4>1. v = file[m].val
        BY <1>5, <2>3, <3>3
      <4>2. ~Overwritten(v)
        BY <1>3, <3>3, <4>1 DEF LastFresh
      <4>3. ended' = ended
        BY <2>6 DEF Write, history
      <4> QED BY <1>8, <4>2, <4>3
    <3> QED BY <3>1, <3>2, <3>3
  <2> QED BY <1>5, <2>5, <2>6
<1>13. IndexFresh'
  <2> SUFFICES ASSUME NEW p \in Process, NEW k \in Key, NEW v, k \notin raced, index'[p][k] # None,
                      v = file'[index'[p][k].line].val, Overwritten(v)'
               PROVE  FALSE
    BY <1>9 DEF IndexFresh
  <2>1. stored[v].key = k
    BY <1>3, <1>4 DEF IndexKeys, FileKeys
  <2>2. CASE /\ index'[p][k] = index[p][k]
             /\ \A t \in Thread : Enter(t) => ~(Owner[t] = p /\ call[t].key = k)
    <3> DEFINE l == index[p][k].line
    <3>1. l \in 1..n
      BY <1>3, <2>2 DEF IndexKeys
    <3>2. v = file[l].val
      BY <1>5, <2>2, <3>1
    <3>3. ~Overwritten(v)
      BY <1>3, <2>2, <3>2 DEF IndexFresh
    <3>4. PICK t \in Thread : Enter(t) /\ stored[v].key = call[t].key
      BY <1>8, <3>3
    <3>5. Owner[t] = p
      BY CacheConstants DEF OneProcess
    <3> QED BY <2>1, <2>2, <3>4, <3>5
  <2>3. ASSUME NEW t \in Thread, Enter(t), index'[p][k].line = NewLine(t) PROVE FALSE
    <3>1. pc[t] = "appended"
      BY <2>3 DEF Enter
    <3>2. NewLine(t) \in 1..n /\ file[NewLine(t)] = EntryOf(t)
      BY <1>3, <3>1 DEF ThreadKeys
    <3>3. file'[NewLine(t)] = EntryOf(t)
      BY <1>5, <3>2
    <3>4. v = call[t].val
      BY <1>6, <2>3, <3>3
    <3>5. Storing(t)
      BY <1>1, <3>1 DEF Points, Storing, Writing
    <3> QED BY <1>7, <1>8, <3>4, <3>5
  <2>4. CASE LinesOf(file', k) # {} /\ index'[p][k].line = LastLine(file', k)
    BY <1>9, <1>12, <2>4 DEF LastFresh
  <2> QED BY <1>1, <2>2, <2>3, <2>4, IndexSteps
<1>14. FoundFresh'
  <2> SUFFICES ASSUME NEW t \in Thread, NEW v, pc'[t] = "promoting", call'[t].key \notin raced,
                      v = call'[t].val, Overwritten(v)'
               PROVE  FALSE
    BY <1>9 DEF FoundFresh
  <2>1. CASE pc[t] = "promoting" /\ call'[t] = call[t]
    <3>1. ~Overwritten(v)
      BY <1>3, <2>1 DEF FoundFresh
    <3>2. PICK u \in Thread : Enter(u) /\ pc[u] = "appended" /\ stored[v].key = call[u].key
      BY <1>8, <3>1
    <3>3. stored[v].key = call[t].key
      BY <1>3, <2>1 DEF ThreadKeys
    <3>4. t = u
      BY <1>10, <2>1, <3>2, <3>3
    <3> QED BY <2>1, <3>2, <3>4
  <2>2. CASE /\ call'[t].val = LineValue(index[Owner[t]][call[t].key])
             /\ LineValue(index[Owner[t]][call[t].key]) # None /\ index[Owner[t]][call[t].key] # None
             /\ file' = file /\ ended' = ended
             /\ Owner[t] \in Process /\ call[t].key \in Key
    <3>1. v = file[index[Owner[t]][call[t].key].line].val
      BY <2>2 DEF LineValue
    <3>2. ~Overwritten(v)
      BY <1>3, <1>9, <2>2, <3>1 DEF IndexFresh
    <3> QED BY <1>8, <2>2, <3>2
  <2> QED BY <1>1, <2>1, <2>2, FoundSteps
<1>15. OwnFresh'
  <2> SUFFICES ASSUME NEW t \in Thread, Storing(t)', pc'[t] # "memory", call'[t].key \notin raced,
                      NEW p \in Process, NEW e \in Entries(memory'[p]), e.key = call'[t].key
               PROVE  e.val = call'[t].val
    BY <1>9 DEF OwnFresh
  <2>1. Storing(t) /\ call'[t] = call[t]
    BY <1>4
  <2>2. pc[t] # "idle" /\ call[t].name = "set"
    BY <2>1 DEF Storing
  <2>3. CASE MemorySet(t)
    <3>1. Owner[t] = p
      BY CacheConstants DEF OneProcess
    <3> QED BY <1>1, <2>1, <2>3, <3>1, PutSteps
  <2>4. CASE ~MemorySet(t)
    <3>1. pc[t] # "memory"
      BY <1>1, <2>2, <2>4, PastMemory DEF Storing
    <3>2. CASE e \in Entries(memory[p])
      BY <1>3, <2>1, <3>1, <3>2 DEF OwnFresh
    <3>3. ASSUME NEW u \in Thread, Promote(u) \/ MemorySet(u), e.key = call[u].key, e.val = call[u].val
          PROVE  e.val = call'[t].val
      <4>1. pc[u] # "idle"
        BY <3>3 DEF Promote, MemorySet
      <4>2. u = t
        BY <1>10, <2>1, <2>2, <3>3, <4>1
      <4> QED BY <2>1, <3>3, <4>2
    <3> QED BY <1>1, <3>2, <3>3, MemorySteps
  <2> QED BY <2>3, <2>4
<1>16. AnswerFresh'
  <2> SUFFICES ASSUME NEW t \in Thread, answer'[t] # None, call'[t].key \notin raced,
                      NEW w \in local'[t].known, stored[w].key = call'[t].key, answer'[t] \in stored[w].older
               PROVE  FALSE
    BY <1>4, <1>9 DEF AnswerFresh
  <2>1. call'[t].key = call[t].key
    BY <1>9
  <2>2. CASE answer'[t] = answer[t] /\ local'[t].known = local[t].known
    BY <1>3, <2>1, <2>2 DEF AnswerFresh
  <2>3. ASSUME local'[t].known = local[t].known, NEW v, v = answer'[t], stored[v].key = call[t].key
        PROVE  Overwritten(v)
    BY <2>1, <2>3 DEF Alone, Overwritten
  <2>4. CASE local'[t].known = local[t].known /\ pc[t] = "promoting" /\ answer'[t] = call[t].val
    <3>1. stored[answer'[t]].key = call[t].key
      BY <1>3, <2>4 DEF ThreadKeys
    <3> QED BY <1>3, <2>1, <2>3, <2>4, <3>1 DEF FoundFresh
  <2>5. ASSUME local'[t].known = local[t].known, Owner[t] \in Process,
               NEW e \in Entries(memory[Owner[t]]), e.key = call[t].key, answer'[t] = e.val
        PROVE  FALSE
    <3>1. stored[answer'[t]].key = call[t].key
      BY <1>3, <2>5 DEF MemoryKeys
    <3> QED BY <1>3, <2>1, <2>3, <2>5, <3>1 DEF MemoryFresh
  <2> QED BY <1>1, <2>2, <2>4, <2>5, AnswerSteps
<1> QED BY <1>11, <1>12, <1>13, <1>14, <1>15, <1>16

LEMMA FreshStarts ==
  ASSUME FileInv, Alone, KeyInv, FreshInv, Starts
  PROVE  FreshInv'
<1>1. TypeInv /\ Points /\ Numbered
  BY DEF FileInv
<1>2. PICK t \in Thread, k \in Key, name \in {"get", "set", "invalidate"} : Start(t, name, k)
  BY DEF Starts
<1> DEFINE n == Len(stored)
<1>3. /\ UNCHANGED <<file, torn, tears, memory, index, ended>>
      /\ pc' = [pc EXCEPT ![t] = "memory"]
      /\ \A u \in Thread \ {t} : pc'[u] = pc[u] /\ call'[u] = call[u] /\ answer'[u] = answer[u] /\ local'[u] = local[u]
      /\ answer'[t] = None
      /\ \A v \in 1..n : v \in 1..Len(stored') /\ stored'[v] = stored[v]
  BY <1>1, <1>2, Numbering
<1>4. pc'[t] = "memory"
  BY <1>1, <1>3 DEF TypeInv
<1>5. raced \subseteq raced'
  BY <1>2 DEF Start
<1>6. ended \subseteq 1..n
  BY <1>1 DEF TypeInv
<1>7. ASSUME NEW v \in 1..n, Overwritten(v)' PROVE Overwritten(v)
  BY <1>3, <1>6, <1>7 DEF Overwritten
<1> HIDE DEF n
<1> SUFFICES ASSUME tears' = 0
             PROVE  MemoryFresh' /\ LastFresh' /\ IndexFresh' /\ FoundFresh' /\ OwnFresh' /\ AnswerFresh'
  BY DEF FreshInv
<1>8. /\ FileKeys /\ MemoryKeys /\ IndexKeys /\ ThreadKeys
      /\ MemoryFresh /\ LastFresh /\ IndexFresh /\ FoundFresh /\ OwnFresh /\ AnswerFresh
  BY <1>3 DEF KeyInv, FreshInv
<1>9. \A i \in 1..Len(file) : file[i] # Broken => file[i].val \in 1..n
  BY <1>1 DEF Numbered, n
<1>10. MemoryFresh'
  BY <1>3, <1>5, <1>7, <1>8 DEF MemoryFresh, MemoryKeys, n
<1>11. LastFresh'
  <2> SUFFICES ASSUME NEW j \in Key, NEW v, j \notin raced', LinesOf(file', j) # {},
                      v = file'[LastLine(file', j)].val, Overwritten(v)'
               PROVE  FALSE
    BY DEF LastFresh
  <2>1. file \in Seq(Lines \union {Broken}) /\ LinesOf(file, j) # {} /\ v = file[LastLine(file, j)].val
    BY <1>1, <1>3 DEF TypeInv
  <2>2. LastLine(file, j) \in 1..Len(file)
    BY <2>1, LastOfKey
  <2>3. v \in 1..n
    BY <1>8, <1>9, <2>1, <2>2 DEF FileKeys
  <2>4. ~Overwritten(v)
    BY <1>5, <1>8, <2>1 DEF LastFresh
  <2> QED BY <1>7, <2>3, <2>4
<1>12. IndexFresh'
  <2> SUFFICES ASSUME NEW p \in Process, NEW j \in Key, NEW v, j \notin raced', index[p][j] # None,
                      v = file[index[p][j].line].val, Overwritten(v)'
               PROVE  FALSE
    BY <1>3 DEF IndexFresh
  <2>1. index[p][j].line \in 1..Len(file)
    BY <1>8 DEF IndexKeys
  <2>2. v \in 1..n
    BY <1>8, <1>9, <2>1 DEF FileKeys
  <2>3. ~Overwritten(v)
    BY <1>5, <1>8 DEF IndexFresh
  <2> QED BY <1>7, <2>2, <2>3
<1>13. FoundFresh'
  <2> SUFFICES ASSUME NEW u \in Thread, NEW v, pc'[u] = "promoting", call'[u].key \notin raced',
                      v = call'[u].val, Overwritten(v)'
               PROVE  FALSE
    BY DEF FoundFresh
  <2>1. u # t /\ pc[u] = "promoting" /\ call'[u] = call[u]
    BY <1>3, <1>4
  <2>2. v \in 1..n
    BY <1>8, <2>1 DEF ThreadKeys, n
  <2>3. ~Overwritten(v)
    BY <1>5, <1>8, <2>1 DEF FoundFresh
  <2> QED BY <1>7, <2>2, <2>3
<1>14. OwnFresh'
  <2> SUFFICES ASSUME NEW u \in Thread, Storing(u)', pc'[u] # "memory", call'[u].key \notin raced',
                      NEW p \in Process, NEW e \in Entries(memory[p]), e.key = call'[u].key
               PROVE  e.val = call'[u].val
    BY <1>3 DEF OwnFresh
  <2>1. u # t
    BY <1>4
  <2>2. pc'[u] = pc[u] /\ call'[u] = call[u]
    BY <1>3, <2>1
  <2>3. Storing(u)
    BY <2>2 DEF Storing
  <2> QED BY <1>5, <1>8, <2>2, <2>3 DEF OwnFresh
<1>15. AnswerFresh'
  <2> SUFFICES ASSUME NEW u \in Thread, answer'[u] # None, call'[u].key \notin raced',
                      NEW w \in local'[u].known, stored'[w].key = call'[u].key, answer'[u] \in stored'[w].older
               PROVE  FALSE
    BY DEF AnswerFresh
  <2>1. u # t
    BY <1>3
  <2>2. call'[u] = call[u] /\ answer'[u] = answer[u] /\ local'[u] = local[u]
    BY <1>3, <2>1
  <2>3. w \in 1..n
    BY <1>6, <2>2 DEF Alone
  <2>4. stored'[w] = stored[w]
    BY <1>3, <2>3 DEF n
  <2> QED BY <1>5, <1>8, <2>2, <2>4 DEF AnswerFresh
<1> QED BY <1>10, <1>11, <1>12, <1>13, <1>14, <1>15

CacheInv == FileInv /\ Alone /\ KeyInv /\ FreshInv

LEMMA CacheInvAlways ==
  ASSUME OneProcess
  PROVE  Spec => []CacheInv
<1>1. Init => CacheInv
  <2> SUFFICES ASSUME Init PROVE CacheInv
    OBVIOUS
  <2>1. FileInv
    BY FileInvInit
  <2>2. /\ file = <<>> /\ torn = FALSE /\ memory = [p \in Process |-> <<>>]
        /\ index = [p \in Process |-> [k \in Key |-> None]]
        /\ pc = [t \in Thread |-> "idle"] /\ answer = [t \in Thread |-> None]
        /\ local = [t \in Thread |-> Fresh] /\ ended = {}
    BY DEF Init
  <2>3. Len(file) = 0 /\ \A p \in Process : Entries(memory[p]) = {}
    BY <2>2 DEF Entries
  <2>4. Alone
    BY <2>2 DEF Alone, Writing, Fresh
  <2>5. KeyInv
    BY <2>2, <2>3 DEF KeyInv, FileKeys, MemoryKeys, IndexKeys, ThreadKeys
  <2>6. \A v : ~Overwritten(v)
    BY <2>2 DEF Overwritten
  <2>7. FreshInv
    BY <2>2, <2>6 DEF FreshInv, MemoryFresh, LastFresh, IndexFresh, FoundFresh, OwnFresh, AnswerFresh, Storing
  <2> QED BY <2>1, <2>4, <2>5, <2>7 DEF CacheInv
<1>2. CacheInv /\ [Next]_vars => CacheInv'
  <2> SUFFICES ASSUME FileInv, Alone, KeyInv, FreshInv, [Next]_vars PROVE CacheInv'
    BY DEF CacheInv
  <2>1. FileInv'
    BY FileInvStep
  <2>2. TypeInv /\ Points
    BY DEF FileInv
  <2>3. CASE Works
    BY <2>1, <2>2, <2>3, AloneWorks, KeyWorks, FreshWorks DEF CacheInv
  <2>4. CASE Starts
    BY <2>1, <2>2, <2>4, AloneStarts, KeyStarts, FreshStarts DEF CacheInv
  <2> QED BY <2>3, <2>4, StepKinds
<1> QED BY <1>1, <1>2, PTL DEF Spec

\* caching.py DiskCache.get: when one process uses the file and no line was cut
\* off, what a get of any of its threads returns was set under its key.
THEOREM AnswerIsForKeyAlways ==
  ASSUME OneProcess
  PROVE  Spec => []AnswerIsForKey
<1>1. CacheInv => AnswerIsForKey
  BY DEF CacheInv, KeyInv, ThreadKeys, AnswerIsForKey
<1> QED BY <1>1, CacheInvAlways, PTL

\* caching.py MultiTierCache.get: in the same circumstances, a get on a key whose
\* calls never overlapped returns nothing that a set which had ended before the
\* get began overwrote, through every eviction, promotion, expiry and restart.
THEOREM NoStaleReadAlways ==
  ASSUME OneProcess
  PROVE  Spec => []NoStaleReadUnlessRaced
<1>1. CacheInv => NoStaleReadUnlessRaced
  BY DEF CacheInv, FreshInv, AnswerFresh, NoStaleReadUnlessRaced
<1> QED BY <1>1, CacheInvAlways, PTL
=============================================================================
