--------------------------- MODULE Dispatch_proofs ---------------------------
(***************************************************************************)
(* The routing function honours its gates, quarantines are served and      *)
(* breakers trip for cause, for any number of threads, projects and        *)
(* models, any thresholds and any errors of the gateways.                  *)
(***************************************************************************)
EXTENDS Dispatch, Counting_proofs, TLAPS

-----------------------------------------------------------------------------
HealthRecord == [streak : Nat, n429 : Nat, n500 : Nat, n401 : Nat,
                 until : Nat, retryUntil : Nat, failures : Nat]

Local == [unquarantined : Nat, cleared : Nat, closed : Nat,
          stamp : Nat, code : {429, 500, 502, 401, None}, retry : Nat]

Sequence(s) == s = [i \in 1..Len(s) |-> s[i]] /\ Len(s) \in Nat

Typed ==
  /\ now \in Nat
  /\ health \in [Model -> HealthRecord]
  /\ pc \in [Thread -> ProgramPoint]
  /\ local \in [Thread -> Local]
  /\ todo = [t \in Thread |-> todo[t]]
  /\ Sequence(failed)
  /\ \A t \in Thread : pc[t] \notin {"idle", "choosing"} => Candidate(t) \in Model

\* What a thread that passed a gate of the tracker may still rely on: no
\* failure of the model was recorded since, or the gate is still open.
StillOpen(t, n, shut) ==
  /\ n <= health[Candidate(t)].failures
  /\ n = health[Candidate(t)].failures => ~shut

Passed(t) ==
  /\ pc[t] \in {"unquarantined", "cleared", "sending"} =>
       StillOpen(t, local[t].unquarantined, Quarantined(Candidate(t)))
  /\ pc[t] \in {"cleared", "sending"} =>
       StillOpen(t, local[t].cleared, InRetryAfter(Candidate(t)))

GateInv == Typed /\ \A t \in Thread : Passed(t)

-----------------------------------------------------------------------------
LEMMA SequenceOn == ASSUME NEW s, NEW x, Sequence(s) PROVE Sequence(Append(s, x))
<1> DEFINE S == {s[i] : i \in 1..Len(s)} \cup {x}
<1>1. s \in Seq(S) /\ x \in S
  <2>1. s \in [1..Len(s) -> S] /\ Len(s) \in Nat
    BY DEF Sequence
  <2> HIDE DEF S
  <2>2. s \in Seq(S)
    BY <2>1
  <2> QED BY <2>2 DEF S
<1> HIDE DEF S
<1>2. Append(s, x) \in Seq(S)
  BY <1>1, AppendProperties
<1> QED BY <1>2, LenProperties DEF Sequence

LEMMA InitGates == Init => GateInv
<1> SUFFICES ASSUME Init PROVE GateInv
  OBVIOUS
<1>1. Healthy \in HealthRecord /\ Fresh \in Local
  BY DEF Healthy, HealthRecord, Fresh, Local
<1>2. /\ now \in Nat /\ health \in [Model -> HealthRecord] /\ local \in [Thread -> Local]
      /\ todo = [t \in Thread |-> todo[t]] /\ Sequence(failed)
  BY <1>1 DEF Init, Sequence
<1>3. pc \in [Thread -> ProgramPoint] /\ \A t \in Thread : pc[t] = "idle"
  BY DEF Init, ProgramPoint
<1> QED BY <1>2, <1>3 DEF GateInv, Typed, Passed

\* A thread's step that records nothing does not disturb the other threads,
\* nor itself unless it has passed the health check.
LEMMA QuietStep ==
  ASSUME GateInv, NEW t \in Thread, Typed', UNCHANGED <<now, health>>,
         \A u \in Thread \ {t} : pc'[u] = pc[u] /\ local'[u] = local[u] /\ todo'[u] = todo[u],
         Passed(t)'
  PROVE  GateInv'
<1>1. ASSUME NEW u \in Thread \ {t} PROVE Passed(u)'
  BY DEF GateInv, Passed, StillOpen, Candidate, Quarantined, InRetryAfter
<1> QED BY <1>1 DEF GateInv

\* A step that records an outcome counts a failure, or shuts no gate.
LEMMA RecordStep ==
  ASSUME GateInv, NEW t \in Thread, NEW m \in Model, NEW h \in HealthRecord,
         Typed', now' = now, health' = [health EXCEPT ![m] = h],
         \/ h.failures = health[m].failures + 1
         \/ /\ h.failures = health[m].failures
            /\ h.until <= health[m].until /\ h.retryUntil = health[m].retryUntil,
         \A u \in Thread \ {t} : pc'[u] = pc[u] /\ local'[u] = local[u] /\ todo'[u] = todo[u],
         pc'[t] \notin {"unquarantined", "cleared", "sending"}
  PROVE  GateInv'
<1>1. ASSUME NEW u \in Thread \ {t} PROVE Passed(u)'
  <2> SUFFICES ASSUME pc[u] \in {"unquarantined", "cleared", "sending"}
               PROVE  Passed(u)'
    BY DEF Passed
  <2>1. /\ Typed /\ Passed(u) /\ Candidate(u) \in Model /\ Candidate(u)' = Candidate(u)
        /\ local'[u] = local[u] /\ pc'[u] = pc[u]
        /\ local[u].unquarantined \in Nat /\ local[u].cleared \in Nat
    BY DEF GateInv, Typed, Candidate, Local
  <2>2. /\ health[m].failures \in Nat /\ health[m].until \in Nat /\ health[m].retryUntil \in Nat
        /\ h.until \in Nat /\ health'[m] = h /\ now \in Nat
    BY <2>1 DEF Typed, HealthRecord
  <2>3. CASE Candidate(u) = m
    <3>1. CASE h.failures = health[m].failures + 1
      BY <2>1, <2>2, <2>3, <3>1 DEF Passed, StillOpen
    <3>2. CASE /\ h.failures = health[m].failures
               /\ h.until <= health[m].until /\ h.retryUntil = health[m].retryUntil
      BY <2>1, <2>2, <2>3, <3>2 DEF Passed, StillOpen, Quarantined, InRetryAfter
    <3> QED BY <3>1, <3>2
  <2>4. CASE Candidate(u) # m
    <3>1. health'[Candidate(u)] = health[Candidate(u)]
      BY <2>1, <2>4 DEF Typed
    <3> QED BY <2>1, <3>1 DEF Passed, StillOpen, Quarantined, InRetryAfter
  <2> QED BY <2>3, <2>4
<1>2. Passed(t)'
  BY DEF Passed
<1> QED BY <1>1, <1>2 DEF GateInv

-----------------------------------------------------------------------------
LEMMA CallStep == ASSUME GateInv, NEW t \in Thread, NEW r \in Request, Call(t, r) PROVE GateInv'
<1>1. /\ Typed /\ UNCHANGED <<now, health, local, failed>> /\ pc[t] = "idle"
      /\ pc' = pc \/ pc' = [pc EXCEPT ![t] = "choosing"]
      /\ todo' = todo \/ todo' = [todo EXCEPT ![t] = Candidates(r)]
  BY DEF GateInv, Call, Goto
<1>2. /\ pc' \in [Thread -> ProgramPoint] /\ pc'[t] \in {"idle", "choosing"}
      /\ todo' = [u \in Thread |-> todo'[u]]
      /\ \A u \in Thread \ {t} : pc'[u] = pc[u] /\ local'[u] = local[u] /\ todo'[u] = todo[u]
  BY <1>1 DEF Typed, ProgramPoint
<1>3. Typed'
  BY <1>1, <1>2 DEF Typed, Candidate
<1> QED BY <1>1, <1>2, <1>3, QuietStep DEF Passed

LEMMA GiveUpStep ==
  ASSUME GateInv, NEW t \in Thread, GiveUp(t) \/ RaiseOther(t) \/ Store(t) PROVE GateInv'
<1>1. /\ Typed /\ UNCHANGED <<now, health, failed>> /\ pc' = [pc EXCEPT ![t] = "idle"]
      /\ local' = local \/ local' = [local EXCEPT ![t] = Fresh]
      /\ todo' = todo \/ todo' = [todo EXCEPT ![t] = <<>>]
  BY DEF GateInv, GiveUp, RaiseOther, Store, Goto, Discard
<1>2. Fresh \in Local
  BY DEF Fresh, Local
<1>3. /\ pc' \in [Thread -> ProgramPoint] /\ pc'[t] = "idle" /\ local' \in [Thread -> Local]
      /\ todo' = [u \in Thread |-> todo'[u]]
      /\ \A u \in Thread \ {t} : pc'[u] = pc[u] /\ local'[u] = local[u] /\ todo'[u] = todo[u]
  BY <1>1, <1>2 DEF Typed, ProgramPoint
<1>4. Typed'
  BY <1>1, <1>3 DEF Typed, Candidate
<1> QED BY <1>1, <1>3, <1>4, QuietStep DEF Passed

\* A gate that is found shut.
LEMMA RefuseStep ==
  ASSUME GateInv, NEW t \in Thread, Refuse(t), UNCHANGED <<now, health>>, Sequence(failed)'
  PROVE  GateInv'
<1>1. /\ Typed /\ pc' = [pc EXCEPT ![t] = "choosing"] /\ todo' = [todo EXCEPT ![t] = Tail(@)]
      /\ local' = [local EXCEPT ![t] = Fresh]
  BY DEF GateInv, Refuse, Discard, Goto
<1>2. Fresh \in Local
  BY DEF Fresh, Local
<1>3. /\ pc' \in [Thread -> ProgramPoint] /\ local' \in [Thread -> Local]
      /\ todo' = [u \in Thread |-> todo'[u]] /\ pc'[t] = "choosing"
      /\ \A u \in Thread \ {t} : pc'[u] = pc[u] /\ local'[u] = local[u] /\ todo'[u] = todo[u]
  BY <1>1, <1>2 DEF Typed, ProgramPoint
<1>4. Typed'
  BY <1>1, <1>3 DEF Typed, Candidate
<1> QED BY <1>3, <1>4, QuietStep DEF Passed

LEMMA CheckQuarantineStep == ASSUME GateInv, NEW t \in Thread, CheckQuarantine(t) PROVE GateInv'
<1>1. Typed /\ UNCHANGED <<now, health, failed>>
  BY DEF GateInv, CheckQuarantine
<1>2. CASE Unquarantined(Candidate(t)) /\ ~Refuse(t)
  <2>1. /\ pc' = [pc EXCEPT ![t] = "unquarantined"] /\ todo' = todo /\ Candidate(t) \in Model
        /\ local' = [local EXCEPT ![t].unquarantined = health[Candidate(t)].failures]
        /\ ~Quarantined(Candidate(t))
    BY <1>2 DEF CheckQuarantine, Goto, Unquarantined
  <2>2. health[Candidate(t)].failures \in Nat
    BY <1>1, <2>1 DEF Typed, HealthRecord
  <2>3. /\ pc' \in [Thread -> ProgramPoint] /\ pc'[t] = "unquarantined"
        /\ local' \in [Thread -> Local]
        /\ local'[t].unquarantined = health[Candidate(t)].failures
        /\ \A u \in Thread \ {t} : pc'[u] = pc[u] /\ local'[u] = local[u] /\ todo'[u] = todo[u]
    BY <1>1, <2>1, <2>2 DEF Typed, ProgramPoint, Local
  <2>4. Typed'
    BY <1>1, <2>1, <2>3 DEF Typed, Candidate
  <2>5. Passed(t)'
    BY <1>1, <2>1, <2>2, <2>3 DEF Passed, StillOpen, Candidate, Quarantined
  <2> QED BY <1>1, <2>3, <2>4, <2>5, QuietStep
<1>3. CASE Refuse(t)
  BY <1>1, <1>3, RefuseStep DEF Typed
<1> QED BY <1>2, <1>3 DEF CheckQuarantine

LEMMA CheckRetryAfterStep == ASSUME GateInv, NEW t \in Thread, CheckRetryAfter(t) PROVE GateInv'
<1>1. Typed /\ UNCHANGED <<now, health, failed>> /\ pc[t] = "unquarantined" /\ Candidate(t) \in Model
  BY DEF GateInv, CheckRetryAfter, Typed
<1>2. CASE ~InRetryAfter(Candidate(t)) /\ ~Refuse(t)
  <2>1. /\ pc' = [pc EXCEPT ![t] = "cleared"] /\ todo' = todo
        /\ local' = [local EXCEPT ![t].cleared = health[Candidate(t)].failures]
    BY <1>2 DEF CheckRetryAfter, Goto
  <2>2. health[Candidate(t)].failures \in Nat
    BY <1>1 DEF Typed, HealthRecord
  <2>3. /\ pc' \in [Thread -> ProgramPoint] /\ pc'[t] = "cleared"
        /\ local' \in [Thread -> Local]
        /\ local'[t].cleared = health[Candidate(t)].failures
        /\ local'[t].unquarantined = local[t].unquarantined
        /\ \A u \in Thread \ {t} : pc'[u] = pc[u] /\ local'[u] = local[u] /\ todo'[u] = todo[u]
    BY <1>1, <2>1, <2>2 DEF Typed, ProgramPoint, Local
  <2>4. Typed'
    BY <1>1, <2>1, <2>3 DEF Typed, Candidate
  <2>5. Passed(t)'
    BY <1>1, <1>2, <2>1, <2>2, <2>3
    DEF GateInv, Passed, StillOpen, Candidate, Quarantined, InRetryAfter
  <2> QED BY <1>1, <2>3, <2>4, <2>5, QuietStep
<1>3. CASE Refuse(t)
  BY <1>1, <1>3, RefuseStep DEF Typed
<1> QED BY <1>2, <1>3 DEF CheckRetryAfter

LEMMA CheckBreakerStep == ASSUME GateInv, NEW t \in Thread, CheckBreaker(t) PROVE GateInv'
<1>1. Typed /\ UNCHANGED <<now, health, failed>> /\ pc[t] = "cleared" /\ Candidate(t) \in Model
  BY DEF GateInv, CheckBreaker, Typed
<1>2. CASE ~Refuse(t)
  <2>1. /\ pc' = [pc EXCEPT ![t] = "sending"] /\ todo' = todo
        /\ local' = [local EXCEPT ![t].closed = Len(failed)]
    BY <1>2 DEF CheckBreaker, Goto
  <2>2. Len(failed) \in Nat
    BY <1>1 DEF Typed, Sequence
  <2>3. /\ pc' \in [Thread -> ProgramPoint] /\ pc'[t] = "sending"
        /\ local' \in [Thread -> Local]
        /\ local'[t].cleared = local[t].cleared
        /\ local'[t].unquarantined = local[t].unquarantined
        /\ \A u \in Thread \ {t} : pc'[u] = pc[u] /\ local'[u] = local[u] /\ todo'[u] = todo[u]
    <3>1. \A l \in Local, n \in Nat :
            /\ [l EXCEPT !.closed = n] \in Local
            /\ [l EXCEPT !.closed = n].cleared = l.cleared
            /\ [l EXCEPT !.closed = n].unquarantined = l.unquarantined
      BY DEF Local
    <3>2. local' = [local EXCEPT ![t] = [local[t] EXCEPT !.closed = Len(failed)]]
      BY <2>1
    <3>3. local[t] \in Local /\ local'[t] = [local[t] EXCEPT !.closed = Len(failed)]
      BY <1>1, <3>2 DEF Typed
    <3> QED BY <1>1, <2>1, <2>2, <3>1, <3>2, <3>3 DEF Typed, ProgramPoint
  <2>4. Typed'
    BY <1>1, <2>1, <2>3 DEF Typed, Candidate
  <2>5. Passed(t)'
    BY <1>1, <2>1, <2>3 DEF GateInv, Passed, StillOpen, Candidate, Quarantined, InRetryAfter
  <2> QED BY <1>1, <2>3, <2>4, <2>5, QuietStep
<1>3. CASE Refuse(t)
  BY <1>1, <1>3, RefuseStep DEF Typed
<1> QED BY <1>2, <1>3

\* The gateway answers or raises GatewayError.
LEMMA ResponseStep ==
  ASSUME GateInv, NEW t \in Thread, Respond(t) \/ \E f \in Fault : RaiseGatewayError(t, f)
  PROVE  GateInv'
<1>1. /\ Typed /\ UNCHANGED <<now, health, todo, failed>> /\ pc[t] = "sending"
      /\ \/ pc' = [pc EXCEPT ![t] = "answered"] /\ ReadClock(t)
         \/ /\ pc' = [pc EXCEPT ![t] = "erring"]
            /\ \E f \in Fault : local' = [local EXCEPT ![t] =
                 [Fresh EXCEPT !.stamp = now, !.code = f.code, !.retry = f.retry]]
  BY DEF GateInv, Respond, RaiseGatewayError, Goto
<1>2. /\ [Fresh EXCEPT !.stamp = now] \in Local
      /\ \A f \in Fault :
           [Fresh EXCEPT !.stamp = now, !.code = f.code, !.retry = f.retry] \in Local
  <2>1. now \in Nat
    BY <1>1 DEF Typed
  <2>2. ASSUME NEW f \in Fault PROVE f.code \in {429, 500, 502, 401, None} /\ f.retry \in Nat
    <3>1. f \in [code : {429, 500, 502, 401, None}, retry : Nat]
      BY DispatchAssumption
    <3> QED BY <3>1
  <2>3. [Fresh EXCEPT !.stamp = now] \in Local
    BY <2>1 DEF Fresh, Local
  <2>4. ASSUME NEW f \in Fault
        PROVE  [Fresh EXCEPT !.stamp = now, !.code = f.code, !.retry = f.retry] \in Local
    <3> DEFINE a == [Fresh EXCEPT !.stamp = now]
               b == [a EXCEPT !.code = f.code]
               c == [b EXCEPT !.retry = f.retry]
    <3>1. [Fresh EXCEPT !.stamp = now, !.code = f.code, !.retry = f.retry] = c
      OBVIOUS
    <3>2. a \in Local
      BY <2>3
    <3> HIDE DEF a
    <3>3. b \in Local
      BY <2>2, <3>2 DEF Local
    <3> HIDE DEF b
    <3>4. c \in Local
      BY <2>2, <3>3 DEF Local
    <3> HIDE DEF c
    <3> QED BY <3>1, <3>4
  <2> QED BY <2>3, <2>4
<1>3. local' \in [Thread -> Local] /\ \A u \in Thread \ {t} : local'[u] = local[u]
  BY <1>1, <1>2 DEF Typed, ReadClock
<1>4. /\ pc' \in [Thread -> ProgramPoint] /\ pc'[t] \in {"answered", "erring"}
      /\ \A u \in Thread \ {t} : pc'[u] = pc[u]
  BY <1>1 DEF Typed, ProgramPoint
<1>5. Typed'
  BY <1>1, <1>3, <1>4 DEF Typed, Candidate
<1> QED BY <1>1, <1>3, <1>4, <1>5, QuietStep DEF Passed

\* The fields of a record are numbers.
LEMMA HealthFields ==
  ASSUME NEW h \in HealthRecord
  PROVE  /\ h.streak \in Nat /\ h.n429 \in Nat /\ h.n500 \in Nat /\ h.n401 \in Nat
         /\ h.until \in Nat /\ h.retryUntil \in Nat /\ h.failures \in Nat
BY DEF HealthRecord

LEMMA CountedFact ==
  ASSUME NEW h \in HealthRecord, NEW st \in Local
  PROVE  Counted(h, st) \in HealthRecord /\ Counted(h, st).failures = h.failures + 1
<1> DEFINE retry == IF st.retry > 0 THEN st.stamp + st.retry ELSE h.retryUntil
           a == [h EXCEPT !.streak = h.streak + 1]
           b == [a EXCEPT !.n429 = h.n429 + Hit(st.code, 429)]
           c == [b EXCEPT !.n500 = h.n500 + Hit(st.code, 500)]
           d == [c EXCEPT !.n401 = h.n401 + Hit(st.code, 401)]
           e == [d EXCEPT !.retryUntil = retry]
           g == [e EXCEPT !.failures = h.failures + 1]
<1>1. \A code : Hit(st.code, code) \in Nat
  BY DEF Hit
<1>2. st.stamp \in Nat /\ st.retry \in Nat
  BY DEF Local
<1>3. retry \in Nat
  <2>1. h.retryUntil \in Nat
    BY HealthFields
  <2> QED BY <1>2, <2>1
<1>4. /\ h.streak + 1 \in Nat /\ h.n429 + Hit(st.code, 429) \in Nat /\ h.failures + 1 \in Nat
      /\ h.n500 + Hit(st.code, 500) \in Nat /\ h.n401 + Hit(st.code, 401) \in Nat
  <2>1. h.streak \in Nat /\ h.n429 \in Nat /\ h.n500 \in Nat /\ h.n401 \in Nat /\ h.failures \in Nat
    BY HealthFields
  <2>2. /\ Hit(st.code, 429) \in Nat /\ Hit(st.code, 500) \in Nat /\ Hit(st.code, 401) \in Nat
    BY <1>1
  <2> QED BY <2>1, <2>2
<1>5. Counted(h, st) = g
  BY DEF Counted, HealthRecord
<1> HIDE DEF g, retry
<1>6. a \in HealthRecord
  BY <1>4 DEF HealthRecord
<1> HIDE DEF a
<1>7. b \in HealthRecord
  BY <1>4, <1>6 DEF HealthRecord
<1> HIDE DEF b
<1>8. c \in HealthRecord
  BY <1>4, <1>7 DEF HealthRecord
<1> HIDE DEF c
<1>9. d \in HealthRecord
  BY <1>4, <1>8 DEF HealthRecord
<1> HIDE DEF d
<1>10. e \in HealthRecord
  BY <1>3, <1>9 DEF HealthRecord
<1> HIDE DEF e
<1>11. g \in HealthRecord /\ g.failures = h.failures + 1
  BY <1>4, <1>10 DEF g, HealthRecord
<1> QED BY <1>5, <1>11

\* The error is counted, and may quarantine the model.
LEMMA TrackFailureStep == ASSUME GateInv, NEW t \in Thread, TrackFailure(t) PROVE GateInv'
<1> DEFINE m == Candidate(t)
           g == Counted(health[m], local[t])
           h == [g EXCEPT !.until = QuarantineEnd(g, local[t].stamp)]
<1>1. /\ Typed /\ UNCHANGED <<now, todo, failed>> /\ pc[t] = "erring" /\ m \in Model
      /\ pc' = [pc EXCEPT ![t] = "charging"] /\ ReadClock(t)
      /\ health' = [health EXCEPT ![m] = h]
  BY DEF GateInv, TrackFailure, Goto, Typed
<1>2. health[m] \in HealthRecord /\ local[t] \in Local /\ Ttl \in Nat
  BY <1>1, DispatchAssumption DEF Typed
<1>3. g \in HealthRecord /\ g.failures = health[m].failures + 1
  BY <1>2, CountedFact
<1> HIDE DEF g
<1>4. QuarantineEnd(g, local[t].stamp) \in Nat
  BY <1>2, <1>3 DEF QuarantineEnd, Local, HealthRecord
<1>5. h \in HealthRecord /\ h.failures = health[m].failures + 1
  BY <1>3, <1>4 DEF HealthRecord
<1> HIDE DEF h
<1>6. [Fresh EXCEPT !.stamp = now] \in Local
  BY <1>1 DEF Typed, Fresh, Local
<1>7. /\ local' \in [Thread -> Local] /\ health' \in [Model -> HealthRecord]
      /\ pc' \in [Thread -> ProgramPoint] /\ pc'[t] = "charging"
      /\ \A u \in Thread \ {t} : pc'[u] = pc[u] /\ local'[u] = local[u]
  BY <1>1, <1>5, <1>6 DEF Typed, ReadClock, ProgramPoint
<1>8. Typed'
  BY <1>1, <1>7 DEF Typed, Candidate
<1> QED BY <1>1, <1>5, <1>7, <1>8, RecordStep

LEMMA TrackSuccessStep == ASSUME GateInv, NEW t \in Thread, TrackSuccess(t) PROVE GateInv'
<1> DEFINE m == Candidate(t)
           h == Relieved(health[m], local[t].stamp)
<1>1. /\ Typed /\ UNCHANGED <<now, todo, failed>> /\ pc[t] = "answered" /\ m \in Model
      /\ pc' = [pc EXCEPT ![t] = "crediting"] /\ local' = [local EXCEPT ![t] = Fresh]
      /\ health' = [health EXCEPT ![m] = h]
  BY DEF GateInv, TrackSuccess, Goto, Discard, Typed
<1>2. health[m] \in HealthRecord
  BY <1>1 DEF Typed
<1>3. /\ h \in HealthRecord /\ h.failures = health[m].failures
      /\ h.until <= health[m].until /\ h.retryUntil = health[m].retryUntil
  <2> DEFINE a == [health[m] EXCEPT !.streak = 0]
             until == IF local[t].stamp >= a.until THEN 0 ELSE a.until
  <2>1. h = [a EXCEPT !.until = until]
    BY DEF Relieved
  <2> HIDE DEF h, until
  <2>2. /\ a \in HealthRecord /\ a.failures = health[m].failures
        /\ a.until = health[m].until /\ a.retryUntil = health[m].retryUntil
    BY <1>2 DEF HealthRecord
  <2> HIDE DEF a
  <2>3. until \in Nat /\ until <= a.until
    BY <2>2, HealthFields DEF until
  <2> QED BY <2>1, <2>2, <2>3 DEF HealthRecord
<1> HIDE DEF h
<1>4. Fresh \in Local
  BY DEF Fresh, Local
<1>5. /\ local' \in [Thread -> Local] /\ health' \in [Model -> HealthRecord]
      /\ pc' \in [Thread -> ProgramPoint] /\ pc'[t] = "crediting"
      /\ \A u \in Thread \ {t} : pc'[u] = pc[u] /\ local'[u] = local[u]
  BY <1>1, <1>3, <1>4 DEF Typed, ProgramPoint
<1>6. Typed'
  BY <1>1, <1>5 DEF Typed, Candidate
<1> QED BY <1>1, <1>3, <1>5, <1>6, RecordStep

LEMMA BreakerStep ==
  ASSUME GateInv, NEW t \in Thread, ChargeBreaker(t) \/ CreditBreaker(t) PROVE GateInv'
<1>1. CASE ChargeBreaker(t)
  <2>1. Refuse(t) /\ UNCHANGED <<now, health>> /\ Sequence(failed)'
    BY <1>1, SequenceOn DEF ChargeBreaker, GateInv, Typed
  <2> QED BY <2>1, RefuseStep
<1>2. CASE CreditBreaker(t)
  <2>1. /\ Typed /\ UNCHANGED <<now, health, todo, local, failed>> /\ pc[t] = "crediting"
        /\ pc' = [pc EXCEPT ![t] = "storing"]
    BY <1>2 DEF GateInv, CreditBreaker, Goto
  <2>2. /\ pc' \in [Thread -> ProgramPoint] /\ pc'[t] = "storing"
        /\ \A u \in Thread \ {t} : pc'[u] = pc[u] /\ local'[u] = local[u] /\ todo'[u] = todo[u]
    BY <2>1 DEF Typed, ProgramPoint
  <2>3. Typed'
    BY <2>1, <2>2 DEF Typed, Candidate
  <2> QED BY <2>1, <2>2, <2>3, QuietStep DEF Passed
<1> QED BY <1>1, <1>2

\* Time only opens the gates.
LEMMA TickStep == GateInv /\ Tick => GateInv'
<1> SUFFICES ASSUME GateInv, Tick PROVE GateInv'
  OBVIOUS
<1>1. Typed /\ now' = now + 1 /\ UNCHANGED <<health, pc, todo, local, failed>>
  BY DEF GateInv, Tick
<1>2. Typed'
  BY <1>1 DEF Typed, Candidate
<1>3. \A m \in Model : (Quarantined(m)' => Quarantined(m)) /\ (InRetryAfter(m)' => InRetryAfter(m))
  BY <1>1 DEF Quarantined, InRetryAfter, Typed, HealthRecord
<1>4. ASSUME NEW t \in Thread PROVE Passed(t)'
  <2>1. pc[t] \in {"unquarantined", "cleared", "sending"} => Candidate(t) \in Model
    BY <1>1 DEF Typed
  <2>2. Candidate(t)' = Candidate(t)
    BY <1>1 DEF Candidate
  <2>3. Passed(t)
    BY DEF GateInv
  <2> QED BY <1>1, <1>3, <2>1, <2>2, <2>3 DEF Passed, StillOpen
<1> QED BY <1>2, <1>4 DEF GateInv

LEMMA NextGates == GateInv /\ [Next]_vars => GateInv'
<1> SUFFICES ASSUME GateInv, [Next]_vars PROVE GateInv'
  OBVIOUS
<1>1. CASE UNCHANGED <<now, health, pc, todo, local, failed>>
  BY <1>1 DEF GateInv, Typed, Passed, StillOpen, Candidate, Quarantined, InRetryAfter
<1>2. UNCHANGED vars \/ (\E k \in Key : Forget(k)) =>
        UNCHANGED <<now, health, pc, todo, local, failed>>
  BY DEF vars, Forget
<1> QED BY <1>1, <1>2, TickStep, CallStep, GiveUpStep, CheckQuarantineStep, CheckRetryAfterStep,
           CheckBreakerStep, ResponseStep, TrackFailureStep, TrackSuccessStep, BreakerStep
        DEF Next, Step

-----------------------------------------------------------------------------
(* How far ahead a quarantine can end depends on what was counted.  A stamp *)
(* is never ahead of the clock, so an error that was waited for can only    *)
(* end one earlier.                                                         *)
Served(m) ==
  /\ health[m].until <= now + 3 * Ttl
  /\ health[m].n401 < Q401 => health[m].until <= now + 2 * Ttl
  /\ health[m].n401 < Q401 /\ health[m].n500 < Q500 => health[m].until <= now + Ttl

ServedInv ==
  /\ GateInv
  /\ \A t \in Thread : local[t].stamp <= now
  /\ \A m \in Model : Served(m)

Thresholds == {Q429, Q500, Q401, QStreak, Ttl, Window, Trip, Cooldown} \subseteq Nat \ {0}

LEMMA ThresholdsOK == Thresholds
BY DispatchAssumption DEF Thresholds

LEMMA InitServed == Init => ServedInv
<1> SUFFICES ASSUME Init PROVE ServedInv
  OBVIOUS
<1>1. \A t \in Thread : local[t].stamp <= now
  BY DEF Init, Fresh
<1>2. \A m \in Model : Served(m)
  BY ThresholdsOK DEF Init, Healthy, Served, Thresholds
<1> QED BY <1>1, <1>2, InitGates DEF ServedInv

\* What is counted of an error, and when the quarantine ends after it.
LEMMA CountedFields ==
  ASSUME NEW h \in HealthRecord, NEW st \in Local
  PROVE  /\ Counted(h, st).n401 >= h.n401 /\ Counted(h, st).n500 >= h.n500
         /\ Counted(h, st).until = h.until
<1> DEFINE a == Hit(st.code, 500)
           b == Hit(st.code, 401)
<1>1. a \in Nat /\ b \in Nat
  BY DEF Hit
<1>2. h.n500 \in Nat /\ h.n401 \in Nat
  BY HealthFields
<1>3. /\ Counted(h, st).n500 = h.n500 + a
      /\ Counted(h, st).n401 = h.n401 + b
      /\ Counted(h, st).until = h.until
  BY DEF Counted, HealthRecord
<1> HIDE DEF a, b
<1> QED BY <1>1, <1>2, <1>3

LEMMA TrackFailureServed ==
  ASSUME ServedInv, NEW t \in Thread, TrackFailure(t)
  PROVE  /\ ServedInv'
         /\ LET m == Candidate(t) IN
              health'[m].until < health[m].until /\ Quarantined(m) =>
                \/ health'[m].n500 >= Q500 /\ health'[m].n401 >= Q401
                \/ local[t].stamp < now
         /\ \A m \in Model : m # Candidate(t) => health'[m] = health[m]
<1> DEFINE m == Candidate(t)
           ts == local[t].stamp
           g == Counted(health[m], local[t])
           h == [g EXCEPT !.until = QuarantineEnd(g, ts)]
<1>1. /\ Typed /\ now' = now /\ pc[t] = "erring" /\ m \in Model /\ ReadClock(t)
      /\ health' = [health EXCEPT ![m] = h] /\ GateInv'
  BY TrackFailureStep DEF ServedInv, GateInv, TrackFailure, Typed
<1>2. /\ health[m] \in HealthRecord /\ local[t] \in Local /\ now \in Nat /\ ts \in Nat /\ ts <= now
  BY <1>1 DEF ServedInv, Typed, Local
<1>3. /\ g \in HealthRecord /\ g.n401 >= health[m].n401 /\ g.n500 >= health[m].n500
      /\ g.until = health[m].until
  BY <1>2, CountedFact, CountedFields
<1>4. /\ g.n500 \in Nat /\ g.n401 \in Nat /\ g.n429 \in Nat /\ g.streak \in Nat /\ g.until \in Nat
      /\ health[m].n401 \in Nat /\ health[m].n500 \in Nat
  BY <1>2, <1>3, HealthFields
<1>5. /\ h.n500 = g.n500 /\ h.n401 = g.n401 /\ h.until = QuarantineEnd(g, ts)
  BY <1>3 DEF HealthRecord
<1>6. health'[m] = h /\ \A k \in Model : k # m => health'[k] = health[k]
  BY <1>1 DEF Typed
<1> DEFINE e == QuarantineEnd(g, ts)
<1>7. e = IF g.n500 >= Q500 THEN ts + 2 * Ttl
          ELSE IF g.n401 >= Q401 THEN ts + 3 * Ttl
          ELSE IF g.n429 >= Q429 \/ g.streak >= QStreak THEN ts + Ttl
          ELSE g.until
  BY DEF QuarantineEnd
<1>8. Served(m)
  BY <1>1 DEF ServedInv
<1> HIDE DEF g, h, e
<1>9. /\ e <= now + 3 * Ttl
      /\ g.n401 < Q401 => e <= now + 2 * Ttl
      /\ g.n401 < Q401 /\ g.n500 < Q500 => e <= now + Ttl
  BY <1>2, <1>3, <1>4, <1>7, <1>8, ThresholdsOK DEF Served, Thresholds
<1>10. e < g.until => (g.n500 >= Q500 /\ g.n401 >= Q401) \/ ts < now
  BY <1>2, <1>3, <1>4, <1>7, <1>8, ThresholdsOK DEF Served, Thresholds
<1>11. e = h.until
  BY <1>5 DEF e
<1>12. \A k \in Model : Served(k)'
  <2> SUFFICES ASSUME NEW k \in Model PROVE Served(k)'
    OBVIOUS
  <2>1. CASE k = m
    BY <1>1, <1>5, <1>6, <1>9, <1>11, <2>1 DEF Served
  <2>2. CASE k # m
    BY <1>1, <1>6, <2>2 DEF ServedInv, Served
  <2> QED BY <2>1, <2>2
<1>13. \A u \in Thread : local'[u].stamp <= now'
  BY <1>1, <1>2 DEF ServedInv, ReadClock, Typed, Fresh
<1>14. ServedInv'
  BY <1>1, <1>12, <1>13 DEF ServedInv
<1>15. health'[m].until < health[m].until =>
         (health'[m].n500 >= Q500 /\ health'[m].n401 >= Q401) \/ ts < now
  BY <1>3, <1>5, <1>6, <1>10, <1>11
<1> QED BY <1>6, <1>14, <1>15

\* record_success only ends a quarantine that is over.
LEMMA TrackSuccessServed ==
  ASSUME ServedInv, NEW t \in Thread, TrackSuccess(t)
  PROVE  /\ ServedInv'
         /\ \A m \in Model : Quarantined(m) => health'[m].until = health[m].until
<1> DEFINE m == Candidate(t)
           ts == local[t].stamp
           h == Relieved(health[m], ts)
<1>1. /\ Typed /\ now' = now /\ pc[t] = "answered" /\ m \in Model
      /\ local' = [local EXCEPT ![t] = Fresh]
      /\ health' = [health EXCEPT ![m] = h] /\ GateInv'
  BY TrackSuccessStep DEF ServedInv, GateInv, TrackSuccess, Typed, Discard
<1>2. /\ health[m] \in HealthRecord /\ now \in Nat /\ ts \in Nat /\ ts <= now
      /\ health[m].until \in Nat /\ health[m].n401 \in Nat /\ health[m].n500 \in Nat
  BY <1>1, HealthFields DEF ServedInv, Typed, Local
<1>3. /\ h.n500 = health[m].n500 /\ h.n401 = health[m].n401
      /\ h.until = IF ts >= health[m].until THEN 0 ELSE health[m].until
  BY <1>2 DEF Relieved, HealthRecord
<1>4. health'[m] = h /\ \A k \in Model : k # m => health'[k] = health[k]
  BY <1>1 DEF Typed
<1> HIDE DEF h
<1>5. \A k \in Model : Served(k)'
  <2> SUFFICES ASSUME NEW k \in Model PROVE Served(k)'
    OBVIOUS
  <2>1. CASE k = m
    <3>1. Served(m)
      BY <1>1 DEF ServedInv
    <3> QED BY <1>1, <1>2, <1>3, <1>4, <2>1, <3>1, ThresholdsOK DEF Served, Thresholds
  <2>2. CASE k # m
    BY <1>1, <1>4, <2>2 DEF ServedInv, Served
  <2> QED BY <2>1, <2>2
<1>6. \A u \in Thread : local'[u].stamp <= now'
  BY <1>1, <1>2 DEF ServedInv, Typed, Fresh
<1>7. Quarantined(m) => health'[m].until = health[m].until
  BY <1>2, <1>3, <1>4 DEF Quarantined
<1> QED BY <1>1, <1>4, <1>5, <1>6, <1>7 DEF ServedInv

\* Nothing else touches the tracker.
LEMMA OtherServed ==
  ASSUME ServedInv, [Next]_vars,
         \A t \in Thread : ~TrackFailure(t) /\ ~TrackSuccess(t)
  PROVE  ServedInv' /\ health' = health
<1>1. Typed /\ GateInv'
  BY NextGates DEF ServedInv, GateInv
<1>2. CASE Tick
  <2>1. now' = now + 1 /\ UNCHANGED <<health, local>> /\ now \in Nat
    BY <1>1, <1>2 DEF Tick, Typed
  <2>2. \A t \in Thread : local[t].stamp \in Nat
    BY <1>1 DEF Typed, Local
  <2>3. \A m \in Model : health[m].until \in Nat
    BY <1>1, HealthFields DEF Typed
  <2>4. \A m \in Model : Served(m)'
    BY <2>1, <2>3, ThresholdsOK DEF ServedInv, Served, Thresholds
  <2>5. \A t \in Thread : local'[t].stamp <= now'
    BY <2>1, <2>2 DEF ServedInv
  <2> QED BY <1>1, <2>1, <2>4, <2>5 DEF ServedInv
<1>3. CASE UNCHANGED <<now, health, local>>
  BY <1>1, <1>3 DEF ServedInv, Served
<1>4. ASSUME NEW t \in Thread, Step(t) \/ \E r \in Request : Call(t, r)
      PROVE  ServedInv' /\ health' = health
  <2>1. /\ UNCHANGED <<now, health>>
        /\ \/ local' = local
           \/ \E c : \/ local' = [local EXCEPT ![t].unquarantined = c]
                     \/ local' = [local EXCEPT ![t].cleared = c]
                     \/ local' = [local EXCEPT ![t].closed = c]
           \/ Discard(t) \/ ReadClock(t)
           \/ \E f : local' = [local EXCEPT ![t] =
                [Fresh EXCEPT !.stamp = now, !.code = f.code, !.retry = f.retry]]
    <3>1. CASE \E r \in Request : Call(t, r)
      BY <3>1 DEF Call
    <3>2. CASE GiveUp(t) \/ Store(t) \/ CreditBreaker(t)
      BY <3>2 DEF GiveUp, Store, CreditBreaker
    <3>3. CASE CheckQuarantine(t) \/ CheckRetryAfter(t) \/ CheckBreaker(t)
      BY <3>3 DEF CheckQuarantine, CheckRetryAfter, CheckBreaker, Refuse
    <3>4. CASE RaiseOther(t) \/ ChargeBreaker(t)
      BY <3>4 DEF RaiseOther, ChargeBreaker, Refuse
    <3>5. CASE Respond(t)
      BY <3>5 DEF Respond
    <3>6. CASE \E f \in Fault : RaiseGatewayError(t, f)
      BY <3>6 DEF RaiseGatewayError
    <3> QED BY <1>4, <3>1, <3>2, <3>3, <3>4, <3>5, <3>6 DEF Step
  <2>2. \A u \in Thread : local'[u].stamp <= now'
    <3>1. ASSUME NEW l \in Local, NEW c
          PROVE  /\ [l EXCEPT !.unquarantined = c].stamp = l.stamp
                 /\ [l EXCEPT !.cleared = c].stamp = l.stamp
                 /\ [l EXCEPT !.closed = c].stamp = l.stamp
      BY DEF Local
    <3>2. /\ Fresh.stamp = 0 /\ [Fresh EXCEPT !.stamp = now].stamp = now
      BY DEF Fresh
    <3>3. local[t] \in Local /\ now \in Nat /\ local[t].stamp \in Nat
      BY <1>1 DEF Typed, Local
    <3>4. \A u \in Thread \ {t} : local'[u] = local[u]
      BY <1>1, <2>1 DEF Typed, Discard, ReadClock
    <3>5. local'[t].stamp \in {local[t].stamp, 0, now}
      <4>1. CASE local' = local \/ Discard(t) \/ ReadClock(t)
        BY <1>1, <3>2, <4>1 DEF Typed, Discard, ReadClock
      <4>2. ASSUME NEW c, \/ local' = [local EXCEPT ![t].unquarantined = c]
                          \/ local' = [local EXCEPT ![t].cleared = c]
                          \/ local' = [local EXCEPT ![t].closed = c]
            PROVE  local'[t].stamp = local[t].stamp
        <5>1. \/ local'[t] = [local[t] EXCEPT !.unquarantined = c]
              \/ local'[t] = [local[t] EXCEPT !.cleared = c]
              \/ local'[t] = [local[t] EXCEPT !.closed = c]
          BY <1>1, <4>2 DEF Typed
        <5>2. /\ [local[t] EXCEPT !.unquarantined = c].stamp = local[t].stamp
              /\ [local[t] EXCEPT !.cleared = c].stamp = local[t].stamp
              /\ [local[t] EXCEPT !.closed = c].stamp = local[t].stamp
          BY <3>1, <3>3
        <5> QED BY <5>1, <5>2
      <4>3. ASSUME NEW f, local' = [local EXCEPT ![t] =
                     [Fresh EXCEPT !.stamp = now, !.code = f.code, !.retry = f.retry]]
            PROVE  local'[t].stamp = now
        <5>1. local'[t] = [Fresh EXCEPT !.stamp = now, !.code = f.code, !.retry = f.retry]
          BY <1>1, <4>3 DEF Typed
        <5> QED BY <5>1 DEF Fresh
      <4> QED BY <2>1, <4>1, <4>2, <4>3
    <3>6. local[t].stamp <= now /\ \A u \in Thread : local[u].stamp <= now
      BY DEF ServedInv
    <3>7. local'[t].stamp <= now
      BY <3>3, <3>5, <3>6
    <3> QED BY <2>1, <3>4, <3>6, <3>7
  <2>3. \A m \in Model : Served(m)'
    BY <2>1 DEF ServedInv, Served
  <2> QED BY <1>1, <2>1, <2>2, <2>3 DEF ServedInv
<1>5. UNCHANGED vars \/ (\E k \in Key : Forget(k)) => UNCHANGED <<now, health, local>>
  BY DEF vars, Forget
<1> QED BY <1>2, <1>3, <1>4, <1>5 DEF Next

LEMMA NextServed ==
  ASSUME ServedInv, [Next]_vars
  PROVE  /\ ServedInv'
         /\ \A m \in Model :
              Quarantined(m) /\ health'[m].until < health[m].until =>
                \/ health'[m].n500 >= Q500 /\ health'[m].n401 >= Q401
                \/ \E t \in Thread :
                     pc[t] = "erring" /\ Candidate(t) = m /\ local[t].stamp < now
<1>1. \A m \in Model : health[m].until \in Nat
  BY HealthFields DEF ServedInv, GateInv, Typed
<1>2. ASSUME NEW t \in Thread, TrackFailure(t)
      PROVE  /\ ServedInv'
             /\ \A m \in Model :
                  Quarantined(m) /\ health'[m].until < health[m].until =>
                    \/ health'[m].n500 >= Q500 /\ health'[m].n401 >= Q401
                    \/ pc[t] = "erring" /\ Candidate(t) = m /\ local[t].stamp < now
  <2>1. pc[t] = "erring"
    BY <1>2 DEF TrackFailure
  <2>2. \A m \in Model : m # Candidate(t) => ~(health'[m].until < health[m].until)
    BY <1>1, <1>2, TrackFailureServed
  <2> QED BY <1>2, <2>1, <2>2, TrackFailureServed
<1>3. ASSUME NEW t \in Thread, TrackSuccess(t)
      PROVE  /\ ServedInv'
             /\ \A m \in Model : Quarantined(m) => ~(health'[m].until < health[m].until)
  BY <1>1, <1>3, TrackSuccessServed
<1>4. CASE \A t \in Thread : ~TrackFailure(t) /\ ~TrackSuccess(t)
  <2>1. ServedInv' /\ health' = health
    BY <1>4, OtherServed
  <2> QED BY <1>1, <2>1
<1> QED BY <1>2, <1>3, <1>4

\* health_probe.py record_success and record_failure: whatever the threads do, a
\* quarantine in force is lifted by no success, and shortened only by the
\* errors the property names.
THEOREM QuarantineServedAlways == Spec => QuarantineServed
<1>1. ServedInv /\ [Next]_vars => ServedInv'
  BY NextServed
<1>2. ServedInv /\ [Next]_vars =>
        [\A m \in Model :
           Quarantined(m) /\ health'[m].until < health[m].until =>
             \/ health'[m].n500 >= Q500 /\ health'[m].n401 >= Q401
             \/ \E t \in Thread :
                  pc[t] = "erring" /\ Candidate(t) = m /\ local[t].stamp < now]_vars
  BY NextServed
<1> QED BY <1>1, <1>2, InitServed, PTL DEF Spec, QuarantineServed
-----------------------------------------------------------------------------
(* Every failure a breaker holds is an error the history charges to its     *)
(* project and model, each to a different one.                              *)
Charge == [project : Project, model : Model, ts : Nat]

Breaker == [failures : Seq(Nat), openUntil : Nat]

Traces(fs, log, p, m) ==
  \E e \in Injection(1..Len(fs), 1..Len(log)) :
    \A i \in 1..Len(fs) : log[e[i]] = [project |-> p, model |-> m, ts |-> fs[i]]

TraceInv ==
  /\ GateInv
  /\ failed \in Seq(Charge)
  /\ breaker \in [Project \X Model -> Breaker]
  /\ \A t \in Thread : pc[t] # "idle" => req[t].project \in Project
  /\ req = [t \in Thread |-> req[t]]
  /\ \A p \in Project, m \in Model : Traces(breaker[<<p, m>>].failures, failed, p, m)

\* The history only grows, so what is traced stays traced.
LEMMA TracesOn ==
  ASSUME NEW log \in Seq(Charge), NEW c \in Charge, NEW fs \in Seq(Nat), NEW p, NEW m,
         Traces(fs, log, p, m)
  PROVE  Traces(fs, Append(log, c), p, m)
<1> DEFINE on == Append(log, c)
<1>1. Len(on) = Len(log) + 1 /\ Len(log) \in Nat /\ \A i \in 1..Len(log) : on[i] = log[i]
  BY AppendProperties
<1>2. PICK e \in Injection(1..Len(fs), 1..Len(log)) :
        \A i \in 1..Len(fs) : log[e[i]] = [project |-> p, model |-> m, ts |-> fs[i]]
  BY DEF Traces
<1> HIDE DEF on
<1>3. e \in Injection(1..Len(fs), 1..Len(on))
  BY <1>1, <1>2 DEF Injection, IsInjective
<1>4. \A i \in 1..Len(fs) : e[i] \in 1..Len(log)
  BY <1>2 DEF Injection
<1>5. \A i \in 1..Len(fs) : on[e[i]] = [project |-> p, model |-> m, ts |-> fs[i]]
  BY <1>1, <1>2, <1>4
<1>6. Traces(fs, on, p, m)
  BY <1>3, <1>5 DEF Traces
<1> QED BY <1>6 DEF on

LEMMA NothingTraced ==
  ASSUME NEW log \in Seq(Charge), NEW p, NEW m
  PROVE  Traces(<<>>, log, p, m)
<1> DEFINE e == [i \in {} |-> 0]
<1>1. 1..Len(<<>>) = {}
  OBVIOUS
<1>2. e \in Injection({}, 1..Len(log))
  BY DEF Injection, IsInjective
<1> HIDE DEF e
<1> QED BY <1>1, <1>2 DEF Traces

\* What the window keeps of a breaker's failures, with the one charged now.
LEMMA ChargeTraced ==
  ASSUME NEW log \in Seq(Charge), NEW fs \in Seq(Nat), NEW p \in Project, NEW m \in Model,
         NEW ts \in Nat, Traces(fs, log, p, m)
  PROVE  LET gs == Append(Recent(fs, ts), ts)
         IN  /\ gs \in Seq(Nat)
             /\ \A i \in 1..Len(gs) : ts < gs[i] + Window
             /\ Traces(gs, Append(log, [project |-> p, model |-> m, ts |-> ts]), p, m)
<1> DEFINE J == {i \in DOMAIN fs : ts < fs[i] + Window}
           c == Cardinality(J)
           at(n) == Place(n, J, UpTo(J))
           ks == Recent(fs, ts)
           gs == Append(ks, ts)
           new == [project |-> p, model |-> m, ts |-> ts]
           on == Append(log, new)
<1>1. J \in SUBSET Nat /\ IsFiniteSet(J) /\ J \subseteq 1..Len(fs)
  <2>1. DOMAIN fs = 1..Len(fs) /\ Len(fs) \in Nat
    BY LenProperties
  <2>2. IsFiniteSet(1..Len(fs))
    BY <2>1, FS_Interval
  <2>3. J \subseteq 1..Len(fs)
    BY <2>1
  <2> QED BY <2>2, <2>3, FS_Subset
<1>2. ks = Kept(fs, J)
  BY DEF Recent
<1>3. \A j \in J : fs[j] \in Nat /\ ts < fs[j] + Window
  BY <1>1
<1> HIDE DEF J
<1>4. /\ c \in Nat /\ ks \in Seq(Nat)
      /\ \A n \in 1..c : at(n) \in J /\ ks[n] = fs[at(n)]
      /\ \A k, n \in 1..c : k < n => at(k) < at(n)
  BY <1>1, <1>2, <1>3, KeptFacts
<1>5. Len(ks) = c
  <2>1. Len(Kept(fs, J)) = Cardinality(J)
    BY <1>1, KeptFacts
  <2> QED BY <1>2, <2>1
<1> HIDE DEF c, at, ks
<1>6. /\ gs \in Seq(Nat) /\ Len(gs) = c + 1 /\ gs[c + 1] = ts
      /\ \A n \in 1..c : gs[n] = ks[n]
  BY <1>4, <1>5, AppendProperties
<1>7. new \in Charge
  BY DEF Charge
<1> HIDE DEF gs, new
<1>8. /\ on \in Seq(Charge) /\ Len(on) = Len(log) + 1 /\ Len(log) \in Nat
      /\ on[Len(log) + 1] = new /\ \A i \in 1..Len(log) : on[i] = log[i]
  BY <1>7, AppendProperties
<1> HIDE DEF on
<1>9. \A i \in 1..Len(gs) : ts < gs[i] + Window
  <2> SUFFICES ASSUME NEW i \in 1..Len(gs) PROVE ts < gs[i] + Window
    OBVIOUS
  <2>1. CASE i = c + 1
    BY <1>6, <2>1, ThresholdsOK DEF Thresholds
  <2>2. CASE i \in 1..c
    BY <1>3, <1>4, <1>6, <2>2
  <2> QED BY <1>4, <1>6, <2>1, <2>2
<1>10. Traces(gs, on, p, m)
  <2>1. PICK e \in Injection(1..Len(fs), 1..Len(log)) :
          \A i \in 1..Len(fs) : log[e[i]] = [project |-> p, model |-> m, ts |-> fs[i]]
    BY DEF Traces
  <2> DEFINE g == [n \in 1..(c + 1) |-> IF n = c + 1 THEN Len(log) + 1 ELSE e[at(n)]]
  <2>2. \A i \in 1..Len(fs) : e[i] \in 1..Len(log)
    BY <2>1 DEF Injection
  <2>3. \A n \in 1..c : at(n) \in 1..Len(fs)
    BY <1>1, <1>4
  <2>4. \A n \in 1..c : g[n] = e[at(n)] /\ g[n] \in 1..Len(log)
    BY <1>4, <2>2, <2>3
  <2>5. g[c + 1] = Len(log) + 1
    BY <1>4
  <2>6. \A n \in 1..(c + 1) : n = c + 1 \/ n \in 1..c
    BY <1>4
  <2>7. DOMAIN g = 1..(c + 1) /\ g = [n \in 1..(c + 1) |-> g[n]]
    OBVIOUS
  <2> HIDE DEF g
  <2>8. g \in [1..(c + 1) -> 1..Len(on)]
    <3>1. \A n \in 1..(c + 1) : g[n] \in 1..Len(on)
      BY <1>8, <2>4, <2>5, <2>6
    <3> QED BY <2>7, <3>1
  <2>9. \A k, n \in 1..(c + 1) : g[k] = g[n] => k = n
    <3>1. ASSUME NEW k \in 1..c, NEW n \in 1..c, g[k] = g[n] PROVE k = n
      <4>1. at(k) = at(n)
        BY <2>1, <2>3, <2>4, <3>1 DEF Injection, IsInjective
      <4>2. at(k) \in Nat /\ at(n) \in Nat
        BY <1>1, <1>4
      <4> QED BY <1>4, <4>1, <4>2
    <3>2. \A n \in 1..c : g[n] # g[c + 1]
      BY <1>8, <2>4, <2>5
    <3> QED BY <2>6, <3>1, <3>2
  <2>10. g \in Injection(1..Len(gs), 1..Len(on))
    BY <1>6, <2>8, <2>9 DEF Injection, IsInjective
  <2>11. ASSUME NEW n \in 1..Len(gs)
         PROVE  on[g[n]] = [project |-> p, model |-> m, ts |-> gs[n]]
    <3>1. CASE n = c + 1
      BY <1>6, <1>8, <2>5, <3>1 DEF new
    <3>2. CASE n \in 1..c
      <4>1. g[n] = e[at(n)] /\ on[g[n]] = log[g[n]] /\ at(n) \in 1..Len(fs)
        BY <1>8, <2>3, <2>4, <3>2
      <4>2. gs[n] = fs[at(n)]
        BY <1>4, <1>6, <3>2
      <4>3. log[e[at(n)]] = [project |-> p, model |-> m, ts |-> fs[at(n)]]
        BY <2>1, <4>1
      <4> QED BY <4>1, <4>2, <4>3
    <3> QED BY <1>6, <2>6, <3>1, <3>2
  <2> QED BY <2>10, <2>11 DEF Traces
<1> QED BY <1>6, <1>9, <1>10 DEF gs, on, new, ks

\* As many errors are charged within the window as are traced.
LEMMA TracesCounted ==
  ASSUME NEW gs \in Seq(Nat), NEW log \in Seq(Charge), NEW p, NEW m, NEW ts \in Nat,
         Traces(gs, log, p, m), \A i \in 1..Len(gs) : ts < gs[i] + Window
  PROVE  Cardinality(Charged(log, p, m, ts)) >= Len(gs)
<1> DEFINE S == Charged(log, p, m, ts)
<1>1. PICK e \in Injection(1..Len(gs), 1..Len(log)) :
        \A i \in 1..Len(gs) : log[e[i]] = [project |-> p, model |-> m, ts |-> gs[i]]
  BY DEF Traces
<1>2. \A i \in 1..Len(gs) : e[i] \in S
  <2>1. \A i \in 1..Len(gs) : e[i] \in 1..Len(log)
    BY <1>1 DEF Injection
  <2> SUFFICES ASSUME NEW i \in 1..Len(gs) PROVE e[i] \in S
    OBVIOUS
  <2> DEFINE x == log[e[i]]
  <2>4. x = [project |-> p, model |-> m, ts |-> gs[i]]
    BY <1>1
  <2> HIDE DEF x
  <2>5. x.project = p /\ x.model = m /\ x.ts = gs[i]
    BY <2>4
  <2>2. log[e[i]].project = p /\ log[e[i]].model = m /\ log[e[i]].ts = gs[i]
    BY <2>5 DEF x
  <2>3. ts < log[e[i]].ts + Window
    BY <2>2
  <2> QED BY <2>1, <2>2, <2>3 DEF Charged
<1>3. S \subseteq 1..Len(log) /\ Len(log) \in Nat /\ Len(gs) \in Nat
  <2>1. S \subseteq 1..Len(log)
    BY DEF Charged
  <2>2. Len(log) \in Nat /\ Len(gs) \in Nat
    BY LenProperties
  <2> QED BY <2>1, <2>2
<1>4. IsFiniteSet(1..Len(log)) /\ Cardinality(1..Len(gs)) = Len(gs)
  <2>1. \A n \in Nat : IsFiniteSet(1..n) /\ Cardinality(1..n) = n
    BY FS_Interval
  <2> QED BY <1>3, <2>1
<1> HIDE DEF S
<1>5. IsFiniteSet(S)
  BY <1>3, <1>4, FS_Subset
<1>6. e \in Injection(1..Len(gs), S)
  BY <1>1, <1>2 DEF Injection, IsInjective
<1>7. Cardinality(1..Len(gs)) <= Cardinality(S)
  BY <1>5, <1>6, FS_Injection
<1>8. Cardinality(S) \in Nat
  BY <1>5, FS_CardinalityType
<1> QED BY <1>3, <1>4, <1>7, <1>8 DEF S

LEMMA InitTraces == Init => TraceInv
<1> SUFFICES ASSUME Init PROVE TraceInv
  OBVIOUS
<1>1. GateInv
  BY InitGates
<1>4. [failures |-> <<>>, openUntil |-> 0] \in Breaker
  BY DEF Breaker
<1>2. /\ failed \in Seq(Charge)
      /\ breaker \in [Project \X Model -> Breaker]
      /\ \A b \in Project \X Model : breaker[b].failures = <<>>
      /\ \A t \in Thread : pc[t] = "idle"
      /\ req = [t \in Thread |-> req[t]]
  BY <1>4 DEF Init
<1>3. \A p \in Project, m \in Model : Traces(breaker[<<p, m>>].failures, failed, p, m)
  BY <1>2, NothingTraced
<1> QED BY <1>1, <1>2, <1>3 DEF TraceInv

LEMMA ChargeBreakerTraced ==
  ASSUME TraceInv, NEW t \in Thread, ChargeBreaker(t)
  PROVE  /\ TraceInv'
         /\ \A p \in Project, m \in Model :
              breaker'[<<p, m>>].openUntil # breaker[<<p, m>>].openUntil =>
                /\ Len(failed') > Len(failed)
                /\ Cardinality(Charged(failed', p, m, Last(failed').ts)) >= Trip
<1> DEFINE p == req[t].project
           m == Candidate(t)
           ts == local[t].stamp
           b == <<p, m>>
           fs == breaker[b].failures
           gs == Append(Recent(fs, ts), ts)
           new == [project |-> p, model |-> m, ts |-> ts]
           on == Append(failed, new)
<1>1. /\ GateInv /\ Typed /\ GateInv' /\ pc[t] = "charging" /\ pc' = [pc EXCEPT ![t] = "choosing"]
      /\ req' = req
  BY BreakerStep DEF TraceInv, GateInv, ChargeBreaker, Refuse, Goto
<1>2. p \in Project /\ m \in Model /\ ts \in Nat /\ fs \in Seq(Nat) /\ failed \in Seq(Charge)
      /\ b \in Project \X Model /\ Traces(fs, failed, p, m)
  BY <1>1 DEF TraceInv, Typed, Local, Breaker
<1>3. /\ failed' = on
      /\ breaker' = [breaker EXCEPT ![b] =
           [failures |-> gs, openUntil |-> IF Len(gs) >= Trip THEN ts + Cooldown ELSE @.openUntil]]
  BY DEF ChargeBreaker, BreakerKey
<1>4. /\ breaker'[b].failures = gs
      /\ breaker'[b].openUntil # breaker[b].openUntil => Len(gs) >= Trip
      /\ \A c \in Project \X Model : c # b => breaker'[c] = breaker[c]
  BY <1>2, <1>3 DEF TraceInv
<1> HIDE DEF p, m, ts, fs
<1>5. /\ gs \in Seq(Nat) /\ Traces(gs, on, p, m)
      /\ \A i \in 1..Len(gs) : ts < gs[i] + Window
  BY <1>2, ChargeTraced
<1>6. new \in Charge
  BY <1>2 DEF Charge
<1>7. /\ on \in Seq(Charge) /\ Len(on) = Len(failed) + 1 /\ Len(failed) \in Nat
      /\ on[Len(failed) + 1] = new
  <2> HIDE DEF new
  <2> QED BY <1>2, <1>6, AppendProperties
<1>8. \A q \in Project, k \in Model : Traces(breaker'[<<q, k>>].failures, failed', q, k)
  <2> SUFFICES ASSUME NEW q \in Project, NEW k \in Model
               PROVE  Traces(breaker'[<<q, k>>].failures, failed', q, k)
    OBVIOUS
  <2>1. CASE q = p /\ k = m
    BY <1>3, <1>4, <1>5, <2>1
  <2>2. CASE ~(q = p /\ k = m)
    <3>1. /\ breaker'[<<q, k>>] = breaker[<<q, k>>] /\ breaker[<<q, k>>].failures \in Seq(Nat)
          /\ Traces(breaker[<<q, k>>].failures, failed, q, k)
      BY <1>4, <2>2 DEF TraceInv, Breaker
    <3> HIDE DEF new
    <3>2. Traces(breaker[<<q, k>>].failures, on, q, k)
      BY <1>2, <1>6, <3>1, TracesOn
    <3> QED BY <1>3, <3>1, <3>2
  <2> QED BY <2>1, <2>2
<1>9. breaker' \in [Project \X Model -> Breaker]
  <2>1. breaker[b] \in Breaker /\ breaker \in [Project \X Model -> Breaker]
    BY <1>2 DEF TraceInv
  <2>2. breaker[b].openUntil \in Nat
    BY <2>1 DEF Breaker
  <2>3. ts + Cooldown \in Nat
    BY <1>2, ThresholdsOK DEF Thresholds
  <2> HIDE DEF gs
  <2>4. [failures |-> gs, openUntil |-> IF Len(gs) >= Trip THEN ts + Cooldown ELSE breaker[b].openUntil]
           \in Breaker
    BY <1>5, <2>2, <2>3 DEF Breaker
  <2> QED BY <1>3, <2>1, <2>4
<1>10. TraceInv'
  <2>1. \A u \in Thread : pc'[u] # "idle" => pc[u] # "idle"
    BY <1>1 DEF Typed
  <2>2. failed' \in Seq(Charge)
    BY <1>3, <1>7
  <2>3. /\ \A u \in Thread : pc'[u] # "idle" => req'[u].project \in Project
        /\ req' = [u \in Thread |-> req'[u]]
    BY <1>1, <2>1 DEF TraceInv
  <2> QED BY <1>1, <1>4, <1>8, <1>9, <2>2, <2>3 DEF TraceInv
<1>11. ASSUME NEW q \in Project, NEW k \in Model,
              breaker'[<<q, k>>].openUntil # breaker[<<q, k>>].openUntil
       PROVE  /\ Len(failed') > Len(failed)
              /\ Cardinality(Charged(failed', q, k, Last(failed').ts)) >= Trip
  <2>1. q = p /\ k = m /\ Len(gs) >= Trip
    BY <1>4, <1>11
  <2>2. Last(failed').ts = ts
    BY <1>3, <1>7 DEF Last
  <2> HIDE DEF gs, on
  <2>3. Cardinality(Charged(on, p, m, ts)) >= Len(gs)
    BY <1>2, <1>5, <1>7, TracesCounted
  <2>4. Len(gs) \in Nat /\ Trip \in Nat
    BY <1>5, LenProperties, ThresholdsOK DEF Thresholds
  <2>5. Cardinality(Charged(on, p, m, ts)) \in Nat
    <3>1. Charged(on, p, m, ts) \subseteq 1..Len(on) /\ Len(on) \in Nat
      BY <1>7 DEF Charged
    <3>2. IsFiniteSet(1..Len(on))
      BY <3>1, FS_Interval
    <3> QED BY <3>1, <3>2, FS_Subset, FS_CardinalityType
  <2> QED BY <1>3, <1>7, <2>1, <2>2, <2>3, <2>4, <2>5
<1> QED BY <1>10, <1>11

\* A success empties its breaker; nothing else touches one.
LEMMA OtherTraced ==
  ASSUME TraceInv, [Next]_vars, \A t \in Thread : ~ChargeBreaker(t)
  PROVE  /\ TraceInv'
         /\ \A b \in Project \X Model : breaker'[b].openUntil = breaker[b].openUntil
<1>1. GateInv /\ Typed /\ GateInv'
  BY NextGates DEF TraceInv, GateInv
<1>2. /\ failed' = failed
      /\ breaker' = breaker
         \/ \E t \in Thread : /\ pc[t] = "crediting" /\ pc' = [pc EXCEPT ![t] = "storing"] /\ req' = req
                              /\ breaker' = [breaker EXCEPT ![BreakerKey(req[t].project, Candidate(t))].failures = <<>>]
  <2>1. ASSUME NEW t \in Thread, Step(t) \/ \E r \in Request : Call(t, r)
        PROVE  /\ failed' = failed
               /\ breaker' = breaker \/ CreditBreaker(t)
    BY <2>1 DEF Step, Call, GiveUp, CheckQuarantine, CheckRetryAfter, CheckBreaker, Respond, RaiseOther, RaiseGatewayError,
             TrackFailure, TrackSuccess, CreditBreaker, Store
  <2>2. Tick \/ (\E k \in Key : Forget(k)) \/ UNCHANGED vars => failed' = failed /\ breaker' = breaker
    BY DEF Tick, Forget, vars
  <2> QED BY <2>1, <2>2 DEF Next, CreditBreaker, Goto
<1>3. /\ req' = [t \in Thread |-> req'[t]]
      /\ \A t \in Thread : pc'[t] # "idle" => req'[t].project \in Project
  <2>1. ASSUME NEW t \in Thread, NEW r \in Request, Call(t, r)
        PROVE  /\ req' = [u \in Thread |-> req'[u]]
               /\ \A u \in Thread : pc'[u] # "idle" => req'[u].project \in Project
    <3>1. r.project \in Project
      BY DispatchAssumption DEF RequestType
    <3>2. req' = [req EXCEPT ![t] = Resolved(r)] /\ Resolved(r).project = r.project
      BY <2>1 DEF Call, Resolved
    <3>3. \A u \in Thread : u # t => pc'[u] = pc[u]
      BY <1>1, <2>1 DEF Call, Goto, Typed
    <3> QED BY <3>1, <3>2, <3>3 DEF TraceInv
  <2>2. ASSUME req' = req, \A u \in Thread : pc'[u] # "idle" => pc[u] # "idle"
        PROVE  /\ req' = [u \in Thread |-> req'[u]]
               /\ \A u \in Thread : pc'[u] # "idle" => req'[u].project \in Project
    BY <2>2 DEF TraceInv
  <2>3. ASSUME NEW t \in Thread, Step(t)
        PROVE  req' = req /\ \A u \in Thread : pc'[u] # "idle" => pc[u] # "idle"
    <3>1. req' = req /\ pc[t] # "idle" /\ (pc' = pc \/ \E l : pc' = [pc EXCEPT ![t] = l])
      <4>1. CASE GiveUp(t) \/ Respond(t) \/ RaiseOther(t) \/ TrackFailure(t) \/ ChargeBreaker(t)
        BY <4>1 DEF GiveUp, Respond, RaiseOther, TrackFailure, ChargeBreaker, Refuse, Goto
      <4>2. CASE TrackSuccess(t) \/ CreditBreaker(t) \/ Store(t) \/ \E f \in Fault : RaiseGatewayError(t, f)
        BY <4>2 DEF TrackSuccess, CreditBreaker, Store, RaiseGatewayError, Goto
      <4>3. CASE CheckQuarantine(t) \/ CheckRetryAfter(t) \/ CheckBreaker(t)
        BY <4>3 DEF CheckQuarantine, CheckRetryAfter, CheckBreaker, Refuse, Goto
      <4> QED BY <2>3, <4>1, <4>2, <4>3 DEF Step
    <3> QED BY <1>1, <3>1 DEF Typed
  <2>4. Tick \/ (\E k \in Key : Forget(k)) \/ UNCHANGED vars => req' = req /\ pc' = pc
    BY DEF Tick, Forget, vars
  <2> QED BY <2>1, <2>2, <2>3, <2>4 DEF Next
<1>4. CASE breaker' = breaker
  BY <1>1, <1>2, <1>3, <1>4 DEF TraceInv
<1>5. ASSUME NEW t \in Thread, pc[t] = "crediting",
             breaker' = [breaker EXCEPT ![BreakerKey(req[t].project, Candidate(t))].failures = <<>>]
      PROVE  /\ TraceInv'
             /\ \A b \in Project \X Model : breaker'[b].openUntil = breaker[b].openUntil
  <2> DEFINE c == BreakerKey(req[t].project, Candidate(t))
  <2>1. c \in Project \X Model
    BY <1>1, <1>5 DEF TraceInv, Typed, BreakerKey
  <2> HIDE DEF c
  <2>2. breaker' = [breaker EXCEPT ![c] = [@ EXCEPT !.failures = <<>>]]
    BY <1>5 DEF c
  <2>3. breaker[c] \in Breaker
    BY <2>1 DEF TraceInv
  <2>4. /\ [breaker[c] EXCEPT !.failures = <<>>] \in Breaker
        /\ [breaker[c] EXCEPT !.failures = <<>>].failures = <<>>
        /\ [breaker[c] EXCEPT !.failures = <<>>].openUntil = breaker[c].openUntil
    <3>1. \A k \in Breaker : /\ [k EXCEPT !.failures = <<>>] = [failures |-> <<>>, openUntil |-> k.openUntil]
                              /\ k.openUntil \in Nat
      BY DEF Breaker
    <3>2. \A n \in Nat : [failures |-> <<>>, openUntil |-> n] \in Breaker
      BY DEF Breaker
    <3> QED BY <2>3, <3>1, <3>2
  <2> DEFINE g == [breaker[c] EXCEPT !.failures = <<>>]
  <2> HIDE DEF g
  <2>5. /\ breaker' \in [Project \X Model -> Breaker] /\ breaker'[c] = g
        /\ \A b \in Project \X Model : b # c => breaker'[b] = breaker[b]
        /\ g.failures = <<>> /\ g.openUntil = breaker[c].openUntil
    BY <2>1, <2>2, <2>4 DEF TraceInv, g
  <2>6. \A p \in Project, m \in Model : Traces(breaker'[<<p, m>>].failures, failed', p, m)
    <3> SUFFICES ASSUME NEW p \in Project, NEW m \in Model
                 PROVE  Traces(breaker'[<<p, m>>].failures, failed', p, m)
      OBVIOUS
    <3>1. CASE <<p, m>> = c
      BY <1>2, <2>5, <3>1, NothingTraced DEF TraceInv
    <3>2. CASE <<p, m>> # c
      BY <1>2, <2>5, <3>2 DEF TraceInv
    <3> QED BY <3>1, <3>2
  <2>7. \A b \in Project \X Model : breaker'[b].openUntil = breaker[b].openUntil
    BY <2>5
  <2> QED BY <1>1, <1>2, <1>3, <2>5, <2>6, <2>7 DEF TraceInv
<1> QED BY <1>2, <1>4, <1>5

\* integration.py SyncCircuitBreaker: breakers of different projects and models
\* never hear of each other's errors, and one opens only for Trip errors of its
\* own within its window, in whatever order threads record them.
THEOREM BreakerTripsForCauseAlways == Spec => BreakerTripsForCause
<1> DEFINE Cause ==
      \A p \in Project, m \in Model :
        breaker'[<<p, m>>].openUntil # breaker[<<p, m>>].openUntil =>
          /\ Len(failed') > Len(failed)
          /\ Cardinality(Charged(failed', p, m, Last(failed').ts)) >= Trip
<1>1. TraceInv /\ [Next]_vars => TraceInv' /\ [Cause]_vars
  BY ChargeBreakerTraced, OtherTraced
<1>2. BreakerTripsForCause <=> [][Cause]_vars
  BY DEF BreakerTripsForCause
<1> HIDE DEF Cause
<1> QED BY <1>1, <1>2, InitTraces, PTL DEF Spec

-----------------------------------------------------------------------------
(* What a thread that found the breaker closed may still rely on: it is     *)
(* closed, or an error was charged to it since.                             *)
StillClosed(t) ==
  pc[t] = "sending" =>
    /\ local[t].closed <= Len(failed)
    /\ now < BreakerOf(t).openUntil => ChargedSince(t)

ClosedInv == TraceInv /\ \A t \in Thread : StillClosed(t)

\* Who is about to send was about to send before, or has just asked the breaker.
LEMMA SendingSince ==
  ASSUME TraceInv, [Next]_vars, NEW t \in Thread, pc'[t] = "sending"
  PROVE  \/ /\ pc[t] = "sending" /\ local'[t] = local[t] /\ todo'[t] = todo[t]
            /\ req'[t] = req[t]
         \/ /\ CheckBreaker(t) /\ now >= BreakerOf(t).openUntil
            /\ local'[t].closed = Len(failed)
<1> Typed
  BY DEF TraceInv, GateInv
<1>1. ASSUME NEW u \in Thread, NEW r \in Request, Call(u, r)
      PROVE  /\ pc[t] = "sending" /\ local'[t] = local[t] /\ todo'[t] = todo[t]
             /\ req'[t] = req[t]
  <2>1. u # t
    BY <1>1 DEF Call, Goto, Typed
  <2>2. pc'[t] = pc[t] /\ local' = local /\ todo'[t] = todo[t] /\ req'[t] = req[t]
    <3>1. /\ pc' = pc \/ pc' = [pc EXCEPT ![u] = "choosing"]
          /\ todo' = todo \/ todo' = [todo EXCEPT ![u] = Candidates(r)]
          /\ req' = [req EXCEPT ![u] = Resolved(r)] /\ local' = local
      BY <1>1 DEF Call, Goto
    <3> QED BY <2>1, <3>1 DEF Typed, TraceInv
  <2> QED BY <2>2
<1>2. ASSUME NEW u \in Thread, Step(u), ~CheckBreaker(u)
      PROVE  /\ pc[t] = "sending" /\ local'[t] = local[t] /\ todo'[t] = todo[t]
             /\ req'[t] = req[t]
  <2>1. /\ req' = req
        /\ \E l \in ProgramPoint \ {"sending"} : pc' = [pc EXCEPT ![u] = l]
        /\ todo' = todo \/ \E x : todo' = [todo EXCEPT ![u] = x]
        /\ \/ local' = local \/ Discard(u) \/ ReadClock(u)
           \/ \E c : \/ local' = [local EXCEPT ![u].unquarantined = c]
                     \/ local' = [local EXCEPT ![u].cleared = c]
           \/ \E f : local' = [local EXCEPT ![u] =
                [Fresh EXCEPT !.stamp = now, !.code = f.code, !.retry = f.retry]]
    <3>1. CASE CheckQuarantine(u) \/ CheckRetryAfter(u) \/ ChargeBreaker(u)
      BY <3>1 DEF CheckQuarantine, CheckRetryAfter, ChargeBreaker, Refuse, Goto, ProgramPoint
    <3>2. CASE GiveUp(u) \/ Store(u) \/ CreditBreaker(u) \/ Respond(u) \/ RaiseOther(u)
      BY <3>2 DEF GiveUp, Store, CreditBreaker, Respond, RaiseOther, Goto, ProgramPoint
    <3>3. CASE TrackFailure(u) \/ TrackSuccess(u) \/ \E f \in Fault : RaiseGatewayError(u, f)
      BY <3>3 DEF TrackFailure, TrackSuccess, RaiseGatewayError, Goto, ProgramPoint
    <3> QED BY <1>2, <3>1, <3>2, <3>3 DEF Step
  <2>2. u # t
    BY <2>1 DEF Typed
  <2>3. pc'[t] = pc[t] /\ todo'[t] = todo[t] /\ local'[t] = local[t]
    BY <2>1, <2>2 DEF Typed, Discard, ReadClock
  <2> QED BY <2>1, <2>3
<1>3. ASSUME NEW u \in Thread, CheckBreaker(u), u # t
      PROVE  /\ pc[t] = "sending" /\ local'[t] = local[t] /\ todo'[t] = todo[t]
             /\ req'[t] = req[t]
  BY <1>3 DEF CheckBreaker, Refuse, Goto, Discard, Typed
<1>4. ASSUME CheckBreaker(t)
      PROVE  now >= BreakerOf(t).openUntil /\ local'[t].closed = Len(failed)
  <2>1. ~Refuse(t)
    BY DEF Refuse, Goto, Typed
  <2>2. /\ now >= BreakerOf(t).openUntil
        /\ local' = [local EXCEPT ![t].closed = Len(failed)]
    BY <1>4, <2>1 DEF CheckBreaker
  <2> QED BY <2>2 DEF Typed, Local
<1>5. Tick \/ (\E k \in Key : Forget(k)) \/ UNCHANGED vars =>
        UNCHANGED <<pc, local, todo, req>>
  BY DEF Tick, Forget, vars
<1> QED BY <1>1, <1>2, <1>3, <1>4, <1>5 DEF Next

LEMMA InitClosed == Init => ClosedInv
BY InitTraces DEF Init, ClosedInv, StillClosed

\* The clock does not run backwards.
LEMMA ClockOn == Typed /\ [Next]_vars => now' \in Nat /\ now <= now'
<1> SUFFICES ASSUME Typed, [Next]_vars PROVE now' \in Nat /\ now <= now'
  OBVIOUS
<1>1. ASSUME NEW t \in Thread, Step(t) \/ \E r \in Request : Call(t, r) PROVE now' = now
  BY <1>1 DEF Step, Call, GiveUp, CheckQuarantine, CheckRetryAfter, CheckBreaker, Respond,
       RaiseOther, RaiseGatewayError, TrackFailure, ChargeBreaker, TrackSuccess, CreditBreaker, Store
<1>2. Tick => now' = now + 1
  BY DEF Tick
<1>3. UNCHANGED vars \/ (\E k \in Key : Forget(k)) => now' = now
  BY DEF vars, Forget
<1> QED BY <1>1, <1>2, <1>3 DEF Next, Typed

\* An error charged to one breaker says nothing of the others.
LEMMA ChargeBreakerClosed ==
  ASSUME ClosedInv, NEW u \in Thread, ChargeBreaker(u), [Next]_vars
  PROVE  ClosedInv'
<1>1. TraceInv /\ TraceInv' /\ Typed /\ Typed'
  BY ChargeBreakerTraced DEF ClosedInv, TraceInv, GateInv
<1> DEFINE b == BreakerKey(req[u].project, Candidate(u))
           new == [project |-> req[u].project, model |-> Candidate(u), ts |-> local[u].stamp]
<1>2. /\ failed' = Append(failed, new) /\ new \in Charge /\ failed \in Seq(Charge)
      /\ \A c \in Project \X Model : c # b => breaker'[c] = breaker[c]
      /\ UNCHANGED <<now, req>>
  BY <1>1 DEF ChargeBreaker, TraceInv, Typed, Charge, Local, BreakerKey
<1>3. /\ Len(failed') = Len(failed) + 1 /\ Len(failed) \in Nat
      /\ failed'[Len(failed) + 1] = new /\ \A i \in 1..Len(failed) : failed'[i] = failed[i]
  <2> HIDE DEF new
  <2> QED BY <1>2, AppendProperties
<1>4. ASSUME NEW t \in Thread PROVE StillClosed(t)'
  <2> SUFFICES ASSUME pc'[t] = "sending" PROVE StillClosed(t)'
    BY DEF StillClosed
  <2>1. /\ pc[t] = "sending" /\ local'[t] = local[t] /\ todo'[t] = todo[t] /\ req'[t] = req[t]
    <3>1. ~(now >= BreakerOf(t).openUntil /\ CheckBreaker(t))
      BY <1>1 DEF ChargeBreaker, CheckBreaker, Refuse, Goto, Typed
    <3> QED BY <1>1, <3>1, SendingSince
  <2>2. /\ StillClosed(t) /\ Candidate(t)' = Candidate(t) /\ Candidate(t) \in Model
        /\ req[t].project \in Project /\ local[t].closed \in Nat
    BY <1>1, <2>1 DEF ClosedInv, Candidate, Typed, TraceInv, Local
  <2>3. local[t].closed <= Len(failed)
    BY <2>1, <2>2 DEF StillClosed
  <2>4. CASE BreakerKey(req[t].project, Candidate(t)) = b
    <3>1. new.project = req[t].project /\ new.model = Candidate(t)
      BY <2>4 DEF BreakerKey
    <3>2. ChargedSince(t)'
      <4> HIDE DEF new
      <4>1. Len(failed) + 1 \in 1..Len(failed') /\ Len(failed) + 1 > local[t].closed
        BY <1>3, <2>2, <2>3
      <4> QED BY <1>3, <2>1, <2>2, <3>1, <4>1 DEF ChargedSince
    <3> QED BY <1>3, <2>1, <2>2, <2>3, <3>2 DEF StillClosed
  <2>5. CASE BreakerKey(req[t].project, Candidate(t)) # b
    <3>1. BreakerOf(t)' = BreakerOf(t)
      BY <1>2, <2>1, <2>2, <2>5 DEF BreakerOf, BreakerKey
    <3>2. ChargedSince(t) => ChargedSince(t)'
      <4> SUFFICES ASSUME ChargedSince(t) PROVE ChargedSince(t)'
        OBVIOUS
      <4>1. PICK i \in 1..Len(failed) :
              i > local[t].closed /\ failed[i].project = req[t].project
              /\ failed[i].model = Candidate(t)
        BY DEF ChargedSince
      <4>2. i \in 1..Len(failed') /\ failed'[i] = failed[i]
        BY <1>3
      <4> QED BY <2>1, <2>2, <4>1, <4>2 DEF ChargedSince
    <3> HIDE DEF new
    <3> QED BY <1>2, <1>3, <2>1, <2>2, <2>3, <3>1, <3>2 DEF StillClosed
  <2> QED BY <2>4, <2>5
<1> QED BY <1>1, <1>4 DEF ClosedInv

LEMMA NextClosed == ClosedInv /\ [Next]_vars => ClosedInv'
<1> SUFFICES ASSUME ClosedInv, [Next]_vars PROVE ClosedInv'
  OBVIOUS
<1>1. CASE \A u \in Thread : ~ChargeBreaker(u)
  <2>1. /\ TraceInv' /\ Typed /\ TraceInv /\ failed' = failed
        /\ \A b \in Project \X Model : breaker'[b].openUntil = breaker[b].openUntil
    <3>1. failed' = failed
      <4>1. ASSUME NEW t \in Thread, Step(t) \/ \E r \in Request : Call(t, r)
            PROVE  failed' = failed
        BY <1>1, <4>1 DEF Step, Call, GiveUp, CheckQuarantine, CheckRetryAfter, CheckBreaker,
             Respond, RaiseOther, RaiseGatewayError, TrackFailure, TrackSuccess, CreditBreaker, Store
      <4>2. Tick \/ (\E k \in Key : Forget(k)) \/ UNCHANGED vars => failed' = failed
        BY DEF Tick, Forget, vars
      <4> QED BY <4>1, <4>2 DEF Next
    <3> QED BY <1>1, <3>1, OtherTraced DEF ClosedInv, TraceInv, GateInv
  <2>2. ASSUME NEW t \in Thread, pc'[t] = "sending" PROVE StillClosed(t)'
    <3>1. Len(failed) \in Nat /\ now \in Nat /\ now' \in Nat /\ now <= now'
      BY <2>1, ClockOn DEF Typed, Sequence
    <3>2. CASE /\ pc[t] = "sending" /\ local'[t] = local[t] /\ todo'[t] = todo[t]
               /\ req'[t] = req[t]
      <4>1. /\ StillClosed(t) /\ Candidate(t)' = Candidate(t) /\ Candidate(t) \in Model
            /\ req[t].project \in Project
        BY <2>1, <3>2 DEF ClosedInv, Candidate, Typed, TraceInv
      <4>2. /\ BreakerOf(t)'.openUntil = BreakerOf(t).openUntil
            /\ BreakerOf(t).openUntil \in Nat
        BY <2>1, <3>2, <4>1 DEF BreakerOf, BreakerKey, TraceInv, Breaker
      <4>3. ChargedSince(t)' <=> ChargedSince(t)
        BY <2>1, <3>2, <4>1 DEF ChargedSince
      <4> QED BY <2>1, <3>1, <3>2, <4>1, <4>2, <4>3 DEF StillClosed
    <3>3. CASE /\ CheckBreaker(t) /\ now >= BreakerOf(t).openUntil
               /\ local'[t].closed = Len(failed)
      <4>1. /\ pc[t] = "cleared" /\ UNCHANGED <<now, breaker, req>> /\ todo'[t] = todo[t]
        BY <2>1, <2>2, <3>3 DEF CheckBreaker, Refuse, Goto, Typed
      <4>2. BreakerOf(t)' = BreakerOf(t)
        BY <4>1 DEF BreakerOf, Candidate
      <4>3. BreakerOf(t).openUntil \in Nat
        BY <2>1, <4>1 DEF BreakerOf, BreakerKey, TraceInv, Typed, Breaker
      <4> QED BY <2>1, <3>1, <3>3, <4>1, <4>2, <4>3 DEF StillClosed
    <3> QED BY <2>1, <2>2, <3>2, <3>3, SendingSince
  <2> QED BY <2>1, <2>2 DEF ClosedInv, StillClosed
<1> QED BY <1>1, ChargeBreakerClosed

\* integration.py router_fn: the three gates are asked one after the other and
\* none of them shuts behind the caller's back before the send, but by an error
\* of another thread: one recorded for the model shuts the tracker's two, one
\* charged to the same project and model opens the breaker.
THEOREM GatesHonouredAlways == Spec => []GatesHonouredUnlessRaced
<1>1. ClosedInv => GatesHonouredUnlessRaced
  <2> SUFFICES ASSUME ClosedInv, NEW t \in Thread, pc[t] = "sending"
               PROVE  /\ Quarantined(Candidate(t)) => FailedSince(t, local[t].unquarantined)
                      /\ InRetryAfter(Candidate(t)) => FailedSince(t, local[t].cleared)
                      /\ now < BreakerOf(t).openUntil => ChargedSince(t)
    BY DEF GatesHonouredUnlessRaced
  <2>1. Typed /\ Passed(t) /\ StillClosed(t) /\ Candidate(t) \in Model
    BY DEF ClosedInv, TraceInv, GateInv, Typed
  <2>2. /\ local[t].unquarantined \in Nat /\ local[t].cleared \in Nat
        /\ health[Candidate(t)].failures \in Nat
    BY <2>1 DEF Typed, Local, HealthRecord
  <2> QED BY <2>1, <2>2 DEF Passed, StillOpen, StillClosed, FailedSince
<1> QED BY <1>1, InitClosed, NextClosed, PTL DEF Spec

-----------------------------------------------------------------------------
(* A request pinned to a model has no other candidate, and the key of every *)
(* kept result names the model it is pinned to.                             *)
PinnedCall(t) ==
  /\ pc[t] # "idle" =>
       \E r \in Request :
         /\ req[t] = Resolved(r)
         /\ r.model # None =>
              IF pc[t] = "choosing" THEN todo[t] \in {<<>>, <<r.model>>}
                                    ELSE todo[t] = <<r.model>>
  /\ Answered(t) /\ req[t].model # None => answer[t].model = req[t].model

PinnedInv ==
  /\ Typed
  /\ req = [t \in Thread |-> req[t]] /\ answer = [t \in Thread |-> answer[t]]
  /\ cache = [k \in Key |-> cache[k]]
  /\ \A t \in Thread : PinnedCall(t)
  /\ \A k \in Key : cache[k] # None /\ k[1] # None => cache[k].model = k[1]

LEMMA ResolvedFact ==
  ASSUME NEW r \in Request
  PROVE  /\ Resolved(r).model = r.model /\ Resolved(r).key = CacheKey(r)
         /\ CacheKey(r) \in Key /\ CacheKey(r)[1] = r.model
BY DEF Resolved, CacheKey, Key

LEMMA InitPinned == Init => PinnedInv
<1> SUFFICES ASSUME Init PROVE PinnedInv
  OBVIOUS
<1>1. Typed
  BY InitGates DEF GateInv
<1>2. \A t \in Thread : PinnedCall(t)
  BY DEF Init, PinnedCall, Answered
<1> QED BY <1>1, <1>2 DEF Init, PinnedInv

\* A thread's step concerns that thread alone.
LEMMA AloneStep ==
  ASSUME PinnedInv, NEW t \in Thread, Typed', cache' = cache, PinnedCall(t)',
         req' = [u \in Thread |-> req'[u]], answer' = [u \in Thread |-> answer'[u]],
         \A u \in Thread \ {t} : /\ pc'[u] = pc[u] /\ todo'[u] = todo[u]
                                 /\ req'[u] = req[u] /\ answer'[u] = answer[u]
  PROVE  PinnedInv'
BY DEF PinnedInv, PinnedCall, Answered

LEMMA CallPinned ==
  ASSUME PinnedInv, Typed', NEW t \in Thread, NEW r \in Request, Call(t, r)
  PROVE  PinnedInv'
<1>1. /\ Typed /\ pc[t] = "idle" /\ cache' = cache /\ req' = [req EXCEPT ![t] = Resolved(r)]
      /\ pc' = pc \/ pc' = [pc EXCEPT ![t] = "choosing"]
      /\ todo' = todo \/ todo' = [todo EXCEPT ![t] = Candidates(r)]
      /\ \E a : answer' = [answer EXCEPT ![t] = a]
  BY DEF PinnedInv, Call, Goto
<1>2. /\ req' = [u \in Thread |-> req'[u]] /\ answer' = [u \in Thread |-> answer'[u]]
      /\ \A u \in Thread \ {t} : /\ pc'[u] = pc[u] /\ todo'[u] = todo[u]
                                 /\ req'[u] = req[u] /\ answer'[u] = answer[u]
      /\ req'[t] = Resolved(r)
  BY <1>1 DEF PinnedInv, Typed
<1>3. PinnedCall(t)'
  <2>1. CASE answer' = [answer EXCEPT ![t] = Failure] /\ pc' = pc
    <3>1. answer'[t] = Failure /\ pc'[t] = "idle"
      BY <1>1, <2>1 DEF PinnedInv
    <3> QED BY <3>1 DEF PinnedCall, Answered, Failure
  <2>2. CASE /\ cache[CacheKey(r)] # None /\ pc' = pc
             /\ answer' = [answer EXCEPT ![t] = cache[CacheKey(r)]]
    <3>1. answer'[t] = cache[CacheKey(r)] /\ pc'[t] = "idle"
      BY <1>1, <2>2 DEF PinnedInv
    <3>2. r.model # None => answer'[t].model = r.model
      BY <2>2, <3>1, ResolvedFact DEF PinnedInv
    <3> QED BY <1>2, <3>1, <3>2, ResolvedFact DEF PinnedCall
  <2>3. CASE /\ answer' = [answer EXCEPT ![t] = None] /\ Goto(t, "choosing")
             /\ todo' = [todo EXCEPT ![t] = Candidates(r)]
    <3>1. answer'[t] = None /\ pc'[t] = "choosing" /\ todo'[t] = Candidates(r)
      BY <1>1, <2>3 DEF PinnedInv, Typed, Goto
    <3>2. r.model # None => todo'[t] = <<r.model>>
      BY <3>1 DEF Candidates
    <3> QED BY <1>2, <3>1, <3>2 DEF PinnedCall, Answered
  <2> QED BY <2>1, <2>2, <2>3 DEF Call
<1> QED BY <1>1, <1>2, <1>3, AloneStep

\* Candidates are only dropped, and only a pinned model is kept for its call.
LEMMA LoopPinned ==
  ASSUME PinnedInv, Typed', NEW t \in Thread, Step(t), ~Store(t)
  PROVE  PinnedInv'
<1>1. Typed /\ PinnedCall(t)
  BY DEF PinnedInv
<1>2. CASE /\ UNCHANGED <<req, cache, answer, todo>>
           /\ \/ pc[t] = "choosing" /\ todo[t] # <<>>
              \/ pc[t] \notin {"idle", "choosing"}
           /\ \E l \in ProgramPoint \ {"idle", "choosing"} : pc' = [pc EXCEPT ![t] = l]
  <2>1. /\ pc'[t] \notin {"idle", "choosing"} /\ \A u \in Thread \ {t} : pc'[u] = pc[u]
    BY <1>1, <1>2 DEF Typed
  <2>2. PinnedCall(t)'
    BY <1>1, <1>2, <2>1 DEF PinnedCall, Answered
  <2> QED BY <1>2, <2>1, <2>2, AloneStep DEF PinnedInv
<1>3. CASE /\ UNCHANGED <<req, cache, answer>> /\ Refuse(t)
           /\ \/ pc[t] = "choosing" /\ todo[t] # <<>>
              \/ pc[t] \notin {"idle", "choosing"}
  <2>1. /\ pc'[t] = "choosing" /\ todo'[t] = Tail(todo[t])
        /\ \A u \in Thread \ {t} : pc'[u] = pc[u] /\ todo'[u] = todo[u]
    BY <1>1, <1>3 DEF Typed, Refuse, Goto
  <2>2. \A m : Tail(<<m>>) = <<>>
    OBVIOUS
  <2>3. PinnedCall(t)'
    BY <1>1, <1>3, <2>1, <2>2 DEF PinnedCall, Answered
  <2> QED BY <1>3, <2>1, <2>3, AloneStep DEF PinnedInv
<1>4. CASE GiveUp(t) \/ RaiseOther(t)
  <2>1. /\ UNCHANGED <<req, cache>> /\ answer' = [answer EXCEPT ![t] = Failure]
        /\ pc' = [pc EXCEPT ![t] = "idle"]
        /\ todo' = todo \/ todo' = [todo EXCEPT ![t] = <<>>]
    BY <1>4 DEF GiveUp, RaiseOther, Goto
  <2>2. /\ answer'[t] = Failure /\ pc'[t] = "idle"
        /\ answer' = [u \in Thread |-> answer'[u]]
        /\ \A u \in Thread \ {t} :
             pc'[u] = pc[u] /\ todo'[u] = todo[u] /\ answer'[u] = answer[u]
    BY <1>1, <2>1 DEF PinnedInv, Typed
  <2>3. PinnedCall(t)'
    BY <2>2 DEF PinnedCall, Answered, Failure
  <2> QED BY <2>1, <2>2, <2>3, AloneStep DEF PinnedInv
<1>5. CASE CheckQuarantine(t) \/ CheckRetryAfter(t) \/ CheckBreaker(t)
  BY <1>2, <1>3, <1>5 DEF CheckQuarantine, CheckRetryAfter, CheckBreaker, Goto, ProgramPoint
<1>6. CASE Respond(t) \/ \E f \in Fault : RaiseGatewayError(t, f)
  BY <1>2, <1>6 DEF Respond, RaiseGatewayError, Goto, ProgramPoint
<1>7. CASE TrackFailure(t) \/ TrackSuccess(t) \/ CreditBreaker(t)
  BY <1>2, <1>7 DEF TrackFailure, TrackSuccess, CreditBreaker, Goto, ProgramPoint
<1>8. CASE ChargeBreaker(t)
  BY <1>3, <1>8 DEF ChargeBreaker
<1> QED BY <1>4, <1>5, <1>6, <1>7, <1>8 DEF Step

LEMMA StorePinned ==
  ASSUME PinnedInv, Typed', NEW t \in Thread, Store(t)
  PROVE  PinnedInv'
<1>1. PICK r \in Request : req[t] = Resolved(r) /\ (r.model # None => todo[t] = <<r.model>>)
  BY DEF PinnedInv, PinnedCall, Store
<1>2. PICK s : LET res == Result(req[t], Candidate(t), s)
               IN  /\ cache' = [cache EXCEPT ![req[t].key] = res]
                   /\ answer' = [answer EXCEPT ![t] = res]
  BY DEF Store
<1> DEFINE res == Result(req[t], Candidate(t), s)
<1>3. /\ res.model = Candidate(t) /\ (r.model # None => res.model = r.model)
  BY <1>1 DEF Result, Candidate
<1> HIDE DEF res
<1>4. /\ answer'[t] = res /\ pc'[t] = "idle" /\ req' = req
      /\ answer' = [u \in Thread |-> answer'[u]]
      /\ \A u \in Thread \ {t} :
           pc'[u] = pc[u] /\ todo'[u] = todo[u] /\ answer'[u] = answer[u]
  BY <1>2 DEF res, PinnedInv, Typed, Store, Goto
<1>5. cache' = [cache EXCEPT ![CacheKey(r)] = res]
  BY <1>1, <1>2, ResolvedFact DEF res
<1>6. \A k \in Key : cache'[k] # None /\ k[1] # None => cache'[k].model = k[1]
  <2> SUFFICES ASSUME NEW k \in Key, cache'[k] # None, k[1] # None PROVE cache'[k].model = k[1]
    OBVIOUS
  <2>1. CASE k = CacheKey(r)
    BY <1>3, <1>5, <2>1, ResolvedFact DEF PinnedInv
  <2>2. CASE k # CacheKey(r)
    BY <1>5, <2>2 DEF PinnedInv
  <2> QED BY <2>1, <2>2
<1>7. PinnedCall(t)'
  BY <1>1, <1>3, <1>4, ResolvedFact DEF PinnedCall
<1>8. \A u \in Thread \ {t} : PinnedCall(u)'
  BY <1>4 DEF PinnedInv, PinnedCall, Answered
<1>9. cache' = [k \in Key |-> cache'[k]]
  BY <1>5 DEF PinnedInv
<1> QED BY <1>4, <1>6, <1>7, <1>8, <1>9 DEF PinnedInv

\* A key that is forgotten names nothing.
LEMMA OtherPinned ==
  ASSUME PinnedInv, Typed', Tick \/ (\E k \in Key : Forget(k)) \/ UNCHANGED vars
  PROVE  PinnedInv'
<1>1. UNCHANGED <<pc, req, todo, answer>>
      /\ (cache' = cache \/ \E k \in Key : cache' = [cache EXCEPT ![k] = None])
  BY DEF Tick, Forget, vars
<1>2. \A k \in Key : cache'[k] # None => cache'[k] = cache[k]
  BY <1>1 DEF PinnedInv
<1>3. cache' = [k \in Key |-> cache'[k]]
  BY <1>1 DEF PinnedInv
<1>4. \A t \in Thread : PinnedCall(t)'
  BY <1>1 DEF PinnedInv, PinnedCall, Answered
<1> QED BY <1>1, <1>2, <1>3, <1>4 DEF PinnedInv

\* integration.py router_fn and _cache_key: whatever other threads, projects and
\* sessions have asked, a call that names its model is answered by that model,
\* from the cache and from the gateway alike.
THEOREM PinnedAlways == Spec => []PinnedIsHonoured
<1>1. PinnedInv => PinnedIsHonoured
  BY DEF PinnedInv, PinnedCall, PinnedIsHonoured
<1>2. GateInv /\ PinnedInv /\ [Next]_vars => GateInv' /\ PinnedInv'
  <2> SUFFICES ASSUME GateInv, PinnedInv, [Next]_vars PROVE GateInv' /\ PinnedInv'
    OBVIOUS
  <2>1. GateInv' /\ Typed'
    BY NextGates DEF GateInv
  <2> QED BY <2>1, CallPinned, LoopPinned, StorePinned, OtherPinned DEF Next
<1> QED BY <1>1, <1>2, InitGates, InitPinned, PTL DEF Spec
=============================================================================
