-------------------------- MODULE WebhookIntakeProofs --------------------------
(***************************************************************************)
(* Proofs about WebhookIntake, for every set of parcels, of requests and   *)
(* of syncs under way, and every number of changes.                        *)
(***************************************************************************)
EXTENDS WebhookIntake, TLAPS

-----------------------------------------------------------------------------
(* Types.                                                                  *)

\* A row is written to wait, or not to.
LEMMA EndType ==
  ASSUME HookTypeOK, KnownInv, NEW t \in Syncs, run[t] # "idle",
         NEW again \in {0, 1}, End(t, again)
  PROVE  /\ run' \in [Syncs -> {"idle", "fetch", "store", "complete"}]
         /\ target' \in [Syncs -> Parcels \union {NoParcel}]
         /\ got' \in [Syncs -> 0..MaxChanges]
         /\ pending' \in [Parcels -> Nat]
         /\ lapsed' \subseteq Syncs
<1>1. target[t] \in Parcels /\ pending[target[t]] \in Nat
  BY DEF KnownInv, HookTypeOK
<1>2. pending' \in [Parcels -> Nat]
  <2>1. pending[target[t]] + again \in Nat
    BY <1>1
  <2>2. pending[target[t]] > 0 => pending[target[t]] - 1 + again \in Nat
    BY <1>1
  <2> QED
    BY <2>1, <2>2 DEF End, HookTypeOK
<1>3. lapsed' \subseteq Syncs
  BY DEF End, Processing, HookTypeOK
<1>4. Release(t)
  BY DEF End
<1> QED
  BY <1>2, <1>3, <1>4, HookBounds DEF Release, HookTypeOK

\* Every step keeps the types.
LEMMA HookTypeStep ==
  ASSUME HookTypeOK, KnownInv, [HookNext]_hookVars
  PROVE  HookTypeOK'
<1> USE HookBounds DEF HookTypeOK, HookMark, HookFault, Mark
<1>1. ASSUME NEW p \in Parcels, Change(p)
      PROVE  HookTypeOK'
  BY <1>1 DEF Change, request, job
<1>2. ASSUME NEW h \in Handlers, NEW p \in Parcels, NEW v \in 1..MaxChanges, Receive(h, p, v)
      PROVE  HookTypeOK'
  BY <1>2 DEF Receive, job, EventId
<1>3. ASSUME NEW h \in Handlers, NEW p \in Parcels, NEW v \in 1..MaxChanges,
             AnswerDuplicate(h, p, v)
      PROVE  HookTypeOK'
  BY <1>3 DEF AnswerDuplicate, request, job
<1>4. ASSUME NEW h \in Handlers, Gate(h)
      PROVE  HookTypeOK'
  <2>1. hook' \in [Handlers -> {"idle", "gate", "enqueue", "settle"}]
    BY <1>4 DEF Gate
  <2>2. about[h] \in Parcels
    BY <1>4 DEF Gate, KnownInv
  <2>3. /\ hookFaults' \in 0..MaxHookFaults
        /\ hookMarks' \subseteq HookMark \X Parcels \X (0..MaxChanges)
    BY <1>4, <2>2 DEF Gate
  <2> QED
    BY <1>4, <2>1, <2>3 DEF Gate, job
<1>5. ASSUME NEW h \in Handlers, Enqueue(h)
      PROVE  HookTypeOK'
  <2>1. about[h] \in Parcels
    BY <1>5 DEF Enqueue, KnownInv
  <2>2. pending' \in [Parcels -> Nat]
    BY <1>5, <2>1 DEF Enqueue
  <2>3. /\ hookMarks' \subseteq HookMark \X Parcels \X (0..MaxChanges)
        /\ hookFaults' \in 0..MaxHookFaults
    BY <1>5, <2>1 DEF Enqueue, HookMark, HookFault
  <2> QED
    BY <1>5, <2>2, <2>3 DEF Enqueue, job
<1>6. ASSUME NEW h \in Handlers, Settle(h)
      PROVE  HookTypeOK'
  <2>1. about[h] \in Parcels /\ news[h] \in 1..version[about[h]]
    BY <1>6 DEF Settle, KnownInv
  <2>2. news[h] \in 1..MaxChanges
    BY <2>1
  <2> QED
    BY <1>6, <2>1, <2>2 DEF Settle, Respond, job
<1>7. ASSUME NEW h \in Handlers, DieHandler(h)
      PROVE  HookTypeOK'
  BY <1>7 DEF DieHandler, KnownInv, job
<1>8. ASSUME NEW t \in Syncs, NEW p \in Parcels, TakeJob(t, p)
      PROVE  HookTypeOK'
  <2>1. pending' \in [Parcels -> Nat]
    BY <1>8 DEF TakeJob
  <2> QED
    BY <1>8, <2>1 DEF TakeJob, request
<1>9. ASSUME NEW t \in Syncs, FetchHistory(t)
      PROVE  HookTypeOK'
  <2>1. target[t] \in Parcels /\ version[target[t]] \in 0..MaxChanges
    BY <1>9 DEF FetchHistory, KnownInv
  <2>2. /\ hookMarks' \subseteq HookMark \X Parcels \X (0..MaxChanges)
        /\ hookFaults' \in 0..MaxHookFaults
    BY <1>9, <2>1 DEF FetchHistory
  <2> QED
    BY <1>9, <2>1, <2>2 DEF FetchHistory, request
<1>10. ASSUME NEW t \in Syncs, StoreHistory(t)
       PROVE  HookTypeOK'
  BY <1>10 DEF StoreHistory, request
<1>11. ASSUME NEW t \in Syncs, CompleteJob(t)
       PROVE  HookTypeOK'
  <2>1. run[t] # "idle" /\ target[t] \in Parcels /\ End(t, 0)
    BY <1>11 DEF CompleteJob, KnownInv
  <2>2. hookMarks' \subseteq HookMark \X Parcels \X (0..MaxChanges)
    BY <1>11, <2>1 DEF CompleteJob
  <2> QED
    BY <1>11, <2>1, <2>2, EndType DEF CompleteJob, request
<1>12. ASSUME NEW t \in Syncs, PutBack(t)
       PROVE  HookTypeOK'
  <2>1. run[t] # "idle" /\ End(t, 1)
    BY <1>12 DEF PutBack
  <2> QED
    BY <1>12, <2>1, EndType DEF PutBack, request
<1>13. ASSUME NEW t \in Syncs, GiveUp(t)
       PROVE  HookTypeOK'
  <2>1. run[t] # "idle" /\ target[t] \in Parcels /\ End(t, 0)
    BY <1>13 DEF GiveUp, KnownInv
  <2>2. hookMarks' \subseteq HookMark \X Parcels \X (0..MaxChanges)
    BY <1>13, <2>1 DEF GiveUp
  <2> QED
    BY <1>13, <2>1, <2>2, EndType DEF GiveUp, request
<1>14. ASSUME NEW t \in Syncs, Recover(t)
       PROVE  HookTypeOK'
  <2>1. target[t] \in Parcels
    BY <1>14 DEF Recover, KnownInv
  <2>2. pending' \in [Parcels -> Nat] /\ hookMarks' \subseteq HookMark \X Parcels \X (0..MaxChanges)
    BY <1>14, <2>1 DEF Recover
  <2> QED
    BY <1>14, <2>2 DEF Recover, request
<1>15. CASE UNCHANGED hookVars
  BY <1>15 DEF hookVars, request, job
<1> QED
  BY <1>1, <1>2, <1>3, <1>4, <1>5, <1>6, <1>7, <1>8, <1>9, <1>10, <1>11, <1>12, <1>13,
     <1>14, <1>15 DEF HookNext

-----------------------------------------------------------------------------
(* A change that will be fetched stays so.                                 *)

\* Changes do not go back, and marks are never taken back.
LEMMA HookGrows ==
  ASSUME HookTypeOK, [HookNext]_hookVars
  PROVE  /\ \A p \in Parcels : version[p] <= version'[p]
         /\ \A p \in Parcels, v \in 1..MaxChanges : Excepted(p, v) => Excepted(p, v)'
         /\ stamped' = stamped
<1>1. /\ \A p \in Parcels : version[p] <= version'[p]
      /\ hookMarks \subseteq hookMarks'
      /\ stamped' = stamped
  BY DEF HookTypeOK, HookNext, hookVars, request, job, Change, Receive, AnswerDuplicate, Gate,
     Enqueue, Settle, DieHandler, TakeJob, FetchHistory, StoreHistory, CompleteJob, Recover,
     PutBack, GiveUp, Mark
<1> QED
  BY <1>1 DEF Excepted

\* A mark at a change excepts it and those before it.
LEMMA MarkExcepts ==
  ASSUME NEW p \in Parcels, NEW v \in 1..MaxChanges, NEW u \in v..MaxChanges,
         NEW k \in HookMark, Mark(k, p, u)
  PROVE  Excepted(p, v)'
BY DEF Mark, Excepted

\* The steps of the syncs keep what is covered, or mark the parcel.
LEMMA CoveredStays ==
  ASSUME HookTypeOK, HookTypeOK', KnownInv, [HookNext]_hookVars,
         NEW p \in Parcels, NEW v \in 1..MaxChanges, v <= version[p], Covered(p, v)
  PROVE  Covered(p, v)' \/ Excepted(p, v)'
<1> USE HookBounds DEF HookTypeOK, Covered
<1>1. ASSUME NEW q \in Parcels, Change(q)
      PROVE  Covered(p, v)'
  BY <1>1 DEF Change, request, job
<1>2. CASE UNCHANGED <<pending, job, fetched>>
  BY <1>2 DEF job
<1>3. ASSUME NEW h \in Handlers, Enqueue(h)
      PROVE  Covered(p, v)'
  <2>1. about[h] \in Parcels
    BY <1>3 DEF Enqueue, KnownInv
  <2>2. pending'[p] >= pending[p]
    BY <1>3, <2>1 DEF Enqueue
  <2> QED
    BY <1>3, <2>2 DEF Enqueue, job
<1>4. ASSUME NEW t \in Syncs, NEW q \in Parcels, TakeJob(t, q)
      PROVE  Covered(p, v)'
  <2>1. CASE q = p
    BY <1>4, <2>1 DEF TakeJob, request
  <2>2. CASE q # p
    <3>1. pending'[p] = pending[p]
      BY <1>4, <2>2 DEF TakeJob
    <3> QED
      BY <1>4, <3>1 DEF TakeJob, request
  <2> QED
    BY <2>1, <2>2
<1>5. ASSUME NEW t \in Syncs, FetchHistory(t)
      PROVE  Covered(p, v)' \/ Excepted(p, v)'
  <2>1. CASE run' = [run EXCEPT ![t] = "store"]
    BY <1>5, <2>1 DEF FetchHistory, request
  <2>2. CASE run' = [run EXCEPT ![t] = "complete"] /\ target[t] = p
    BY <1>5, <2>2, MarkExcepts DEF FetchHistory, HookMark
  <2>3. CASE run' = [run EXCEPT ![t] = "complete"] /\ target[t] # p
    BY <1>5, <2>3 DEF FetchHistory, request
  <2> QED
    BY <1>5, <2>1, <2>2, <2>3 DEF FetchHistory
<1>6. ASSUME NEW t \in Syncs, StoreHistory(t)
      PROVE  Covered(p, v)'
  BY <1>6 DEF StoreHistory, request
<1>7. ASSUME NEW t \in Syncs, run[t] # "idle", NEW again \in {0, 1}, End(t, again),
             UNCHANGED <<version, fetched>>, pending[p] <= pending'[p],
             target[t] = p => run[t] = "complete" \/ again = 1
      PROVE  Covered(p, v)'
  <2>1. target[t] \in Parcels /\ Release(t)
    BY <1>7 DEF End, KnownInv
  <2>2. CASE pending[p] > 0
    BY <1>7, <2>2
  <2>3. CASE pending[p] = 0 /\ target[t] = p /\ again = 1
    BY <1>7, <2>3 DEF End
  <2>4. CASE target[t] # p \/ run[t] = "complete"
    BY <1>7, <2>1, <2>2, <2>4 DEF Release
  <2> QED
    BY <1>7, <2>2, <2>3, <2>4
<1>8. ASSUME NEW t \in Syncs, NEW again \in {0, 1}, End(t, again), run[t] # "idle"
      PROVE  /\ target[t] # p => pending'[p] = pending[p]
             /\ again = 1 => pending'[p] >= pending[p]
  <2>1. target[t] \in Parcels
    BY <1>8 DEF KnownInv
  <2> QED
    BY <1>8, <2>1 DEF End
<1>9. ASSUME NEW t \in Syncs, CompleteJob(t)
      PROVE  Covered(p, v)' \/ Excepted(p, v)'
  <2>1. CASE pending[p] <= pending'[p]
    BY <1>7, <1>9, <2>1 DEF CompleteJob
  <2>2. CASE pending'[p] < pending[p]
    <3>1. target[t] = p
      BY <1>8, <1>9, <2>2 DEF CompleteJob
    <3> QED
      BY <1>9, <2>2, <3>1, MarkExcepts DEF CompleteJob, HookMark
  <2> QED
    BY <2>1, <2>2
<1>10. ASSUME NEW t \in Syncs, PutBack(t)
       PROVE  Covered(p, v)'
  BY <1>7, <1>8, <1>10 DEF PutBack
<1>11. ASSUME NEW t \in Syncs, GiveUp(t)
       PROVE  Covered(p, v)' \/ Excepted(p, v)'
  <2>1. CASE target[t] = p
    BY <1>11, <2>1, MarkExcepts DEF GiveUp, HookMark
  <2>2. CASE target[t] # p
    BY <1>7, <1>8, <1>11, <2>2 DEF GiveUp
  <2> QED
    BY <2>1, <2>2
<1>12. ASSUME NEW t \in Syncs, Recover(t)
       PROVE  Covered(p, v)'
  <2>1. target[t] \in Parcels
    BY <1>12 DEF Recover, KnownInv
  <2>2. pending'[p] >= pending[p]
    BY <1>12, <2>1 DEF Recover
  <2> QED
    BY <1>12, <2>2 DEF Recover
<1> QED
  BY <1>1, <1>2, <1>3, <1>4, <1>5, <1>6, <1>9, <1>10, <1>11, <1>12
     DEF HookNext, hookVars, Receive, AnswerDuplicate, Gate, Settle, DieHandler

\* A request that does not ask for a sync has found one that will do, or leaves a
\* mark; one that asks has asked.
LEMMA AskedOrFound ==
  ASSUME HookTypeOK, HookTypeOK', KnownInv, NEW h \in Handlers,
         (Gate(h) /\ hook'[h] # "enqueue") \/ Enqueue(h),
         NEW p \in Parcels, about[h] = p, NEW v \in 1..MaxChanges, v <= news[h]
  PROVE  Covered(p, v)' \/ Excepted(p, v)'
<1> news[h] \in v..MaxChanges
  BY HookBounds DEF HookTypeOK
<1>1. CASE Gate(h) /\ hook'[h] # "enqueue"
  <2> DEFINE Busy == pending[p] = 0 /\ \A t \in Processing(p) : run[t] # "fetch" /\ got[t] < news[h]
  <2>1. /\ pending[p] > 0 \/ Processing(p) # {}
        /\ IF Busy THEN Mark("busy", p, news[h]) ELSE UNCHANGED hookMarks
    BY <1>1 DEF Gate, HookTypeOK
  <2>2. CASE Busy
    BY <2>1, <2>2, MarkExcepts DEF HookMark
  <2>3. CASE pending[p] # 0
    BY <1>1, <2>3 DEF Gate, Covered, HookTypeOK
  <2>4. ASSUME NEW t \in Processing(p), run[t] = "fetch" \/ got[t] >= news[h]
        PROVE  Covered(p, v)'
    <3>1. t \in Syncs /\ target[t] = p /\ run[t] # "idle"
      BY <2>4 DEF Processing
    <3>2. UNCHANGED <<run, target, got, fetched>>
      BY <1>1 DEF Gate, job
    <3>3. CASE run[t] = "fetch"
      BY <3>1, <3>2, <3>3 DEF Covered
    <3>4. got[t] \in Nat /\ fetched[p] \in Nat /\ news[h] \in Nat
      BY <3>1, HookBounds DEF HookTypeOK
    <3>5. CASE run[t] = "store"
      <4>1. got[t] >= v
        BY <2>4, <3>4, <3>5
      <4> QED
        BY <3>1, <3>2, <3>5, <4>1 DEF Covered
    <3>6. CASE run[t] = "complete"
      <4>1. got[t] <= fetched[p]
        BY <3>1, <3>6 DEF KnownInv
      <4>2. fetched[p] >= v
        BY <2>4, <3>4, <3>6, <4>1
      <4> QED
        BY <3>2, <4>2 DEF Covered
    <3> QED
      BY <3>1, <3>3, <3>5, <3>6 DEF HookTypeOK
  <2>5. CASE pending[p] = 0 /\ ~Busy
    <3>1. PICK t \in Processing(p) : run[t] = "fetch" \/ ~(got[t] < news[h])
      BY <2>5
    <3>2. got[t] \in Nat /\ news[h] \in Nat
      BY <3>1, HookBounds DEF HookTypeOK, Processing
    <3> QED
      BY <2>4, <3>1, <3>2
  <2> QED
    BY <2>2, <2>3, <2>5
<1>2. CASE Enqueue(h)
  <2>1. CASE pending' = [pending EXCEPT ![about[h]] = @ + 1]
    BY <2>1 DEF Covered, HookTypeOK
  <2>2. CASE Mark("unqueued", about[h], news[h])
    BY <2>2, MarkExcepts DEF HookMark
  <2> QED
    BY <1>2, <2>1, <2>2 DEF Enqueue
<1> QED
  BY <1>1, <1>2

\* A request that will ask for a sync does, or finds one that will do, or leaves
\* a mark.
LEMMA UnderWayStays ==
  ASSUME HookTypeOK, HookTypeOK', KnownInv, [HookNext]_hookVars,
         NEW p \in Parcels, NEW v \in 1..MaxChanges, UnderWay(p, v)
  PROVE  UnderWay(p, v)' \/ Covered(p, v)' \/ Excepted(p, v)'
<1>1. PICK h \in Handlers : about[h] = p /\ news[h] >= v /\ hook[h] \in {"gate", "enqueue"}
  BY DEF UnderWay
<1>2. CASE UNCHANGED <<hook[h], about[h], news[h]>>
  BY <1>1, <1>2 DEF UnderWay
<1>3. CASE Gate(h)
  <2>1. about'[h] = p /\ news'[h] >= v
    BY <1>1, <1>3 DEF Gate
  <2>2. CASE hook'[h] = "enqueue"
    BY <2>1, <2>2 DEF UnderWay
  <2>3. CASE hook'[h] # "enqueue"
    BY <1>1, <1>3, <2>3, AskedOrFound
  <2> QED
    BY <2>2, <2>3
<1>4. CASE Enqueue(h)
  BY <1>1, <1>4, AskedOrFound
<1>5. CASE DieHandler(h)
  <2>1. news[h] \in v..MaxChanges
    BY <1>1, HookBounds DEF HookTypeOK
  <2>2. Mark("cut", p, news[h])
    BY <1>1, <1>5 DEF DieHandler
  <2> QED
    BY <2>1, <2>2, MarkExcepts DEF HookMark
<1>6. ASSUME NEW g \in Handlers, g # h,
             (\E q \in Parcels, u \in 1..MaxChanges : Receive(g, q, u)) \/ Gate(g)
               \/ Enqueue(g) \/ Settle(g) \/ DieHandler(g)
      PROVE  UNCHANGED <<hook[h], about[h], news[h]>>
  BY <1>6 DEF HookTypeOK, Receive, Gate, Enqueue, Settle, Respond, DieHandler
<1>7. ~(\E q \in Parcels, u \in 1..MaxChanges : Receive(h, q, u)) /\ ~Settle(h)
  BY <1>1 DEF Receive, Settle
<1>8. ASSUME UNCHANGED request
      PROVE  UNCHANGED <<hook[h], about[h], news[h]>>
  BY <1>8 DEF request
<1>9. ASSUME (\E q \in Parcels : Change(q))
               \/ (\E g \in Handlers, q \in Parcels, u \in 1..MaxChanges :
                     AnswerDuplicate(g, q, u))
               \/ (\E t \in Syncs : (\E q \in Parcels : TakeJob(t, q)) \/ FetchHistory(t)
                     \/ StoreHistory(t) \/ CompleteJob(t) \/ Recover(t) \/ PutBack(t)
                     \/ GiveUp(t))
               \/ UNCHANGED hookVars
      PROVE  UNCHANGED request
  BY <1>9 DEF Change, AnswerDuplicate, TakeJob, FetchHistory, StoreHistory, CompleteJob,
     Recover, PutBack, GiveUp, hookVars
<1> QED
  BY <1>2, <1>3, <1>4, <1>5, <1>6, <1>7, <1>8, <1>9 DEF HookNext

\* What is covered, under way or excepted stays one of the three.
LEMMA CareStays ==
  ASSUME HookTypeOK, HookTypeOK', KnownInv, [HookNext]_hookVars,
         NEW p \in Parcels, NEW v \in 1..MaxChanges, v <= version[p],
         Covered(p, v) \/ UnderWay(p, v) \/ Excepted(p, v)
  PROVE  Covered(p, v)' \/ UnderWay(p, v)' \/ Excepted(p, v)'
BY CoveredStays, UnderWayStays, HookGrows

-----------------------------------------------------------------------------
(* The inductive invariant.                                                *)

\* Every step keeps what requests and syncs know true.
LEMMA KnownStep ==
  ASSUME HookTypeOK, HookTypeOK', KnownInv, [HookNext]_hookVars
  PROVE  KnownInv'
<1>1. ASSUME NEW h \in Handlers, hook'[h] # "idle"
      PROVE  about'[h] \in Parcels /\ news'[h] \in 1..version'[about'[h]]
  <2>1. CASE \E p \in Parcels, v \in 1..MaxChanges : Receive(h, p, v)
    BY <1>1, <2>1 DEF Receive, HookTypeOK
  <2>2. CASE UNCHANGED <<about[h], news[h]>> /\ hook[h] # "idle"
    <3>1. about[h] \in Parcels /\ news[h] \in 1..version[about[h]]
      BY <2>2 DEF KnownInv
    <3>2. version[about[h]] <= version'[about[h]]
      BY <3>1, HookGrows
    <3> QED
      BY <2>2, <3>1, <3>2 DEF HookTypeOK
  <2>3. (\E p \in Parcels, v \in 1..MaxChanges : Receive(h, p, v))
          \/ (UNCHANGED <<about[h], news[h]>> /\ hook[h] # "idle")
    BY <1>1 DEF HookTypeOK, HookNext, hookVars, request, job, Change, Receive, AnswerDuplicate,
       Gate, Enqueue, Settle, Respond, DieHandler, TakeJob, FetchHistory, StoreHistory,
       CompleteJob, Recover, PutBack, GiveUp
  <2> QED
    BY <2>1, <2>2, <2>3
<1>2. ASSUME NEW h \in Handlers, hook'[h] = "settle"
      PROVE  (Covered(about[h], news[h]) \/ Excepted(about[h], news[h]))'
  <2>1. hook[h] # "idle" /\ UNCHANGED <<about[h], news[h]>>
    BY <1>2 DEF HookTypeOK, HookNext, hookVars, request, job, Change, Receive, AnswerDuplicate,
       Gate, Enqueue, Settle, Respond, DieHandler, TakeJob, FetchHistory, StoreHistory,
       CompleteJob, Recover, PutBack, GiveUp
  <2>2. about[h] \in Parcels /\ news[h] \in 1..version[about[h]]
    BY <2>1 DEF KnownInv
  <2>3. PICK p \in Parcels, v \in 1..MaxChanges :
          p = about[h] /\ v = news[h] /\ v <= version[p]
    BY <2>2, HookBounds DEF HookTypeOK
  <2>4. CASE hook[h] = "settle"
    <3>1. Covered(p, v) \/ Excepted(p, v)
      BY <2>3, <2>4 DEF KnownInv
    <3>2. Covered(p, v)' \/ Excepted(p, v)'
      BY <2>3, <3>1, CoveredStays, HookGrows
    <3> QED
      BY <2>1, <2>3, <3>2 DEF Covered, Excepted
  <2>5. CASE Gate(h) \/ Enqueue(h)
    <3>1. Covered(p, v)' \/ Excepted(p, v)'
      BY <1>2, <2>3, <2>5, AskedOrFound
    <3> QED
      BY <2>1, <2>3, <3>1 DEF Covered, Excepted
  <2>6. hook[h] = "settle" \/ Gate(h) \/ Enqueue(h)
    BY <1>2 DEF HookTypeOK, HookNext, hookVars, request, job, Change, Receive, AnswerDuplicate,
       Gate, Enqueue, Settle, Respond, DieHandler, TakeJob, FetchHistory, StoreHistory,
       CompleteJob, Recover, PutBack, GiveUp
  <2> QED
    BY <2>4, <2>5, <2>6
<1>3. ASSUME NEW t \in Syncs, run'[t] # "idle"
      PROVE  target'[t] \in Parcels
  <2>1. CASE UNCHANGED <<run, target>>
    BY <1>3, <2>1 DEF KnownInv
  <2>2. ASSUME NEW u \in Syncs, NEW p \in Parcels, TakeJob(u, p)
        PROVE  target'[t] \in Parcels
    BY <1>3, <2>2 DEF HookTypeOK, KnownInv, TakeJob
  <2>3. ASSUME NEW u \in Syncs, FetchHistory(u) \/ StoreHistory(u)
        PROVE  target'[t] \in Parcels
    BY <1>3, <2>3 DEF HookTypeOK, KnownInv, FetchHistory, StoreHistory
  <2>4. ASSUME NEW u \in Syncs, Release(u)
        PROVE  target'[t] \in Parcels
    BY <1>3, <2>4 DEF HookTypeOK, KnownInv, Release
  <2> QED
    BY <2>1, <2>2, <2>3, <2>4 DEF HookNext, hookVars, job, Change, Receive, AnswerDuplicate,
       Gate, Enqueue, Settle, DieHandler, CompleteJob, End, Recover, PutBack, GiveUp
<1>5. ASSUME NEW t \in lapsed'
      PROVE  run'[t] # "idle"
  <2>1. CASE UNCHANGED lapsed
    <3>1. run[t] # "idle"
      BY <1>5, <2>1 DEF KnownInv
    <3>2. ASSUME NEW u \in Syncs, End(u, 0) \/ End(u, 1), UNCHANGED lapsed
          PROVE  u # t
      BY <1>5, <3>2 DEF End, Processing
    <3>3. ASSUME NEW u \in Syncs, Release(u), u # t
          PROVE  run'[t] # "idle"
      BY <3>1, <3>3 DEF Release, HookTypeOK
    <3>4. ASSUME NEW u \in Syncs,
                 (\E p \in Parcels : TakeJob(u, p)) \/ FetchHistory(u) \/ StoreHistory(u)
          PROVE  run'[t] # "idle"
      BY <3>1, <3>4 DEF TakeJob, FetchHistory, StoreHistory, HookTypeOK
    <3>5. CASE UNCHANGED run
      BY <3>1, <3>5
    <3>6. \/ UNCHANGED run
          \/ \E u \in Syncs : \/ \E p \in Parcels : TakeJob(u, p)
                             \/ FetchHistory(u) \/ StoreHistory(u)
                             \/ End(u, 0) \/ End(u, 1)
      BY DEF HookNext, hookVars, job, Change, Receive, AnswerDuplicate, Gate, Enqueue,
         Settle, DieHandler, CompleteJob, Recover, PutBack, GiveUp
    <3>7. \A u \in Syncs, again \in {0, 1} : End(u, again) => Release(u)
      BY DEF End
    <3> QED
      BY <2>1, <3>2, <3>3, <3>4, <3>5, <3>6, <3>7
  <2>2. ASSUME NEW u \in Syncs, Recover(u)
        PROVE  run'[t] # "idle"
    BY <1>5, <2>2 DEF Recover, KnownInv
  <2>3. ASSUME NEW u \in Syncs, NEW again \in {0, 1}, End(u, again)
        PROVE  run'[t] # "idle"
    <3>1. t # u /\ run[t] # "idle" /\ t \in Syncs
      BY <1>5, <2>3 DEF End, Processing, KnownInv, HookTypeOK
    <3> QED
      BY <2>3, <3>1 DEF End, Release, HookTypeOK
  <2>4. UNCHANGED lapsed \/ \E u \in Syncs : Recover(u) \/ End(u, 0) \/ End(u, 1)
    BY DEF HookNext, hookVars, job, Change, Receive, AnswerDuplicate, Gate, Enqueue, Settle,
       DieHandler, TakeJob, FetchHistory, StoreHistory, CompleteJob, PutBack, GiveUp
  <2> QED
    BY <2>1, <2>2, <2>3, <2>4
<1>4. ASSUME NEW p \in Parcels, NEW v \in 1..MaxChanges, <<p, v>> \in (answered \union recorded)'
      PROVE  v <= version'[p]
  <2>1. version[p] <= version'[p] /\ version[p] \in Nat /\ version'[p] \in Nat
    BY HookGrows, HookBounds DEF HookTypeOK
  <2>2. CASE <<p, v>> \in answered \union recorded
    BY <2>1, <2>2 DEF KnownInv
  <2>3. CASE <<p, v>> \notin answered \union recorded
    <3>1. \/ \E h \in Handlers, q \in Parcels, u \in 1..MaxChanges :
               Receive(h, q, u) \/ AnswerDuplicate(h, q, u)
          \/ \E h \in Handlers : Settle(h)
      BY <1>4, <2>3 DEF HookNext, hookVars, request, job, Change, Gate, Enqueue, DieHandler,
         TakeJob, FetchHistory, StoreHistory, CompleteJob, Recover, PutBack, GiveUp
    <3>2. ASSUME NEW h \in Handlers, NEW q \in Parcels, NEW u \in 1..MaxChanges,
                 Receive(h, q, u) \/ AnswerDuplicate(h, q, u)
          PROVE  v <= version[p]
      <4>1. <<p, v>> \in {<<q, u>>, EventId(q, u)} /\ u <= version[q]
        BY <1>4, <2>3, <3>2 DEF Receive, AnswerDuplicate
      <4>2. p = q /\ v = u
        BY <4>1 DEF EventId
      <4> QED
        BY <4>1, <4>2
    <3>3. ASSUME NEW h \in Handlers, Settle(h)
          PROVE  v <= version[p]
      <4>1. p = about[h] /\ v = news[h]
        BY <1>4, <2>3, <3>3 DEF Settle, Respond
      <4>2. news[h] \in 1..version[about[h]]
        BY <3>3 DEF Settle, KnownInv
      <4> QED
        BY <4>1, <4>2
    <3> QED
      BY <2>1, <3>1, <3>2, <3>3
  <2> QED
    BY <2>2, <2>3
<1>6. ASSUME NEW t \in Syncs
      PROVE  /\ run'[t] \in {"idle", "fetch"} => got'[t] = 0
             /\ run'[t] = "complete" => got'[t] <= fetched'[target'[t]]
  <2> DEFINE Goal == /\ run[t] \in {"idle", "fetch"} => got[t] = 0
                     /\ run[t] = "complete" => got[t] <= fetched[target[t]]
  <2>1. /\ run[t] \in {"idle", "fetch"} => got[t] = 0
        /\ run[t] = "complete" => target[t] \in Parcels /\ got[t] <= fetched[target[t]]
    BY DEF KnownInv
  <2>2. ASSUME UNCHANGED <<run, target, got>>, \A p \in Parcels : fetched[p] <= fetched'[p]
        PROVE  Goal'
    <3>1. UNCHANGED <<run[t], target[t], got[t]>>
      BY <2>2
    <3>2. \A p \in Parcels : fetched[p] \in Nat /\ fetched'[p] \in Nat /\ got[t] \in Nat
      BY HookBounds DEF HookTypeOK
    <3> QED
      BY <2>1, <2>2, <3>1, <3>2
  <2>3. ASSUME NEW u \in Syncs, NEW p \in Parcels, TakeJob(u, p)
        PROVE  Goal'
    BY <2>1, <2>3 DEF TakeJob, HookTypeOK
  <2>4. ASSUME NEW u \in Syncs, FetchHistory(u)
        PROVE  Goal'
    <3>1. CASE u = t
      <4>1. target[t] \in Parcels /\ fetched[target[t]] \in Nat /\ got[t] = 0
        BY <2>1, <2>4, <3>1, HookBounds DEF FetchHistory, KnownInv, HookTypeOK
      <4> QED
        BY <2>4, <3>1, <4>1 DEF FetchHistory, HookTypeOK
    <3>2. CASE u # t
      BY <2>1, <2>4, <3>2 DEF FetchHistory, HookTypeOK
    <3> QED
      BY <3>1, <3>2
  <2>5. ASSUME NEW u \in Syncs, StoreHistory(u)
        PROVE  Goal'
    <3>1. target[u] \in Parcels /\ got[u] \in Nat /\ got[t] \in Nat
          /\ \A p \in Parcels : fetched[p] \in Nat
      BY <2>5, HookBounds DEF StoreHistory, KnownInv, HookTypeOK
    <3>2. /\ \A p \in Parcels : fetched'[p] \in Nat /\ fetched[p] <= fetched'[p]
          /\ got[u] <= fetched'[target[u]]
      BY <2>5, <3>1 DEF StoreHistory, HookTypeOK
    <3>3. UNCHANGED <<target, got>>
      BY <2>5 DEF StoreHistory
    <3>4. CASE u = t
      BY <2>5, <3>2, <3>3, <3>4 DEF StoreHistory, HookTypeOK
    <3>5. CASE u # t
      <4>1. run'[t] = run[t]
        BY <2>5, <3>5 DEF StoreHistory, HookTypeOK
      <4> QED
        BY <2>1, <3>1, <3>2, <3>3, <4>1
    <3> QED
      BY <3>4, <3>5
  <2>6. ASSUME NEW u \in Syncs, Release(u), UNCHANGED fetched
        PROVE  Goal'
    <3>1. CASE u = t
      BY <2>6, <3>1 DEF Release, HookTypeOK
    <3>2. CASE u # t
      BY <2>1, <2>6, <3>2 DEF Release, HookTypeOK
    <3> QED
      BY <3>1, <3>2
  <2>7. \A p \in Parcels : fetched[p] <= fetched[p]
    BY HookBounds DEF HookTypeOK
  <2>8. \/ UNCHANGED <<run, target, got, fetched>>
        \/ \E u \in Syncs : \/ \E p \in Parcels : TakeJob(u, p)
                           \/ FetchHistory(u) \/ StoreHistory(u)
                           \/ CompleteJob(u) \/ PutBack(u) \/ GiveUp(u)
    BY DEF HookNext, hookVars, job, Change, Receive, AnswerDuplicate, Gate, Enqueue,
       Settle, DieHandler, Recover
  <2>9. ASSUME NEW u \in Syncs, CompleteJob(u) \/ PutBack(u) \/ GiveUp(u)
        PROVE  Release(u) /\ UNCHANGED fetched
    BY <2>9 DEF CompleteJob, PutBack, GiveUp, End
  <2>10. Goal'
    <3> HIDE DEF Goal
    <3> QED
      BY <2>2, <2>3, <2>4, <2>5, <2>6, <2>7, <2>8, <2>9
  <2> QED
    BY <2>10
<1> QED
  BY <1>1, <1>2, <1>3, <1>4, <1>5, <1>6 DEF KnownInv

\* Every step keeps the events that are recorded, and those that were answered,
\* taken care of.
LEMMA CareStep ==
  ASSUME HookTypeOK, HookTypeOK', KnownInv, RecordedInv, NotifiedIsFetched,
         [HookNext]_hookVars
  PROVE  RecordedInv' /\ NotifiedIsFetched'
<1> DEFINE Care(p, v) == Covered(p, v) \/ UnderWay(p, v) \/ Excepted(p, v)
<1>1. ASSUME NEW p \in Parcels, NEW v \in 1..MaxChanges, stamped', <<p, v>> \in recorded'
      PROVE  Care(p, v)'
  <2>1. stamped
    BY <1>1, HookGrows
  <2>2. CASE <<p, v>> \in recorded
    <3>1. Care(p, v) /\ v <= version[p]
      BY <2>1, <2>2 DEF RecordedInv, KnownInv
    <3> QED
      BY <3>1, CareStays
  <2>3. CASE <<p, v>> \notin recorded
    <3>1. \E h \in Handlers, q \in Parcels, u \in 1..MaxChanges : Receive(h, q, u)
      BY <1>1, <2>3 DEF HookNext, hookVars, request, job, Change, AnswerDuplicate, Gate,
         Enqueue, Settle, DieHandler, TakeJob, FetchHistory, StoreHistory, CompleteJob,
         Recover, PutBack, GiveUp
    <3>2. PICK h \in Handlers, q \in Parcels, u \in 1..MaxChanges : Receive(h, q, u)
      BY <3>1
    <3>3. <<p, v>> = <<q, u>>
      BY <1>1, <2>1, <2>3, <3>2 DEF Receive, EventId
    <3>4. about'[h] = p /\ news'[h] = v /\ hook'[h] = "gate"
      BY <3>2, <3>3 DEF Receive, HookTypeOK
    <3> QED
      BY <3>4 DEF UnderWay
  <2> QED
    BY <2>2, <2>3
<1>2. ASSUME NEW p \in Parcels, NEW v \in 1..MaxChanges, <<p, v>> \in answered'
      PROVE  Care(p, v)'
  <2>1. CASE <<p, v>> \in answered
    <3>1. Care(p, v) /\ v <= version[p]
      BY <2>1 DEF NotifiedIsFetched, KnownInv
    <3> QED
      BY <3>1, CareStays
  <2>2. CASE <<p, v>> \notin answered
    <3>1. \/ \E h \in Handlers, q \in Parcels, u \in 1..MaxChanges : AnswerDuplicate(h, q, u)
          \/ \E h \in Handlers : Settle(h)
      BY <1>2, <2>2 DEF HookNext, hookVars, request, job, Change, Receive, Gate, Enqueue,
         DieHandler, TakeJob, FetchHistory, StoreHistory, CompleteJob, Recover, PutBack, GiveUp
    <3>2. ASSUME NEW h \in Handlers, NEW q \in Parcels, NEW u \in 1..MaxChanges,
                 AnswerDuplicate(h, q, u)
          PROVE  Care(p, v)'
      <4>1. q = p /\ u = v /\ v <= version[p] /\ EventId(p, v) \in recorded
        BY <1>2, <2>2, <3>2 DEF AnswerDuplicate
      <4>2. CASE stamped
        <5>1. Care(p, v)
          BY <4>1, <4>2 DEF RecordedInv, EventId
        <5> QED
          BY <4>1, <5>1, CareStays
      <4>3. CASE ~stamped
        BY <3>2, <4>1, <4>3, MarkExcepts, HookBounds DEF AnswerDuplicate, HookMark
      <4> QED
        BY <4>2, <4>3
    <3>3. ASSUME NEW h \in Handlers, Settle(h)
          PROVE  Care(p, v)'
      <4>1. p = about[h] /\ v = news[h] /\ hook[h] = "settle"
        BY <1>2, <2>2, <3>3 DEF Settle, Respond
      <4>2. Care(p, v) /\ v <= version[p]
        BY <4>1 DEF KnownInv
      <4> QED
        BY <4>2, CareStays
    <3> QED
      BY <3>1, <3>2, <3>3
  <2> QED
    BY <2>1, <2>2
<1> QED
  BY <1>1, <1>2 DEF RecordedInv, NotifiedIsFetched

-----------------------------------------------------------------------------
(* The theorems.                                                           *)

LEMMA HookInitially == HookInit => HookInv
<1> SUFFICES ASSUME HookInit PROVE HookInv
  OBVIOUS
<1>1. HookTypeOK
  BY HookBounds DEF HookInit, HookTypeOK, HookMark
<1>2. KnownInv /\ RecordedInv /\ NotifiedIsFetched
  BY DEF HookInit, KnownInv, RecordedInv, NotifiedIsFetched
<1> QED
  BY <1>1, <1>2 DEF HookInv

LEMMA HookInductive == HookInv /\ [HookNext]_hookVars => HookInv'
BY HookTypeStep, KnownStep, CareStep DEF HookInv

\* The inductive invariant holds in every reachable state.
THEOREM HookInvariance == HookSpec => []HookInv
BY HookInitially, HookInductive, PTL DEF HookSpec

\* Every variable of the requests, the queue and the syncs keeps its type.
THEOREM HookTypeCorrect == HookSpec => []HookTypeOK
<1>1. HookInv => HookTypeOK
  BY DEF HookInv
<1> QED
  BY <1>1, HookInvariance, PTL

\* A change whose announcement was answered is stored or will be fetched, but
\* for the parcels marked.
THEOREM NotificationsAreFetched == HookSpec => []NotifiedIsFetched
<1>1. HookInv => NotifiedIsFetched
  BY DEF HookInv
<1> QED
  BY <1>1, HookInvariance, PTL
=============================================================================
