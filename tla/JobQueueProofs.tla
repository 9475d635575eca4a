--------------------------- MODULE JobQueueProofs ---------------------------
(***************************************************************************)
(* Proofs about JobQueue, for every set of jobs and of workers and every   *)
(* value of the limits: the type invariant, the safety invariants, the     *)
(* condition under which a settled row is reopened, and that the queue     *)
(* implements AtLeastOnceQueue.                                            *)
(***************************************************************************)
EXTENDS JobQueue, TLAPS

\* Smaller is the minimum of two numbers.
LEMMA SmallerIsMin ==
  ASSUME NEW a \in Nat, NEW b \in Nat
  PROVE  /\ Smaller(a, b) \in Nat
         /\ Smaller(a, b) <= a /\ Smaller(a, b) <= b
  BY DEF Smaller

-----------------------------------------------------------------------------
(* Type correctness.                                                       *)

LEMMA TypeInit == Init => TypeOK
  BY NumbersAssumption, NoJobAssumption
  DEF Init, TypeOK, NoAttempts, Status, Phase

\* A worker that runs or settles a job has one.
LEMMA CurrentIsJob ==
  ASSUME TypeOK, MemoryInv, NEW w \in Workers,
         phase[w] \in {"running"} \union Settling
  PROVE  cur[w] \in Jobs /\ cur[w] # NoJob
  BY NoJobAssumption DEF TypeOK, MemoryInv

\* Going on to the next job keeps the memory and the history well typed.
LEMMA NextJobType ==
  ASSUME TypeOK, NEW w \in Workers, cur[w] \in Jobs, NextJob(w)
  PROVE  /\ phase' \in [Workers -> Phase]
         /\ todo' \in [Workers -> SUBSET Jobs]
         /\ seen' \in [Workers -> [Jobs -> Nat]]
         /\ batch' \in [Workers -> SUBSET Jobs]
         /\ held' \in [Workers -> [Jobs -> Nat]]
         /\ cur' \in [Workers -> Jobs \union {NoJob}]
         /\ claims' \in [Jobs -> Nat]
         /\ recoveries' \in [Jobs -> Nat]
         /\ token' \in [Workers -> [Jobs -> Nat]]
         /\ executed' \in [Jobs -> SUBSET Nat]
         /\ rejected' \in SUBSET Jobs
  BY DEF TypeOK, NextJob, Phase

\* No step of the queue takes a variable out of its type.
LEMMA TypeStep == TypeOK /\ MemoryInv /\ [Next]_vars => TypeOK'
<1> SUFFICES ASSUME TypeOK, MemoryInv, [Next]_vars
             PROVE  TypeOK'
  OBVIOUS
<1> USE DEF tableVars, memoryVars, historyVars
<1>1. ASSUME NEW j \in Jobs, Enqueue(j)
      PROVE  TypeOK'
  BY <1>1 DEF TypeOK, Enqueue, Status
<1>2. ASSUME NEW w \in Workers, SelectStuck(w)
      PROVE  TypeOK'
  BY <1>2 DEF TypeOK, SelectStuck, Stuck, Snapshot, Phase
<1>3. ASSUME NEW w \in Workers, NEW j \in Jobs, RecoverRow(w, j)
      PROVE  TypeOK'
  <2>1. CASE RecoverHit(w, j)
    BY <1>3, <2>1, NumbersAssumption DEF TypeOK, RecoverRow, RecoverHit, Status
  <2>2. CASE RecoverMiss(j)
    BY <1>3, <2>2 DEF TypeOK, RecoverRow, RecoverMiss
  <2> QED  BY <1>3, <2>1, <2>2 DEF RecoverRow
<1>4. ASSUME NEW w \in Workers, SelectReady(w)
      PROVE  TypeOK'
  BY <1>4 DEF TypeOK, SelectReady, Ready, Snapshot, Phase
<1>5. ASSUME NEW w \in Workers, NEW j \in Jobs, ClaimRow(w, j)
      PROVE  TypeOK'
  <2>1. CASE ClaimHit(w, j)
    BY <1>5, <2>1, NumbersAssumption DEF TypeOK, ClaimRow, ClaimHit, Status
  <2>2. CASE ClaimMiss(j)
    BY <1>5, <2>2 DEF TypeOK, ClaimRow, ClaimMiss
  <2> QED  BY <1>5, <2>1, <2>2 DEF ClaimRow
<1>6. ASSUME NEW w \in Workers, EndClaim(w)
      PROVE  TypeOK'
  BY <1>6 DEF TypeOK, EndClaim, NoAttempts, Phase
<1>7. ASSUME NEW w \in Workers, NEW j \in Jobs, Start(w, j)
      PROVE  TypeOK'
  BY <1>7 DEF TypeOK, Start, Phase
<1>8. ASSUME NEW w \in Workers, Succeed(w) \/ Throw(w) \/ Refuse(w)
      PROVE  TypeOK'
  <2>1. cur[w] \in Jobs
    BY <1>8, CurrentIsJob DEF Succeed, Throw, Refuse
  <2>2. CASE Succeed(w)
    <3>1. token[w][cur[w]] \in Nat
      BY <2>1 DEF TypeOK
    <3> QED  BY <2>1, <2>2, <3>1 DEF TypeOK, Succeed, Phase
  <2>3. CASE Throw(w)
    BY <2>3 DEF TypeOK, Throw, Phase
  <2>4. CASE Refuse(w)
    BY <2>1, <2>4 DEF TypeOK, Refuse, Phase
  <2> QED  BY <1>8, <2>2, <2>3, <2>4
<1>9. ASSUME NEW w \in Workers, Complete(w)
      PROVE  TypeOK'
  <2>1. cur[w] \in Jobs
    BY <1>9, CurrentIsJob DEF Complete, Settling
  <2> QED
    BY <1>9, <2>1, NextJobType, NumbersAssumption DEF TypeOK, Complete, Status
<1>10. ASSUME NEW w \in Workers, Fail(w)
       PROVE  TypeOK'
  <2>1. cur[w] \in Jobs
    BY <1>10, CurrentIsJob DEF Fail, Settling
  <2>2. Backoff(held[w][cur[w]]) \in 0..RetryDelayMax
    <3> DEFINE d == RetryDelayBase * held[w][cur[w]]
    <3>1. d \in Nat
      BY <2>1, NumbersAssumption DEF TypeOK
    <3>2. Backoff(held[w][cur[w]]) = Smaller(RetryDelayMax, d)
      BY DEF Backoff
    <3> HIDE DEF d
    <3> QED  BY <3>1, <3>2, NumbersAssumption DEF Smaller
  <2>3. delay' \in [Jobs -> 0..RetryDelayMax]
    <3> DEFINE d == IF ShouldRetry(w) THEN Backoff(held[w][cur[w]]) ELSE 0
    <3>1. d \in 0..RetryDelayMax
      BY <2>2, NumbersAssumption
    <3>2. delay' = [delay EXCEPT ![cur[w]] = d]
      BY <1>10 DEF Fail
    <3> HIDE DEF d
    <3> QED  BY <3>1, <3>2 DEF TypeOK
  <2> QED  BY <1>10, <2>1, <2>3, NextJobType, NumbersAssumption
           DEF TypeOK, Fail, Status
<1>11. ASSUME NEW w \in Workers, EndTick(w)
       PROVE  TypeOK'
  BY <1>11 DEF TypeOK, EndTick, Phase
<1>12. ASSUME NEW w \in Workers, Crash(w)
       PROVE  TypeOK'
  BY <1>12, NumbersAssumption DEF TypeOK, Crash, NoAttempts, Phase
<1>13. ASSUME NEW w \in Workers, LoseWrite(w)
       PROVE  TypeOK'
  <2>1. cur[w] \in Jobs
    BY <1>13, CurrentIsJob DEF LoseWrite
  <2> QED
    BY <1>13, <2>1, NextJobType, NumbersAssumption DEF TypeOK, LoseWrite
<1>14. ASSUME NEW w \in Workers, LoseCall(w)
       PROVE  TypeOK'
  <2>1. todo' \in [Workers -> SUBSET Jobs]
    BY <1>14 DEF TypeOK, LoseCall
  <2>2. phase' \in [Workers -> Phase]
    BY <1>14 DEF TypeOK, LoseCall, Phase
  <2>3. faults' \in 0..MaxFaults
    BY <1>14, NumbersAssumption DEF TypeOK, LoseCall
  <2> QED  BY <1>14, <2>1, <2>2, <2>3 DEF TypeOK, LoseCall
<1>15. CASE Elapse
  <2>1. \A j \in Jobs : Older(j) \in 0..StuckTimeout + 1
    BY NumbersAssumption DEF TypeOK, Older
  <2>2. \A j \in Jobs : Nearer(j) \in 0..RetryDelayMax
    BY NumbersAssumption DEF TypeOK, Nearer
  <2> QED  BY <1>15, <2>1, <2>2 DEF TypeOK, Elapse
<1>16. CASE UNCHANGED vars
  BY <1>16 DEF TypeOK, vars
<1> QED
  BY <1>1, <1>2, <1>3, <1>4, <1>5, <1>6, <1>7, <1>8, <1>9, <1>10, <1>11,
     <1>12, <1>13, <1>14, <1>15, <1>16 DEF Next, Work

\* What a worker keeps in memory fits its phase.
LEMMA MemoryStep == TypeOK /\ MemoryInv /\ [Next]_vars => MemoryInv'
<1> SUFFICES ASSUME TypeOK, MemoryInv, [Next]_vars
             PROVE  MemoryInv'
  OBVIOUS
<1> USE NoJobAssumption
    DEF tableVars, memoryVars, historyVars, TypeOK, MemoryInv, Settling, Phase
<1>1. ASSUME NEW j \in Jobs, Enqueue(j)
      PROVE  MemoryInv'
  BY <1>1 DEF Enqueue
<1>2. ASSUME NEW w \in Workers, SelectStuck(w)
      PROVE  MemoryInv'
  BY <1>2 DEF SelectStuck
<1>3. ASSUME NEW w \in Workers, NEW j \in Jobs, RecoverRow(w, j)
      PROVE  MemoryInv'
  BY <1>3 DEF RecoverRow
<1>4. ASSUME NEW w \in Workers, SelectReady(w)
      PROVE  MemoryInv'
  BY <1>4 DEF SelectReady
<1>5. ASSUME NEW w \in Workers, NEW j \in Jobs, ClaimRow(w, j)
      PROVE  MemoryInv'
  <2>1. CASE ClaimHit(w, j)
    BY <1>5, <2>1 DEF ClaimRow, ClaimHit, First
  <2>2. CASE ClaimMiss(j)
    BY <1>5, <2>2 DEF ClaimRow, ClaimMiss
  <2> QED  BY <1>5, <2>1, <2>2 DEF ClaimRow
<1>6. ASSUME NEW w \in Workers, EndClaim(w)
      PROVE  MemoryInv'
  BY <1>6 DEF EndClaim
<1>7. ASSUME NEW w \in Workers, NEW j \in Jobs, Start(w, j)
      PROVE  MemoryInv'
  BY <1>7 DEF Start
<1>8. ASSUME NEW w \in Workers, Succeed(w) \/ Throw(w) \/ Refuse(w)
      PROVE  MemoryInv'
  <2>1. CASE Succeed(w)  BY <2>1 DEF Succeed
  <2>2. CASE Throw(w)  BY <2>2 DEF Throw
  <2>3. CASE Refuse(w)  BY <2>3 DEF Refuse
  <2> QED  BY <1>8, <2>1, <2>2, <2>3
<1>9. ASSUME NEW w \in Workers, Complete(w) \/ Fail(w) \/ LoseWrite(w)
      PROVE  MemoryInv'
  <2>1. NextJob(w) /\ phase[w] \in Settling
    BY <1>9 DEF Complete, Fail, LoseWrite
  <2> QED  BY <2>1 DEF NextJob
<1>10. ASSUME NEW w \in Workers, EndTick(w) \/ Crash(w) \/ LoseCall(w)
       PROVE  MemoryInv'
  <2>1. CASE EndTick(w)  BY <2>1 DEF EndTick
  <2>2. CASE Crash(w)  BY <2>2 DEF Crash
  <2>3. CASE LoseCall(w)  BY <2>3 DEF LoseCall
  <2> QED  BY <1>10, <2>1, <2>2, <2>3
<1>11. CASE Elapse
  BY <1>11 DEF Elapse
<1>12. CASE UNCHANGED vars
  BY <1>12 DEF vars
<1> QED
  BY <1>1, <1>2, <1>3, <1>4, <1>5, <1>6, <1>7, <1>8, <1>9, <1>10, <1>11, <1>12
  DEF Next, Work

-----------------------------------------------------------------------------
(* Counting attempts, claims and recoveries.                               *)

\* Nothing that a worker has read, kept or written overstates the attempts of
\* a row, and each claim is charged at most one recovery.
LEMMA CountStep ==
  ASSUME TypeOK, CountInv, OneRecoveryPerClaim, AttemptsNotOverstated,
         [Next]_vars
  PROVE  CountInv' /\ OneRecoveryPerClaim' /\ AttemptsNotOverstated'
<1> USE DEF tableVars, memoryVars, historyVars, TypeOK,
            CountInv, OneRecoveryPerClaim, AttemptsNotOverstated
<1> DEFINE Goal == CountInv /\ OneRecoveryPerClaim /\ AttemptsNotOverstated
<1>1. ASSUME NEW j \in Jobs, Enqueue(j)
      PROVE  Goal'
  BY <1>1 DEF Enqueue
<1>2. ASSUME NEW w \in Workers, SelectStuck(w)
      PROVE  Goal'
  BY <1>2 DEF SelectStuck, Snapshot
<1>3. ASSUME NEW w \in Workers, NEW j \in Jobs, RecoverRow(w, j)
      PROVE  Goal'
  <2>1. CASE RecoverHit(w, j)
    BY <1>3, <2>1 DEF RecoverRow, RecoverHit
  <2>2. CASE RecoverMiss(j)
    BY <1>3, <2>2 DEF RecoverRow, RecoverMiss
  <2> QED  BY <1>3, <2>1, <2>2 DEF RecoverRow
<1>4. ASSUME NEW w \in Workers, SelectReady(w)
      PROVE  Goal'
  BY <1>4 DEF SelectReady, Snapshot
<1>5. ASSUME NEW w \in Workers, NEW j \in Jobs, ClaimRow(w, j)
      PROVE  Goal'
  <2>1. CASE ClaimHit(w, j)
    BY <1>5, <2>1 DEF ClaimRow, ClaimHit
  <2>2. CASE ClaimMiss(j)
    BY <1>5, <2>2 DEF ClaimRow, ClaimMiss
  <2> QED  BY <1>5, <2>1, <2>2 DEF ClaimRow
<1>6. ASSUME NEW w \in Workers, EndClaim(w)
      PROVE  Goal'
  BY <1>6 DEF EndClaim, NoAttempts
<1>7. ASSUME NEW w \in Workers, NEW j \in Jobs, Start(w, j)
      PROVE  Goal'
  BY <1>7 DEF Start
<1>8. ASSUME NEW w \in Workers, Succeed(w) \/ Throw(w) \/ Refuse(w) \/ EndTick(w)
                                    \/ LoseCall(w)
      PROVE  Goal'
  BY <1>8 DEF Succeed, Throw, Refuse, EndTick, LoseCall
<1>9. ASSUME NEW w \in Workers, Complete(w)
      PROVE  Goal'
  BY <1>9 DEF Complete, NextJob
<1>10. ASSUME NEW w \in Workers, Fail(w)
       PROVE  Goal'
  <2>1. \A j \in Jobs : status'[j] = "processing" => status[j] = "processing"
    BY <1>10 DEF Fail
  <2> QED  BY <1>10, <2>1 DEF Fail, NextJob
<1>11. ASSUME NEW w \in Workers, Crash(w)
       PROVE  Goal'
  BY <1>11 DEF Crash, NoAttempts
<1>12. ASSUME NEW w \in Workers, LoseWrite(w)
       PROVE  Goal'
  BY <1>12 DEF LoseWrite, NextJob
<1>13. CASE Elapse
  BY <1>13 DEF Elapse
<1>14. CASE UNCHANGED vars
  BY <1>14 DEF vars
<1> QED
  BY <1>1, <1>2, <1>3, <1>4, <1>5, <1>6, <1>7, <1>8, <1>9, <1>10, <1>11,
     <1>12, <1>13, <1>14 DEF Next, Work

\* A row is buried only when its attempts are spent or it was refused.
LEMMA BuriedStep ==
  ASSUME TypeOK, MemoryInv, CountInv, AttemptsNotOverstated,
         BuriedOnlyWhenSpent, [Next]_vars
  PROVE  BuriedOnlyWhenSpent'
<1>1. PICK m \in Nat : /\ m = Smaller(RetryLimit, StuckMaxAttempts + 1)
                       /\ m <= RetryLimit /\ m <= StuckMaxAttempts + 1
  BY NumbersAssumption, SmallerIsMin
<1> DEFINE B == \A j \in Jobs : status[j] = "failed"
                   => claims[j] + recoveries[j] >= m \/ j \in rejected
<1>2. B
  BY <1>1 DEF BuriedOnlyWhenSpent, Spent
<1>3. SUFFICES B'
  BY <1>1 DEF BuriedOnlyWhenSpent, Spent
<1> USE <1>2, NumbersAssumption DEF tableVars, memoryVars, historyVars, TypeOK
<1>4. ASSUME NEW j \in Jobs, Enqueue(j)
      PROVE  B'
  BY <1>4 DEF Enqueue
<1>5. ASSUME NEW w \in Workers, SelectStuck(w) \/ SelectReady(w) \/ EndClaim(w)
      PROVE  B'
  BY <1>5 DEF SelectStuck, SelectReady, EndClaim
<1>6. ASSUME NEW w \in Workers, NEW j \in Jobs, RecoverRow(w, j)
      PROVE  B'
  <2>1. CASE RecoverHit(w, j)
    \* The recovery charges the attempt that it finds too many.
    <3>1. seen[w][j] <= claims[j] + recoveries[j]
      BY DEF CountInv
    <3>2. status'[j] = "failed" => claims'[j] + recoveries'[j] >= m
      BY <1>1, <1>6, <2>1, <3>1 DEF RecoverRow, RecoverHit
    <3> QED  BY <1>6, <2>1, <3>2 DEF RecoverRow, RecoverHit
  <2>2. CASE RecoverMiss(j)
    BY <1>6, <2>2 DEF RecoverRow, RecoverMiss
  <2> QED  BY <1>6, <2>1, <2>2 DEF RecoverRow
<1>7. ASSUME NEW w \in Workers, NEW j \in Jobs, ClaimRow(w, j)
      PROVE  B'
  <2>1. CASE ClaimHit(w, j)
    BY <1>7, <2>1 DEF ClaimRow, ClaimHit
  <2>2. CASE ClaimMiss(j)
    BY <1>7, <2>2 DEF ClaimRow, ClaimMiss
  <2> QED  BY <1>7, <2>1, <2>2 DEF ClaimRow
<1>8. ASSUME NEW w \in Workers, NEW j \in Jobs, Start(w, j)
      PROVE  B'
  BY <1>8 DEF Start
<1>9. ASSUME NEW w \in Workers, Succeed(w) \/ Throw(w) \/ Refuse(w) \/ EndTick(w)
                                    \/ LoseCall(w)
      PROVE  B'
  BY <1>9 DEF Succeed, Throw, Refuse, EndTick, LoseCall
<1>10. ASSUME NEW w \in Workers, Complete(w) \/ LoseWrite(w) \/ Crash(w)
       PROVE  B'
  BY <1>10 DEF Complete, LoseWrite, NextJob, Crash
<1>11. ASSUME NEW w \in Workers, Fail(w)
       PROVE  B'
  <2>1. cur[w] \in Jobs
    BY <1>11, CurrentIsJob DEF Fail, Settling
  <2>2. held[w][cur[w]] <= claims[cur[w]] + recoveries[cur[w]]
    BY <2>1 DEF CountInv
  <2>3. CASE ShouldRetry(w)
    BY <1>11, <2>3 DEF Fail, NextJob
  <2>4. CASE ~ShouldRetry(w)
    \* Either the provider refused, or the attempts kept have reached the limit.
    <3>1. CASE phase[w] = "refused"
      <4>1. cur[w] \in rejected
        BY <3>1 DEF MemoryInv
      <4> QED  BY <1>11, <4>1 DEF Fail, NextJob
    <3>2. CASE phase[w] # "refused"
      <4>1. held[w][cur[w]] >= RetryLimit
        BY <2>1, <2>4, <3>2 DEF ShouldRetry
      <4>2. claims[cur[w]] + recoveries[cur[w]] >= m
        BY <1>1, <2>1, <2>2, <4>1
      <4> QED  BY <1>11, <4>2 DEF Fail, NextJob
    <3> QED  BY <3>1, <3>2
  <2> QED  BY <2>3, <2>4
<1>12. CASE Elapse
  BY <1>12 DEF Elapse
<1>13. CASE UNCHANGED vars
  BY <1>13 DEF vars
<1> QED
  BY <1>4, <1>5, <1>6, <1>7, <1>8, <1>9, <1>10, <1>11, <1>12, <1>13
  DEF Next, Work

-----------------------------------------------------------------------------
(* Owning a row.                                                           *)

\* As long as no recovery has rewritten a row, its holder is alone.
LEMMA OwnerStep ==
  ASSUME TypeOK, MemoryInv, SoleOwner, [Next]_vars
  PROVE  SoleOwner'
<1> USE NoJobAssumption
    DEF tableVars, memoryVars, historyVars, TypeOK, SoleOwner, Mine
<1>1. ASSUME NEW j \in Jobs, Enqueue(j)
      PROVE  SoleOwner'
  BY <1>1 DEF Enqueue
<1>2. ASSUME NEW w \in Workers, SelectStuck(w) \/ SelectReady(w) \/ EndClaim(w)
      PROVE  SoleOwner'
  BY <1>2 DEF SelectStuck, SelectReady, EndClaim
<1>3. ASSUME NEW w \in Workers, NEW j \in Jobs, RecoverRow(w, j)
      PROVE  SoleOwner'
  <2>1. CASE RecoverHit(w, j)
    BY <1>3, <2>1 DEF RecoverRow, RecoverHit
  <2>2. CASE RecoverMiss(j)
    BY <1>3, <2>2 DEF RecoverRow, RecoverMiss
  <2> QED  BY <1>3, <2>1, <2>2 DEF RecoverRow
<1>4. ASSUME NEW w \in Workers, NEW j \in Jobs, ClaimRow(w, j)
      PROVE  SoleOwner'
  <2>1. CASE ClaimHit(w, j)
    BY <1>4, <2>1 DEF ClaimRow, ClaimHit
  <2>2. CASE ClaimMiss(j)
    BY <1>4, <2>2 DEF ClaimRow, ClaimMiss
  <2> QED  BY <1>4, <2>1, <2>2 DEF ClaimRow
<1>5. ASSUME NEW w \in Workers, NEW j \in Jobs, Start(w, j)
      PROVE  SoleOwner'
  BY <1>5 DEF Start, MemoryInv, Settling, First
<1>6. ASSUME NEW w \in Workers, Succeed(w) \/ Throw(w) \/ Refuse(w) \/ EndTick(w)
                                    \/ LoseCall(w)
      PROVE  SoleOwner'
  BY <1>6 DEF Succeed, Throw, Refuse, EndTick, LoseCall
<1>7. ASSUME NEW w \in Workers, Complete(w) \/ Fail(w) \/ LoseWrite(w)
      PROVE  SoleOwner'
  <2>1. cur[w] \in Jobs /\ cur[w] # NoJob /\ cur[w] \notin batch[w]
    BY <1>7, CurrentIsJob DEF Complete, Fail, LoseWrite, Settling, MemoryInv
  <2>2. \A j \in Jobs : j # cur[w] => status'[j] = status[j]
    BY <1>7 DEF Complete, Fail, LoseWrite
  <2>3. NextJob(w)
    BY <1>7 DEF Complete, Fail, LoseWrite
  <2> QED  BY <2>1, <2>2, <2>3 DEF NextJob
<1>8. ASSUME NEW w \in Workers, Crash(w)
      PROVE  SoleOwner'
  BY <1>8 DEF Crash
<1>9. CASE Elapse
  BY <1>9 DEF Elapse
<1>10. CASE UNCHANGED vars
  BY <1>10 DEF vars
<1> QED
  BY <1>1, <1>2, <1>3, <1>4, <1>5, <1>6, <1>7, <1>8, <1>9, <1>10
  DEF Next, Work

\* Each claim belongs to one worker and is executed at most once.
LEMMA TokenStep ==
  ASSUME TypeOK, MemoryInv, TokenInv, [Next]_vars
  PROVE  TokenInv'
<1> USE NoJobAssumption
    DEF tableVars, memoryVars, historyVars, TypeOK, TokenInv, Mine
<1>1. ASSUME NEW j \in Jobs, Enqueue(j)
      PROVE  TokenInv'
  BY <1>1 DEF Enqueue
<1>2. ASSUME NEW w \in Workers, SelectStuck(w) \/ SelectReady(w) \/ EndClaim(w)
      PROVE  TokenInv'
  BY <1>2 DEF SelectStuck, SelectReady, EndClaim
<1>3. ASSUME NEW w \in Workers, NEW j \in Jobs, RecoverRow(w, j)
      PROVE  TokenInv'
  BY <1>3 DEF RecoverRow
<1>4. ASSUME NEW w \in Workers, NEW j \in Jobs, ClaimRow(w, j)
      PROVE  TokenInv'
  <2>1. CASE ClaimHit(w, j)
    BY <1>4, <2>1 DEF ClaimRow, ClaimHit, MemoryInv, Settling, First
  <2>2. CASE ClaimMiss(j)
    BY <1>4, <2>2 DEF ClaimRow, ClaimMiss
  <2> QED  BY <1>4, <2>1, <2>2 DEF ClaimRow
<1>5. ASSUME NEW w \in Workers, NEW j \in Jobs, Start(w, j)
      PROVE  TokenInv'
  BY <1>5 DEF Start, MemoryInv, Settling, First
<1>6. ASSUME NEW w \in Workers, Succeed(w)
      PROVE  TokenInv'
  BY <1>6 DEF Succeed, MemoryInv, Settling
<1>7. ASSUME NEW w \in Workers, Throw(w) \/ Refuse(w) \/ EndTick(w)
                                    \/ LoseCall(w)
      PROVE  TokenInv'
  BY <1>7 DEF Throw, Refuse, EndTick, LoseCall
<1>8. ASSUME NEW w \in Workers, Complete(w) \/ Fail(w) \/ LoseWrite(w)
      PROVE  TokenInv'
  <2>1. cur[w] \in Jobs /\ cur[w] # NoJob /\ cur[w] \notin batch[w]
    BY <1>8, CurrentIsJob DEF Complete, Fail, LoseWrite, Settling, MemoryInv
  <2>2. NextJob(w)
    BY <1>8 DEF Complete, Fail, LoseWrite
  <2> QED  BY <2>1, <2>2 DEF NextJob
<1>9. ASSUME NEW w \in Workers, Crash(w)
      PROVE  TokenInv'
  BY <1>9 DEF Crash
<1>10. CASE Elapse
  BY <1>10 DEF Elapse
<1>11. CASE UNCHANGED vars
  BY <1>11 DEF vars
<1> QED
  BY <1>1, <1>2, <1>3, <1>4, <1>5, <1>6, <1>7, <1>8, <1>9, <1>10, <1>11
  DEF Next, Work

-----------------------------------------------------------------------------
(* The theorems.                                                           *)

LEMMA Initially == Init => IInv
<1> SUFFICES ASSUME Init PROVE IInv
  OBVIOUS
<1>1. TypeOK
  BY TypeInit
<1>2. \A w \in Workers : Mine(w) = {}
  BY DEF Init, Mine
<1>3. MemoryInv /\ TokenInv /\ SoleOwner
  BY <1>2 DEF Init, MemoryInv, TokenInv, SoleOwner, Settling
<1>4. CountInv /\ OneRecoveryPerClaim /\ AttemptsNotOverstated
  BY DEF Init, CountInv, OneRecoveryPerClaim, AttemptsNotOverstated, NoAttempts
<1>5. BuriedOnlyWhenSpent
  BY DEF Init, BuriedOnlyWhenSpent
<1> QED  BY <1>1, <1>3, <1>4, <1>5 DEF IInv

\* The inductive invariant: every conjunct is kept by every step.
THEOREM Invariance == Spec => []IInv
<1>1. IInv /\ [Next]_vars => IInv'
  BY TypeStep, MemoryStep, CountStep, TokenStep, OwnerStep, BuriedStep DEF IInv
<1> QED  BY Initially, <1>1, PTL DEF Spec

\* Type correctness of the table and of the workers' memory.
THEOREM TypeCorrect == Spec => []TypeOK
<1>1. IInv => TypeOK
  BY DEF IInv
<1> QED  BY Invariance, <1>1, PTL

\* A row that no recovery has rewritten is held by one worker at most, and is
\* then in processing: the guarded UPDATE of claimBackgroundJobsByPriority.
THEOREM ClaimsAreExclusive == Spec => []SoleOwner
<1>1. IInv => SoleOwner
  BY DEF IInv
<1> QED  BY Invariance, <1>1, PTL

\* Overlapping ticks never charge a claim with two recoveries: the guarded
\* UPDATE of recoverStuckJobs.
THEOREM RecoveriesAreCharged == Spec => []OneRecoveryPerClaim
<1>1. IInv => OneRecoveryPerClaim
  BY DEF IInv
<1> QED  BY Invariance, <1>1, PTL

\* The column attempts never overstates what happened to the row.
THEOREM AttemptsAreHonest == Spec => []AttemptsNotOverstated
<1>1. IInv => AttemptsNotOverstated
  BY DEF IInv
<1> QED  BY Invariance, <1>1, PTL

\* No job is given up before its attempts are spent, except on a refusal.
THEOREM BurialIsEarned == Spec => []BuriedOnlyWhenSpent
<1>1. IInv => BuriedOnlyWhenSpent
  BY DEF IInv
<1> QED  BY Invariance, <1>1, PTL

\* A completed or failed row changes only if a recovery took it from a worker
\* before: the unguarded UPDATEs of completeBackgroundJob and
\* failBackgroundJob do no harm until then.
THEOREM ReopeningNeedsRecovery == Spec => ReopenedOnlyAfterRecovery
<1> DEFINE A == \A j \in Jobs : status[j] \in Settled /\ status'[j] # status[j]
                                   => recoveries[j] > 0
<1>1. IInv /\ [Next]_vars => [A]_vars
  <2> SUFFICES ASSUME IInv, Next,
                      NEW j \in Jobs, status[j] \in Settled,
                      status'[j] # status[j], recoveries[j] = 0
               PROVE  FALSE
    BY DEF IInv, TypeOK
  <2> USE DEF IInv, TypeOK, Settled, tableVars, memoryVars, historyVars
  <2>1. \A w \in Workers : j \notin Mine(w)
    BY DEF SoleOwner
  <2>2. ASSUME NEW w \in Workers, Complete(w) \/ Fail(w)
        PROVE  FALSE
    <3>1. cur[w] \in Jobs /\ cur[w] # NoJob
      BY <2>2, CurrentIsJob DEF Complete, Fail, Settling
    <3>2. cur[w] # j
      BY <2>1, <3>1 DEF Mine
    <3> QED  BY <2>2, <3>2 DEF Complete, Fail
  <2>3. ASSUME NEW w \in Workers, NEW k \in Jobs, RecoverRow(w, k) \/ ClaimRow(w, k)
        PROVE  FALSE
    BY <2>3 DEF RecoverRow, RecoverHit, RecoverMiss, ClaimRow, ClaimHit, ClaimMiss
  <2>4. ASSUME NEW k \in Jobs, Enqueue(k)
        PROVE  FALSE
    BY <2>4 DEF Enqueue
  <2>5. CASE UNCHANGED status
    BY <2>5
  <2> QED
    BY <2>2, <2>3, <2>4, <2>5
    DEF Next, Work, SelectStuck, SelectReady, EndClaim, EndTick, Succeed,
        Throw, Refuse, Start, Crash, LoseWrite, LoseCall, Elapse
<1> QED  BY Invariance, <1>1, PTL DEF Spec, ReopenedOnlyAfterRecovery

-----------------------------------------------------------------------------
(* The queue implements AtLeastOnceQueue.                                  *)

\* What the abstract step does to the mapped state when one row gets status x.
LEMMA MappedStatus ==
  ASSUME TypeOK, NEW j \in Jobs, NEW x \in Status,
         status' = [status EXCEPT ![j] = x], NEW y,
         y = CASE x = "absent"     -> "absent"
               [] x = "pending"    -> "queued"
               [] x = "processing" -> "leased"
               [] x = "completed"  -> "done"
               [] x = "failed"     -> "dead"
  PROVE  [k \in Jobs |-> AbstractState(k)'] =
         [[k \in Jobs |-> AbstractState(k)] EXCEPT ![j] = y]
  BY DEF TypeOK, Status, AbstractState

\* A step that leaves the status, the claims and the executions alone.
LEMMA MappedStutter ==
  ASSUME UNCHANGED <<status, claims, executed>>
  PROVE  UNCHANGED Promise!vars
  BY DEF Promise!vars, AbstractState

\* Each step of the queue is a step of the abstract queue or changes nothing
\* that it sees.
LEMMA StepSimulation == IInv /\ IInv' /\ [Next]_vars => [Promise!Next]_(Promise!vars)
<1> SUFFICES ASSUME IInv, IInv', [Next]_vars
             PROVE  [Promise!Next]_(Promise!vars)
  OBVIOUS
<1> USE DEF tableVars, memoryVars, historyVars
<1>0. TypeOK /\ MemoryInv /\ CountInv /\ TokenInv
  BY DEF IInv
<1>1. ASSUME NEW j \in Jobs, Enqueue(j)
      PROVE  Promise!Submit(j)
  <2>1. [k \in Jobs |-> AbstractState(k)'] =
        [[k \in Jobs |-> AbstractState(k)] EXCEPT ![j] = "queued"]
    BY <1>0, <1>1, MappedStatus DEF Enqueue, Status
  <2>2. AbstractState(j) = "absent"
    BY <1>1 DEF Enqueue, AbstractState
  <2> QED  BY <1>1, <2>1, <2>2 DEF Enqueue, Promise!Submit
<1>2. ASSUME NEW w \in Workers, NEW j \in Jobs, RecoverRow(w, j)
      PROVE  [Promise!Next]_(Promise!vars)
  <2>1. CASE RecoverMiss(j)
    BY <1>2, <2>1, MappedStutter DEF RecoverRow, RecoverMiss
  <2>2. CASE RecoverHit(w, j)
    <3>1. claims[j] > 0
      BY <1>0, <2>2 DEF RecoverHit, CountInv, TypeOK
    <3>2. CASE status' = [status EXCEPT ![j] = "pending"]
      <4>1. [k \in Jobs |-> AbstractState(k)'] =
            [[k \in Jobs |-> AbstractState(k)] EXCEPT ![j] = "queued"]
        BY <1>0, <3>2, MappedStatus DEF Status
      <4>2. Promise!Requeue(j)
        BY <1>2, <3>1, <4>1 DEF RecoverRow, Promise!Requeue
      <4> QED  BY <4>2 DEF Promise!Next
    <3>3. CASE status' = [status EXCEPT ![j] = "failed"]
      <4>1. [k \in Jobs |-> AbstractState(k)'] =
            [[k \in Jobs |-> AbstractState(k)] EXCEPT ![j] = "dead"]
        BY <1>0, <3>3, MappedStatus DEF Status
      <4>2. Promise!Bury(j)
        BY <1>2, <3>1, <4>1 DEF RecoverRow, Promise!Bury
      <4> QED  BY <4>2 DEF Promise!Next
    <3> QED  BY <2>2, <3>2, <3>3 DEF RecoverHit
  <2> QED  BY <1>2, <2>1, <2>2 DEF RecoverRow
<1>3. ASSUME NEW w \in Workers, NEW j \in Jobs, ClaimRow(w, j)
      PROVE  [Promise!Next]_(Promise!vars)
  <2>1. CASE ClaimMiss(j)
    BY <1>3, <2>1, MappedStutter DEF ClaimRow, ClaimMiss
  <2>2. CASE ClaimHit(w, j)
    <3>1. [k \in Jobs |-> AbstractState(k)'] =
          [[k \in Jobs |-> AbstractState(k)] EXCEPT ![j] = "leased"]
      BY <1>0, <2>2, MappedStatus DEF ClaimHit, Status
    <3>2. AbstractState(j) = "queued"
      BY <2>2 DEF ClaimHit, AbstractState
    <3>3. Promise!Lease(j)
      BY <1>3, <2>2, <3>1, <3>2 DEF ClaimRow, ClaimHit, Promise!Lease
    <3> QED  BY <3>3 DEF Promise!Next
  <2> QED  BY <1>3, <2>1, <2>2 DEF ClaimRow
<1>4. ASSUME NEW w \in Workers, Succeed(w)
      PROVE  [Promise!Next]_(Promise!vars)
  <2>1. cur[w] \in Jobs /\ cur[w] # NoJob
    BY <1>0, <1>4, CurrentIsJob DEF Succeed
  <2>2. token[w][cur[w]] \in 1..claims[cur[w]] \ executed[cur[w]]
    BY <1>0, <1>4, <2>1 DEF Succeed, TokenInv, Mine
  <2>3. \E t \in 1..claims[cur[w]] \ executed[cur[w]] :
           executed' = [executed EXCEPT ![cur[w]] = @ \union {t}]
    BY <1>4, <2>2 DEF Succeed
  <2>4. UNCHANGED <<[k \in Jobs |-> AbstractState(k)], claims>>
    BY <1>4 DEF Succeed, AbstractState
  <2>5. Promise!Execute(cur[w])
    BY <2>3, <2>4 DEF Promise!Execute
  <2> QED  BY <2>1, <2>5 DEF Promise!Next
<1>5. ASSUME NEW w \in Workers, Complete(w)
      PROVE  [Promise!Next]_(Promise!vars)
  <2>1. cur[w] \in Jobs /\ cur[w] # NoJob
    BY <1>0, <1>5, CurrentIsJob DEF Complete, Settling
  <2>2. executed[cur[w]] # {}
    BY <1>0, <1>5, <2>1 DEF Complete, TokenInv, Mine
  <2>3. [k \in Jobs |-> AbstractState(k)'] =
        [[k \in Jobs |-> AbstractState(k)] EXCEPT ![cur[w]] = "done"]
    BY <1>0, <1>5, <2>1, MappedStatus DEF Complete, Status
  <2>4. Promise!Settle(cur[w])
    BY <1>5, <2>2, <2>3 DEF Complete, NextJob, Promise!Settle
  <2> QED  BY <2>1, <2>4 DEF Promise!Next
<1>6. ASSUME NEW w \in Workers, Fail(w)
      PROVE  [Promise!Next]_(Promise!vars)
  <2>1. cur[w] \in Jobs /\ cur[w] # NoJob
    BY <1>0, <1>6, CurrentIsJob DEF Fail, Settling
  <2>2. claims[cur[w]] > 0
    BY <1>0, <2>1 DEF TokenInv, Mine, TypeOK
  <2>3. CASE ShouldRetry(w)
    <3>1. [k \in Jobs |-> AbstractState(k)'] =
          [[k \in Jobs |-> AbstractState(k)] EXCEPT ![cur[w]] = "queued"]
      BY <1>0, <1>6, <2>1, <2>3, MappedStatus DEF Fail, Status
    <3>2. Promise!Requeue(cur[w])
      BY <1>6, <2>2, <3>1 DEF Fail, NextJob, Promise!Requeue
    <3> QED  BY <2>1, <3>2 DEF Promise!Next
  <2>4. CASE ~ShouldRetry(w)
    <3>1. [k \in Jobs |-> AbstractState(k)'] =
          [[k \in Jobs |-> AbstractState(k)] EXCEPT ![cur[w]] = "dead"]
      BY <1>0, <1>6, <2>1, <2>4, MappedStatus DEF Fail, Status
    <3>2. Promise!Bury(cur[w])
      BY <1>6, <2>2, <3>1 DEF Fail, NextJob, Promise!Bury
    <3> QED  BY <2>1, <3>2 DEF Promise!Next
  <2> QED  BY <2>3, <2>4
<1>7. CASE UNCHANGED <<status, claims, executed>>
  BY <1>7, MappedStutter
<1> QED
  BY <1>1, <1>2, <1>3, <1>4, <1>5, <1>6, <1>7
  DEF Promise!Next, Next, Work, vars, SelectStuck, SelectReady, EndClaim,
      EndTick, Throw, Refuse, Start, Crash, LoseWrite, LoseCall, NextJob,
      Elapse

\* The queue keeps the promise of AtLeastOnceQueue: a claim is executed at most
\* once, a job is completed only after an execution that succeeded, and is put
\* back or buried only after a claim.
THEOREM Implementation == Spec => KeepsPromise
<1>1. Init => Promise!Init
  BY DEF Init, Promise!Init, AbstractState, NoAttempts
<1>2. IInv /\ IInv' /\ [Next]_vars => [Promise!Next]_(Promise!vars)
  BY StepSimulation
<1> QED  BY Invariance, <1>1, <1>2, PTL DEF Spec, KeepsPromise, Promise!Spec

\* Whatever keeps the promise keeps what it comes to.
LEMMA KeptStep ==
  ASSUME TypeOK, TypeOK', Promise!Kept, [Promise!Next]_(Promise!vars)
  PROVE  Promise!Kept'
<1> DEFINE state == [j \in Jobs |-> AbstractState(j)]
<1>0. /\ claims \in [Jobs -> Nat] /\ executed \in [Jobs -> SUBSET Nat]
      /\ DOMAIN state = Jobs
  BY DEF TypeOK
<1>1. \A j \in Jobs : /\ state[j] = "done" => executed[j] # {}
                      /\ state[j] \in {"leased", "done", "dead"} => claims[j] > 0
                      /\ executed[j] \subseteq 1..claims[j]
  BY DEF Promise!Kept
<1> HIDE DEF state
<1>2. SUFFICES ASSUME NEW j \in Jobs
               PROVE  /\ state'[j] = "done" => executed'[j] # {}
                      /\ state'[j] \in {"leased", "done", "dead"} => claims'[j] > 0
                      /\ executed'[j] \subseteq 1..claims'[j]
  BY DEF Promise!Kept, state
<1>3. ASSUME NEW i \in Jobs, Promise!Submit(i) \/ Promise!Requeue(i)
      PROVE  /\ UNCHANGED <<claims, executed>>
             /\ state'[j] \in {state[j], "queued"}
  BY <1>0, <1>3 DEF Promise!Submit, Promise!Requeue, state
<1>4. ASSUME NEW i \in Jobs, Promise!Lease(i)
      PROVE  /\ UNCHANGED executed /\ claims'[j] >= claims[j]
             /\ state'[j] # state[j] => state'[j] = "leased" /\ claims'[j] > 0
  <2>1. UNCHANGED executed /\ claims' = [claims EXCEPT ![i] = claims[i] + 1]
    BY <1>4 DEF Promise!Lease
  <2>2. claims'[j] = IF i = j THEN claims[j] + 1 ELSE claims[j]
    BY <1>0, <2>1
  <2>3. state' = [state EXCEPT ![i] = "leased"]
    BY <1>4 DEF Promise!Lease, state
  <2>4. state'[j] = IF i = j THEN "leased" ELSE state[j]
    BY <1>0, <2>3
  <2> QED
    BY <1>0, <2>1, <2>2, <2>4
<1>5. ASSUME NEW i \in Jobs, Promise!Execute(i)
      PROVE  /\ UNCHANGED claims /\ state'[j] = state[j]
             /\ executed[j] \subseteq executed'[j] /\ executed'[j] \subseteq 1..claims[j]
  BY <1>0, <1>1, <1>5 DEF Promise!Execute, state
<1>6. ASSUME NEW i \in Jobs, Promise!Settle(i)
      PROVE  /\ UNCHANGED <<claims, executed>>
             /\ state'[j] # state[j] => executed[j] # {} /\ claims[j] > 0
  <2>1. executed[i] # {} => claims[i] > 0
    BY <1>0, <1>1
  <2> QED
    BY <1>0, <1>6, <2>1 DEF Promise!Settle, state
<1>7. ASSUME NEW i \in Jobs, Promise!Bury(i)
      PROVE  /\ UNCHANGED <<claims, executed>>
             /\ state'[j] # state[j] => state'[j] = "dead" /\ claims[j] > 0
  BY <1>0, <1>7 DEF Promise!Bury, state
<1>8. CASE UNCHANGED Promise!vars
  BY <1>1, <1>8 DEF Promise!vars, state
<1>9. CASE Promise!Next
  <2>1. PICK i \in Jobs : \/ Promise!Submit(i) \/ Promise!Requeue(i) \/ Promise!Lease(i)
                          \/ Promise!Execute(i) \/ Promise!Settle(i) \/ Promise!Bury(i)
    BY <1>9 DEF Promise!Next
  <2>2. CASE Promise!Submit(i) \/ Promise!Requeue(i)
    <3>1. UNCHANGED <<claims, executed>> /\ state'[j] \in {state[j], "queued"}
      BY <1>3, <2>2
    <3> QED  BY <1>1, <3>1
  <2>3. CASE Promise!Lease(i)
    <3>1. /\ UNCHANGED executed /\ claims'[j] >= claims[j]
          /\ state'[j] # state[j] => state'[j] = "leased" /\ claims'[j] > 0
      BY <1>4, <2>3
    <3>2. claims[j] \in Nat /\ claims'[j] \in Nat
      BY <1>0 DEF TypeOK
    <3> QED  BY <1>1, <3>1, <3>2
  <2>4. CASE Promise!Execute(i)
    <3>1. /\ UNCHANGED claims /\ state'[j] = state[j]
          /\ executed[j] \subseteq executed'[j] /\ executed'[j] \subseteq 1..claims[j]
      BY <1>5, <2>4
    <3> QED  BY <1>1, <3>1
  <2>5. CASE Promise!Settle(i)
    <3>1. /\ UNCHANGED <<claims, executed>>
          /\ state'[j] # state[j] => executed[j] # {} /\ claims[j] > 0
      BY <1>6, <2>5
    <3> QED  BY <1>1, <3>1
  <2>6. CASE Promise!Bury(i)
    <3>1. /\ UNCHANGED <<claims, executed>>
          /\ state'[j] # state[j] => state'[j] = "dead" /\ claims[j] > 0
      BY <1>7, <2>6
    <3> QED  BY <1>1, <3>1
  <2> QED  BY <2>1, <2>2, <2>3, <2>4, <2>5, <2>6
<1> QED
  BY <1>8, <1>9

\* What the code that enqueues a job may rest on, through the refinement: a row
\* says completed only when some claim of it was executed to success, whatever
\* recoveries, lost writes and late writes came between.
THEOREM CompletedWasExecuted ==
  Spec => [](\A j \in Jobs : status[j] = "completed" => executed[j] # {})
<1>1. TypeOK /\ Promise!Init => Promise!Kept
  BY DEF TypeOK, Promise!Init, Promise!Kept
<1>2. Spec => []Promise!Kept
  BY <1>1, KeptStep, TypeCorrect, Implementation, PTL DEF KeepsPromise, Promise!Spec
<1>3. Promise!Kept => \A j \in Jobs : status[j] = "completed" => executed[j] # {}
  BY DEF Promise!Kept, AbstractState
<1> QED
  BY <1>2, <1>3, PTL

-----------------------------------------------------------------------------
(* Ticks that do not overlap.                                              *)

\* What the only tick has selected stays as it saw it until it writes, so that
\* every attempt is counted once.
LEMMA SerialStep ==
  ASSUME Serial, TypeOK, MemoryInv, SerialInv, [Next]_vars
  PROVE  SerialInv'
<1> USE NoJobAssumption
    DEF tableVars, memoryVars, historyVars, TypeOK, SerialInv, FreshInv, AttemptsExact,
        Mine
<1>1. ASSUME NEW j \in Jobs, Enqueue(j)
      PROVE  SerialInv'
  BY <1>1 DEF Enqueue
<1>2. ASSUME NEW w \in Workers, SelectStuck(w)
      PROVE  SerialInv'
  BY <1>2 DEF SelectStuck, Stuck, Snapshot
<1>3. ASSUME NEW w \in Workers, NEW j \in Jobs, RecoverRow(w, j)
      PROVE  SerialInv'
  <2>1. Mine(w) = {}
    BY <1>3 DEF RecoverRow, MemoryInv, Settling
  <2>2. \A v \in Workers : v = w
    BY DEF Serial
  <2>3. RecoverHit(w, j)
    BY <1>3 DEF RecoverRow, RecoverMiss
  <2>4. AttemptsExact'
    BY <1>3, <2>3 DEF RecoverRow, RecoverHit
  <2>5. FreshInv'
    BY <1>3, <2>1, <2>2, <2>3 DEF RecoverRow, RecoverHit
  <2> QED
    BY <2>4, <2>5
<1>4. ASSUME NEW w \in Workers, SelectReady(w)
      PROVE  SerialInv'
  BY <1>4 DEF SelectReady, Ready, Snapshot
<1>5. ASSUME NEW w \in Workers, NEW j \in Jobs, ClaimRow(w, j)
      PROVE  SerialInv'
  <2>1. cur[w] = NoJob
    BY <1>5 DEF ClaimRow, MemoryInv, Settling
  <2>2. \A v \in Workers : v = w
    BY DEF Serial
  <2>3. ClaimHit(w, j)
    BY <1>5 DEF ClaimRow, ClaimMiss, First
  <2>4. AttemptsExact'
    BY <1>5, <2>3 DEF ClaimRow, ClaimHit, First
  <2>5. FreshInv'
    BY <1>5, <2>1, <2>2, <2>3 DEF ClaimRow, ClaimHit
  <2> QED
    BY <2>4, <2>5
<1>6. ASSUME NEW w \in Workers, EndClaim(w)
      PROVE  SerialInv'
  BY <1>6 DEF EndClaim
<1>7. ASSUME NEW w \in Workers, NEW j \in Jobs, Start(w, j)
      PROVE  SerialInv'
  BY <1>7 DEF Start, First
<1>8. ASSUME NEW w \in Workers, Succeed(w) \/ Throw(w) \/ Refuse(w) \/ EndTick(w)
      PROVE  SerialInv'
  <2>1. /\ phase[w] \in {"running", "working"} /\ phase'[w] \notin {"recovering", "claiming"}
        /\ UNCHANGED <<tableVars, todo, seen, batch, cur, claims, recoveries>>
    BY <1>8 DEF Succeed, Throw, Refuse, EndTick
  <2>2. \A v \in Workers : v = w
    BY DEF Serial
  <2> QED
    BY <2>1, <2>2
<1>9. ASSUME NEW w \in Workers, Complete(w) \/ Fail(w) \/ LoseWrite(w)
      PROVE  SerialInv'
  <2>1. cur[w] \in Jobs /\ cur[w] # NoJob /\ cur[w] \notin batch[w]
    BY <1>9, CurrentIsJob DEF Complete, Fail, LoseWrite, Settling, MemoryInv
  <2>2. \A j \in Jobs : j # cur[w] => status'[j] = status[j]
    BY <1>9 DEF Complete, Fail, LoseWrite
  <2>3. NextJob(w) /\ UNCHANGED attempts /\ todo[w] = {}
    BY <1>9 DEF Complete, Fail, LoseWrite, Settling
  <2>4. \A v \in Workers : v = w
    BY DEF Serial
  <2> QED
    BY <2>1, <2>2, <2>3, <2>4 DEF NextJob
<1>10. ASSUME NEW w \in Workers, Crash(w)
       PROVE  SerialInv'
  BY <1>10 DEF Crash
<1>11. ASSUME NEW w \in Workers, LoseCall(w)
       PROVE  SerialInv'
  <2>1. UNCHANGED <<tableVars, seen, batch, cur, claims, recoveries>>
    BY <1>11 DEF LoseCall
  <2>2. \/ phase[w] \in {"idle", "recovering"} /\ todo[w] = {} /\ UNCHANGED todo
        \/ /\ phase[w] \in {"recovering", "claiming"} /\ UNCHANGED phase
           /\ \E j \in todo[w] : todo' = [todo EXCEPT ![w] = @ \ {j}]
    BY <1>11 DEF LoseCall
  <2>3. \A v \in Workers : v = w
    BY DEF Serial
  <2> QED
    BY <2>1, <2>2, <2>3
<1>12. CASE Elapse
  BY <1>12, NumbersAssumption DEF Elapse, Older, Nearer
<1>13. CASE UNCHANGED vars
  BY <1>13 DEF vars
<1> QED
  BY <1>1, <1>2, <1>3, <1>4, <1>5, <1>6, <1>7, <1>8, <1>9, <1>10, <1>11, <1>12, <1>13
  DEF Next, Work

\* As long as ticks do not overlap, no SELECT is out of date when its UPDATE runs.
THEOREM SerialInvariance == ASSUME Serial PROVE Spec => []SerialInv
<1>1. Init => SerialInv
  BY DEF Init, SerialInv, FreshInv, AttemptsExact, Mine, NoAttempts
<1>2. IInv /\ SerialInv /\ [Next]_vars => SerialInv'
  BY SerialStep DEF IInv
<1> QED
  BY Invariance, <1>1, <1>2, PTL DEF Spec

\* attempts then counts every claim and every recovery, no more and no less.
THEOREM SerialAttemptsAreExact == ASSUME Serial PROVE Spec => []AttemptsExact
<1>1. SerialInv => AttemptsExact
  BY DEF SerialInv
<1> QED
  BY SerialInvariance, <1>1, PTL

\* A step of the only tick on a row that is settled leaves it settled.
THEOREM SerialSettlingIsFinal == ASSUME Serial PROVE Spec => SettledIsFinal
<1> DEFINE A == \A j \in Jobs : status[j] \in Settled => status'[j] = status[j]
<1>1. IInv /\ SerialInv /\ [Next]_vars => [A]_vars
  <2> SUFFICES ASSUME IInv, SerialInv, Next PROVE A
    OBVIOUS
  <2> USE DEF IInv, TypeOK, Settled, tableVars, memoryVars, historyVars
  <2>1. ASSUME NEW w \in Workers, Complete(w) \/ Fail(w)
        PROVE  A
    <3>1. cur[w] \in Jobs /\ status[cur[w]] = "processing"
      BY <2>1, CurrentIsJob DEF Complete, Fail, Settling, SerialInv, FreshInv, Mine
    <3> QED
      BY <2>1, <3>1 DEF Complete, Fail
  <2>2. ASSUME NEW w \in Workers, NEW k \in Jobs, RecoverRow(w, k) \/ ClaimRow(w, k)
        PROVE  A
    BY <2>2 DEF RecoverRow, RecoverHit, RecoverMiss, ClaimRow, ClaimHit, ClaimMiss
  <2>3. ASSUME NEW k \in Jobs, Enqueue(k)
        PROVE  A
    BY <2>3 DEF Enqueue
  <2>4. CASE UNCHANGED status
    BY <2>4
  <2> QED
    BY <2>1, <2>2, <2>3, <2>4
    DEF Next, Work, SelectStuck, SelectReady, EndClaim, EndTick, Succeed,
        Throw, Refuse, Start, Crash, LoseWrite, LoseCall, Elapse
<1> QED
  BY Invariance, SerialInvariance, <1>1, PTL DEF Spec, SettledIsFinal

\* The recovery then does what its comment says: it touches rows that are
\* processing and older than the cutoff, and no other.
THEOREM SerialRecoveryIsExact == ASSUME Serial PROVE Spec => RecoveryTouchesOnlyStuck
<1> DEFINE A == \A j \in Jobs : recoveries'[j] # recoveries[j]
                   => status[j] = "processing" /\ age[j] > StuckTimeout
<1>1. IInv /\ SerialInv /\ [Next]_vars => [A]_vars
  <2> SUFFICES ASSUME IInv, SerialInv, Next PROVE A
    OBVIOUS
  <2> USE DEF IInv, TypeOK, tableVars, memoryVars, historyVars
  <2>1. ASSUME NEW w \in Workers, NEW k \in Jobs, RecoverRow(w, k)
        PROVE  A
    <3>1. status[k] = "processing" /\ age[k] > StuckTimeout
      BY <2>1 DEF RecoverRow, SerialInv, FreshInv
    <3> QED
      BY <2>1, <3>1 DEF RecoverRow, RecoverHit, RecoverMiss
  <2>2. CASE UNCHANGED recoveries
    BY <2>2
  <2> QED
    BY <2>1, <2>2
    DEF Next, Work, Enqueue, SelectStuck, SelectReady, ClaimRow, EndClaim, EndTick,
        Succeed, Throw, Refuse, Start, Complete, Fail, NextJob, Crash, LoseWrite,
        LoseCall, Elapse
<1> QED
  BY Invariance, SerialInvariance, <1>1, PTL DEF Spec, RecoveryTouchesOnlyStuck

\* No row is then claimed before its run_after.
THEOREM SerialBackoffIsKept == ASSUME Serial PROVE Spec => BackoffRespected
<1> DEFINE A == \A j \in Jobs : claims'[j] # claims[j] => delay[j] = 0
<1>1. IInv /\ SerialInv /\ [Next]_vars => [A]_vars
  <2> SUFFICES ASSUME IInv, SerialInv, Next PROVE A
    OBVIOUS
  <2> USE DEF IInv, TypeOK, tableVars, memoryVars, historyVars
  <2>1. ASSUME NEW w \in Workers, NEW k \in Jobs, ClaimRow(w, k)
        PROVE  A
    <3>1. delay[k] = 0
      BY <2>1 DEF ClaimRow, First, SerialInv, FreshInv
    <3> QED
      BY <2>1, <3>1 DEF ClaimRow, ClaimHit, ClaimMiss
  <2>2. CASE UNCHANGED claims
    BY <2>2
  <2> QED
    BY <2>1, <2>2
    DEF Next, Work, Enqueue, SelectStuck, SelectReady, RecoverRow, EndClaim, EndTick,
        Succeed, Throw, Refuse, Start, Complete, Fail, NextJob, Crash, LoseWrite,
        LoseCall, Elapse
<1> QED
  BY Invariance, SerialInvariance, <1>1, PTL DEF Spec, BackoffRespected
=============================================================================
