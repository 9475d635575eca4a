------------------------- MODULE MerchantSyncProofs -------------------------
(***************************************************************************)
(* Proofs about MerchantSync, for every set of processes and of origins    *)
(* and every value of the bounds.                                          *)
(***************************************************************************)
EXTENDS MerchantSync, TLAPS

-----------------------------------------------------------------------------
(* Type correctness.                                                       *)

LEMMA WipedType ==
  TypeOK => Wiped \in [Processes -> {"none", "early", "live", "wiped"}]
BY DEF TypeOK, Wiped

LEMMA TypeStep == TypeOK /\ [Next]_vars => TypeOK'
<1> SUFFICES ASSUME TypeOK, [Next]_vars
             PROVE  TypeOK'
  OBVIOUS
<1> USE BoundsAssumption
    DEF TypeOK, Step, Marked, Mark, Goto, Ask, Fault, Reset, row, run, calls, bounds,
        history, rest
<1>1. ASSUME NEW p \in Processes, NEW r \in Request, Start(p, r)
      PROVE  TypeOK'
  BY <1>1 DEF Start, TakeLock, Request
<1>2. ASSUME NEW p \in Processes, ReadState(p)
      PROVE  TypeOK'
  <2>1. marks' \in {marks, Seen(p)}
    BY <1>2 DEF ReadState
  <2>2. marks' \subseteq Mark
    BY <2>1 DEF Seen
  <2>3. /\ at' \in [Processes -> Step] /\ done' \in [Processes -> SUBSET Origins]
        /\ todo' \in [Processes -> SUBSET Origins] /\ asked' \in [Processes -> SUBSET Origins]
    BY <1>2 DEF ReadState
  <2> QED
    BY <1>2, <2>2, <2>3 DEF ReadState
<1>3. ASSUME NEW p \in Processes, MarkRunning(p)
      PROVE  TypeOK'
  BY <1>3, WipedType DEF MarkRunning, Crowded, Opened
<1>4. ASSUME NEW p \in Processes, MarkResuming(p)
      PROVE  TypeOK'
  BY <1>4, WipedType DEF MarkResuming, Crowded, Opened
<1>5. ASSUME NEW p \in Processes, PickCredentials(p) \/ MarkFailed(p) \/ MarkStageGeo(p)
      PROVE  TypeOK'
  BY <1>5 DEF PickCredentials, MarkFailed, MarkStageGeo
<1>6. ASSUME NEW p \in Processes, NextOrigin(p) \/ CancelOrigin(p) \/ ExhaustQuota(p)
      PROVE  TypeOK'
  <2>1. CASE NextOrigin(p) \/ CancelOrigin(p)
    BY <2>1 DEF NextOrigin, CancelOrigin
  <2>2. CASE ExhaustQuota(p)
    BY <2>2 DEF ExhaustQuota
  <2> QED
    BY <1>6, <2>1, <2>2
<1>7. ASSUME NEW p \in Processes, NEW o \in Origins, FetchOrigin(p, o)
      PROVE  TypeOK'
  BY <1>7 DEF FetchOrigin
<1>8. ASSUME NEW p \in Processes, MarkOriginProgress(p) \/ LeaveLoop(p) \/ Conclude(p)
      PROVE  TypeOK'
  BY <1>8 DEF MarkOriginProgress, LeaveLoop, Conclude
<1>9. ASSUME NEW p \in Processes, MarkDone(p)
      PROVE  TypeOK'
  BY <1>9 DEF MarkDone
<1>10. ASSUME NEW p \in Processes, MarkCancelled(p)
      PROVE  TypeOK'
  BY <1>10, WipedType DEF MarkCancelled
<1>11. ASSUME NEW p \in Processes, SendHeartbeat(p) \/ LandHeartbeat(p) \/ AnswerHeartbeat(p)
      PROVE  TypeOK'
  BY <1>11 DEF SendHeartbeat, LandHeartbeat, AnswerHeartbeat
<1>12. ASSUME NEW p \in Processes, RequestStop(p)
      PROVE  TypeOK'
  <2>1. Told \in [Processes -> {"none", "early", "live", "wiped"}]
    BY DEF Told
  <2>2. promise' \in [Processes -> {"none", "early", "live", "wiped"}]
    BY <1>12, <2>1 DEF RequestStop
  <2>3. stopping' \in [Processes -> BOOLEAN]
    BY <1>12 DEF RequestStop
  <2> QED
    BY <1>12, <2>2, <2>3 DEF RequestStop
<1>13. ASSUME NEW p \in Processes, AnswerStop(p)
      PROVE  TypeOK'
  BY <1>13 DEF AnswerStop
<1>14. ASSUME NEW p \in Processes, ReadFailed(p) \/ CheckLock(p)
      PROVE  TypeOK'
  <2>1. CASE ReadFailed(p)
    BY <2>1 DEF ReadFailed
  <2>2. CASE CheckLock(p)
    BY <2>2 DEF CheckLock
  <2> QED
    BY <1>14, <2>1, <2>2
<1>15. ASSUME NEW p \in Processes, MarkRetryRunning(p)
      PROVE  TypeOK'
  BY <1>15, WipedType DEF MarkRetryRunning
<1>16. ASSUME NEW p \in Processes, RunRetry(p)
      PROVE  TypeOK'
  <2>1. CASE /\ TakeLock(p, "marking", [geo |-> FALSE, scope |-> again[p]])
             /\ promise' = [promise EXCEPT ![p] = IF @ = "early" THEN @ ELSE "none"]
    BY <1>16, <2>1 DEF RunRetry, TakeLock
  <2>2. CASE at[p] # "idle" /\ UNCHANGED <<run, asked, marks, promise>>
    BY <1>16, <2>2 DEF RunRetry
  <2> QED
    BY <1>16, <2>1, <2>2 DEF RunRetry
<1>17. ASSUME NEW p \in Processes, LoseMark(p)
       PROVE  TypeOK'
  <2>1. PICK here \in Step, next \in Step, seen \in SUBSET Mark : Loses(p, here, next, seen)
    BY <1>17 DEF LoseMark
  <2> QED
    BY <1>17, <2>1 DEF LoseMark, Loses
<1>18. ASSUME NEW p \in Processes, LoseRetryMark(p) \/ LoseHeartbeat(p)
       PROVE  TypeOK'
  <2>1. CASE LoseRetryMark(p)
    BY <2>1 DEF LoseRetryMark
  <2>2. CASE LoseHeartbeat(p)
    BY <2>2 DEF LoseHeartbeat
  <2> QED
    BY <1>18, <2>1, <2>2
<1>19. ASSUME NEW p \in Processes, Crash(p)
       PROVE  TypeOK'
  BY <1>19 DEF Crash
<1>20. CASE Expire \/ UNCHANGED vars
  BY <1>20 DEF Expire, vars
<1> QED
  BY <1>1, <1>2, <1>3, <1>4, <1>5, <1>6, <1>7, <1>8, <1>9, <1>10, <1>11,
     <1>12, <1>13, <1>14, <1>15, <1>16, <1>17, <1>18, <1>19, <1>20
     DEF Next, Advance, Answer, Fail

-----------------------------------------------------------------------------
(* The invariant, part by part.                                            *)

\* A run keeps its own books, whatever becomes of the row.
LEMMA RunStep ==
  ASSUME TypeOK, RunInv, [Next]_vars
  PROVE  RunInv'
<1> USE DEF TypeOK, RunInv, Marked, Goto, row, run, calls, bounds, history, rest
<1>1. ASSUME NEW p \in Processes, NEW r \in Request, Start(p, r)
      PROVE  RunInv'
  BY <1>1 DEF Start, Ask, TakeLock
<1>2. ASSUME NEW p \in Processes, ReadState(p)
      PROVE  RunInv'
  BY <1>2 DEF ReadState, Resumable, Seen
<1>3. ASSUME NEW p \in Processes, MarkRunning(p)
      PROVE  RunInv'
  BY <1>3 DEF MarkRunning, Reset, Opened, Wiped, Crowded
<1>4. ASSUME NEW p \in Processes, MarkResuming(p)
      PROVE  RunInv'
  BY <1>4 DEF MarkResuming, Reset, Opened, Wiped, Crowded
<1>5. ASSUME NEW p \in Processes, PickCredentials(p)
      PROVE  RunInv'
  BY <1>5 DEF PickCredentials
<1>6. ASSUME NEW p \in Processes, MarkFailed(p)
      PROVE  RunInv'
  BY <1>6 DEF MarkFailed
<1>7. ASSUME NEW p \in Processes, MarkStageGeo(p)
      PROVE  RunInv'
  BY <1>7 DEF MarkStageGeo
<1>8. ASSUME NEW p \in Processes, NextOrigin(p)
      PROVE  RunInv'
  BY <1>8 DEF NextOrigin
<1>9. ASSUME NEW p \in Processes, NEW o \in Origins, FetchOrigin(p, o)
      PROVE  RunInv'
  BY <1>9 DEF FetchOrigin
<1>10. ASSUME NEW p \in Processes, CancelOrigin(p)
      PROVE  RunInv'
  BY <1>10 DEF CancelOrigin
<1>11. ASSUME NEW p \in Processes, ExhaustQuota(p)
      PROVE  RunInv'
  BY <1>11 DEF ExhaustQuota
<1>12. ASSUME NEW p \in Processes, MarkOriginProgress(p)
      PROVE  RunInv'
  BY <1>12 DEF MarkOriginProgress
<1>13. ASSUME NEW p \in Processes, LeaveLoop(p)
      PROVE  RunInv'
  BY <1>13 DEF LeaveLoop
<1>14. ASSUME NEW p \in Processes, Conclude(p)
      PROVE  RunInv'
  BY <1>14 DEF Conclude
<1>15. ASSUME NEW p \in Processes, MarkDone(p)
      PROVE  RunInv'
  BY <1>15 DEF MarkDone
<1>16. ASSUME NEW p \in Processes, MarkCancelled(p)
      PROVE  RunInv'
  BY <1>16 DEF MarkCancelled, Wiped
<1>17. ASSUME NEW p \in Processes, LandHeartbeat(p)
      PROVE  RunInv'
  BY <1>17 DEF LandHeartbeat
<1>18. ASSUME NEW p \in Processes, AnswerHeartbeat(p)
      PROVE  RunInv'
  BY <1>18 DEF AnswerHeartbeat
<1>19. ASSUME NEW p \in Processes, AnswerStop(p)
      PROVE  RunInv'
  BY <1>19 DEF AnswerStop
<1>20. ASSUME NEW p \in Processes, CheckLock(p)
      PROVE  RunInv'
  BY <1>20 DEF CheckLock
<1>21. ASSUME NEW p \in Processes, MarkRetryRunning(p)
      PROVE  RunInv'
  BY <1>21 DEF MarkRetryRunning, Reset, Wiped
<1>22. ASSUME NEW p \in Processes, RunRetry(p)
      PROVE  RunInv'
  BY <1>22 DEF RunRetry, TakeLock
<1>23. ASSUME NEW p \in Processes, RequestStop(p)
      PROVE  RunInv'
  BY <1>23 DEF RequestStop, Ask, Told
<1>24. ASSUME NEW p \in Processes, ReadFailed(p)
      PROVE  RunInv'
  BY <1>24 DEF ReadFailed, Ask
<1>25. ASSUME NEW p \in Processes, SendHeartbeat(p)
      PROVE  RunInv'
  BY <1>25 DEF SendHeartbeat
<1>26. ASSUME NEW p \in Processes, LoseMark(p)
      PROVE  RunInv'
  BY <1>26 DEF LoseMark, Fault, Loses
<1>27. ASSUME NEW p \in Processes, LoseRetryMark(p)
      PROVE  RunInv'
  BY <1>27 DEF LoseRetryMark, Fault
<1>28. ASSUME NEW p \in Processes, LoseHeartbeat(p)
      PROVE  RunInv'
  BY <1>28 DEF LoseHeartbeat, Fault
<1>29. ASSUME NEW p \in Processes, Crash(p)
      PROVE  RunInv'
  BY <1>29 DEF Crash, Fault
<1>30. CASE Expire \/ UNCHANGED vars
  BY <1>30 DEF Expire, vars
<1> QED
  BY <1>1, <1>2, <1>3, <1>4, <1>5, <1>6, <1>7, <1>8, <1>9, <1>10, <1>11,
     <1>12, <1>13, <1>14, <1>15, <1>16, <1>17, <1>18, <1>19, <1>20,
     <1>21, <1>22, <1>23, <1>24, <1>25, <1>26, <1>27, <1>28, <1>29,
     <1>30
     DEF Next, Advance, Answer, Fail

\* A run starts without a promise, or with an early one.
LEMMA PromiseStep ==
  ASSUME TypeOK, PromiseInv, [Next]_vars
  PROVE  PromiseInv'
<1> USE DEF TypeOK, PromiseInv, Marked, Goto, row, run, calls, bounds, history, rest
<1>1. ASSUME NEW p \in Processes, NEW r \in Request, Start(p, r)
      PROVE  PromiseInv'
  BY <1>1 DEF Start, Ask, TakeLock
<1>2. ASSUME NEW p \in Processes, ReadState(p)
      PROVE  PromiseInv'
  BY <1>2 DEF ReadState, Resumable, Seen
<1>3. ASSUME NEW p \in Processes, MarkRunning(p)
      PROVE  PromiseInv'
  BY <1>3 DEF MarkRunning, Reset, Opened, Wiped, Crowded
<1>4. ASSUME NEW p \in Processes, MarkResuming(p)
      PROVE  PromiseInv'
  BY <1>4 DEF MarkResuming, Reset, Opened, Wiped, Crowded
<1>5. ASSUME NEW p \in Processes, PickCredentials(p)
      PROVE  PromiseInv'
  BY <1>5 DEF PickCredentials
<1>6. ASSUME NEW p \in Processes, MarkFailed(p)
      PROVE  PromiseInv'
  BY <1>6 DEF MarkFailed
<1>7. ASSUME NEW p \in Processes, MarkStageGeo(p)
      PROVE  PromiseInv'
  BY <1>7 DEF MarkStageGeo
<1>8. ASSUME NEW p \in Processes, NextOrigin(p)
      PROVE  PromiseInv'
  BY <1>8 DEF NextOrigin
<1>9. ASSUME NEW p \in Processes, NEW o \in Origins, FetchOrigin(p, o)
      PROVE  PromiseInv'
  BY <1>9 DEF FetchOrigin
<1>10. ASSUME NEW p \in Processes, CancelOrigin(p)
      PROVE  PromiseInv'
  BY <1>10 DEF CancelOrigin
<1>11. ASSUME NEW p \in Processes, ExhaustQuota(p)
      PROVE  PromiseInv'
  BY <1>11 DEF ExhaustQuota
<1>12. ASSUME NEW p \in Processes, MarkOriginProgress(p)
      PROVE  PromiseInv'
  BY <1>12 DEF MarkOriginProgress
<1>13. ASSUME NEW p \in Processes, LeaveLoop(p)
      PROVE  PromiseInv'
  BY <1>13 DEF LeaveLoop
<1>14. ASSUME NEW p \in Processes, Conclude(p)
      PROVE  PromiseInv'
  BY <1>14 DEF Conclude
<1>15. ASSUME NEW p \in Processes, MarkDone(p)
      PROVE  PromiseInv'
  BY <1>15 DEF MarkDone
<1>16. ASSUME NEW p \in Processes, MarkCancelled(p)
      PROVE  PromiseInv'
  BY <1>16 DEF MarkCancelled, Wiped
<1>17. ASSUME NEW p \in Processes, LandHeartbeat(p)
      PROVE  PromiseInv'
  BY <1>17 DEF LandHeartbeat
<1>18. ASSUME NEW p \in Processes, AnswerHeartbeat(p)
      PROVE  PromiseInv'
  BY <1>18 DEF AnswerHeartbeat
<1>19. ASSUME NEW p \in Processes, AnswerStop(p)
      PROVE  PromiseInv'
  BY <1>19 DEF AnswerStop
<1>20. ASSUME NEW p \in Processes, CheckLock(p)
      PROVE  PromiseInv'
  BY <1>20 DEF CheckLock
<1>21. ASSUME NEW p \in Processes, MarkRetryRunning(p)
      PROVE  PromiseInv'
  BY <1>21 DEF MarkRetryRunning, Reset, Wiped
<1>22. ASSUME NEW p \in Processes, RunRetry(p)
      PROVE  PromiseInv'
  BY <1>22 DEF RunRetry, TakeLock
<1>23. ASSUME NEW p \in Processes, RequestStop(p)
      PROVE  PromiseInv'
  BY <1>23 DEF RequestStop, Ask, Told
<1>24. ASSUME NEW p \in Processes, ReadFailed(p)
      PROVE  PromiseInv'
  BY <1>24 DEF ReadFailed, Ask
<1>25. ASSUME NEW p \in Processes, SendHeartbeat(p)
      PROVE  PromiseInv'
  BY <1>25 DEF SendHeartbeat
<1>26. ASSUME NEW p \in Processes, LoseMark(p)
      PROVE  PromiseInv'
  BY <1>26 DEF LoseMark, Fault, Loses
<1>27. ASSUME NEW p \in Processes, LoseRetryMark(p)
      PROVE  PromiseInv'
  BY <1>27 DEF LoseRetryMark, Fault
<1>28. ASSUME NEW p \in Processes, LoseHeartbeat(p)
      PROVE  PromiseInv'
  BY <1>28 DEF LoseHeartbeat, Fault
<1>29. ASSUME NEW p \in Processes, Crash(p)
      PROVE  PromiseInv'
  BY <1>29 DEF Crash, Fault
<1>30. CASE Expire \/ UNCHANGED vars
  BY <1>30 DEF Expire, vars
<1> QED
  BY <1>1, <1>2, <1>3, <1>4, <1>5, <1>6, <1>7, <1>8, <1>9, <1>10, <1>11,
     <1>12, <1>13, <1>14, <1>15, <1>16, <1>17, <1>18, <1>19, <1>20,
     <1>21, <1>22, <1>23, <1>24, <1>25, <1>26, <1>27, <1>28, <1>29,
     <1>30
     DEF Next, Advance, Answer, Fail

\* Only a mark that wipes the promises takes the stop from the row.
LEMMA HeldStep ==
  ASSUME TypeOK, PromiseInv, StopIsHeld, [Next]_vars
  PROVE  StopIsHeld'
<1> USE DEF TypeOK, PromiseInv, StopIsHeld, Marked, Goto, row, run, calls, bounds, history, rest
<1>1. ASSUME NEW p \in Processes, NEW r \in Request, Start(p, r)
      PROVE  StopIsHeld'
  BY <1>1 DEF Start, Ask, TakeLock
<1>2. ASSUME NEW p \in Processes, ReadState(p)
      PROVE  StopIsHeld'
  BY <1>2 DEF ReadState, Resumable, Seen
<1>3. ASSUME NEW p \in Processes, MarkRunning(p)
      PROVE  StopIsHeld'
  BY <1>3 DEF MarkRunning, Reset, Opened, Wiped, Crowded
<1>4. ASSUME NEW p \in Processes, MarkResuming(p)
      PROVE  StopIsHeld'
  BY <1>4 DEF MarkResuming, Reset, Opened, Wiped, Crowded
<1>5. ASSUME NEW p \in Processes, PickCredentials(p)
      PROVE  StopIsHeld'
  BY <1>5 DEF PickCredentials
<1>6. ASSUME NEW p \in Processes, MarkFailed(p)
      PROVE  StopIsHeld'
  BY <1>6 DEF MarkFailed
<1>7. ASSUME NEW p \in Processes, MarkStageGeo(p)
      PROVE  StopIsHeld'
  BY <1>7 DEF MarkStageGeo
<1>8. ASSUME NEW p \in Processes, NextOrigin(p)
      PROVE  StopIsHeld'
  BY <1>8 DEF NextOrigin
<1>9. ASSUME NEW p \in Processes, NEW o \in Origins, FetchOrigin(p, o)
      PROVE  StopIsHeld'
  BY <1>9 DEF FetchOrigin
<1>10. ASSUME NEW p \in Processes, CancelOrigin(p)
      PROVE  StopIsHeld'
  BY <1>10 DEF CancelOrigin
<1>11. ASSUME NEW p \in Processes, ExhaustQuota(p)
      PROVE  StopIsHeld'
  BY <1>11 DEF ExhaustQuota
<1>12. ASSUME NEW p \in Processes, MarkOriginProgress(p)
      PROVE  StopIsHeld'
  BY <1>12 DEF MarkOriginProgress
<1>13. ASSUME NEW p \in Processes, LeaveLoop(p)
      PROVE  StopIsHeld'
  BY <1>13 DEF LeaveLoop
<1>14. ASSUME NEW p \in Processes, Conclude(p)
      PROVE  StopIsHeld'
  BY <1>14 DEF Conclude
<1>15. ASSUME NEW p \in Processes, MarkDone(p)
      PROVE  StopIsHeld'
  BY <1>15 DEF MarkDone
<1>16. ASSUME NEW p \in Processes, MarkCancelled(p)
      PROVE  StopIsHeld'
  BY <1>16 DEF MarkCancelled, Wiped
<1>17. ASSUME NEW p \in Processes, LandHeartbeat(p)
      PROVE  StopIsHeld'
  BY <1>17 DEF LandHeartbeat
<1>18. ASSUME NEW p \in Processes, AnswerHeartbeat(p)
      PROVE  StopIsHeld'
  BY <1>18 DEF AnswerHeartbeat
<1>19. ASSUME NEW p \in Processes, AnswerStop(p)
      PROVE  StopIsHeld'
  BY <1>19 DEF AnswerStop
<1>20. ASSUME NEW p \in Processes, CheckLock(p)
      PROVE  StopIsHeld'
  BY <1>20 DEF CheckLock
<1>21. ASSUME NEW p \in Processes, MarkRetryRunning(p)
      PROVE  StopIsHeld'
  BY <1>21 DEF MarkRetryRunning, Reset, Wiped
<1>22. ASSUME NEW p \in Processes, RunRetry(p)
      PROVE  StopIsHeld'
  BY <1>22 DEF RunRetry, TakeLock
<1>23. ASSUME NEW p \in Processes, RequestStop(p)
      PROVE  StopIsHeld'
  BY <1>23 DEF RequestStop, Ask, Told
<1>24. ASSUME NEW p \in Processes, ReadFailed(p)
      PROVE  StopIsHeld'
  BY <1>24 DEF ReadFailed, Ask
<1>25. ASSUME NEW p \in Processes, SendHeartbeat(p)
      PROVE  StopIsHeld'
  BY <1>25 DEF SendHeartbeat
<1>26. ASSUME NEW p \in Processes, LoseMark(p)
      PROVE  StopIsHeld'
  BY <1>26 DEF LoseMark, Fault, Loses
<1>27. ASSUME NEW p \in Processes, LoseRetryMark(p)
      PROVE  StopIsHeld'
  BY <1>27 DEF LoseRetryMark, Fault
<1>28. ASSUME NEW p \in Processes, LoseHeartbeat(p)
      PROVE  StopIsHeld'
  BY <1>28 DEF LoseHeartbeat, Fault
<1>29. ASSUME NEW p \in Processes, Crash(p)
      PROVE  StopIsHeld'
  BY <1>29 DEF Crash, Fault
<1>30. CASE Expire \/ UNCHANGED vars
  BY <1>30 DEF Expire, vars
<1> QED
  BY <1>1, <1>2, <1>3, <1>4, <1>5, <1>6, <1>7, <1>8, <1>9, <1>10, <1>11,
     <1>12, <1>13, <1>14, <1>15, <1>16, <1>17, <1>18, <1>19, <1>20,
     <1>21, <1>22, <1>23, <1>24, <1>25, <1>26, <1>27, <1>28, <1>29,
     <1>30
     DEF Next, Advance, Answer, Fail

\* The last run to leave a running row writes its end.
LEMMA RowStep ==
  ASSUME TypeOK, RunningRowHasRun, [Next]_vars
  PROVE  RunningRowHasRun'
<1> USE DEF TypeOK, RunningRowHasRun, Marked, Goto, row, run, calls, bounds, history, rest
<1>1. ASSUME NEW p \in Processes, NEW r \in Request, Start(p, r)
      PROVE  RunningRowHasRun'
  BY <1>1 DEF Start, Ask, TakeLock
<1>2. ASSUME NEW p \in Processes, ReadState(p)
      PROVE  RunningRowHasRun'
  BY <1>2 DEF ReadState, Resumable, Seen
<1>3. ASSUME NEW p \in Processes, MarkRunning(p)
      PROVE  RunningRowHasRun'
  BY <1>3 DEF MarkRunning, Reset, Opened, Wiped, Crowded
<1>4. ASSUME NEW p \in Processes, MarkResuming(p)
      PROVE  RunningRowHasRun'
  BY <1>4 DEF MarkResuming, Reset, Opened, Wiped, Crowded
<1>5. ASSUME NEW p \in Processes, PickCredentials(p)
      PROVE  RunningRowHasRun'
  BY <1>5 DEF PickCredentials
<1>6. ASSUME NEW p \in Processes, MarkFailed(p)
      PROVE  RunningRowHasRun'
  BY <1>6 DEF MarkFailed
<1>7. ASSUME NEW p \in Processes, MarkStageGeo(p)
      PROVE  RunningRowHasRun'
  BY <1>7 DEF MarkStageGeo
<1>8. ASSUME NEW p \in Processes, NextOrigin(p)
      PROVE  RunningRowHasRun'
  BY <1>8 DEF NextOrigin
<1>9. ASSUME NEW p \in Processes, NEW o \in Origins, FetchOrigin(p, o)
      PROVE  RunningRowHasRun'
  BY <1>9 DEF FetchOrigin
<1>10. ASSUME NEW p \in Processes, CancelOrigin(p)
      PROVE  RunningRowHasRun'
  BY <1>10 DEF CancelOrigin
<1>11. ASSUME NEW p \in Processes, ExhaustQuota(p)
      PROVE  RunningRowHasRun'
  BY <1>11 DEF ExhaustQuota
<1>12. ASSUME NEW p \in Processes, MarkOriginProgress(p)
      PROVE  RunningRowHasRun'
  BY <1>12 DEF MarkOriginProgress
<1>13. ASSUME NEW p \in Processes, LeaveLoop(p)
      PROVE  RunningRowHasRun'
  BY <1>13 DEF LeaveLoop
<1>14. ASSUME NEW p \in Processes, Conclude(p)
      PROVE  RunningRowHasRun'
  BY <1>14 DEF Conclude
<1>15. ASSUME NEW p \in Processes, MarkDone(p)
      PROVE  RunningRowHasRun'
  BY <1>15 DEF MarkDone
<1>16. ASSUME NEW p \in Processes, MarkCancelled(p)
      PROVE  RunningRowHasRun'
  BY <1>16 DEF MarkCancelled, Wiped
<1>17. ASSUME NEW p \in Processes, LandHeartbeat(p)
      PROVE  RunningRowHasRun'
  BY <1>17 DEF LandHeartbeat
<1>18. ASSUME NEW p \in Processes, AnswerHeartbeat(p)
      PROVE  RunningRowHasRun'
  BY <1>18 DEF AnswerHeartbeat
<1>19. ASSUME NEW p \in Processes, AnswerStop(p)
      PROVE  RunningRowHasRun'
  BY <1>19 DEF AnswerStop
<1>20. ASSUME NEW p \in Processes, CheckLock(p)
      PROVE  RunningRowHasRun'
  BY <1>20 DEF CheckLock
<1>21. ASSUME NEW p \in Processes, MarkRetryRunning(p)
      PROVE  RunningRowHasRun'
  BY <1>21 DEF MarkRetryRunning, Reset, Wiped
<1>22. ASSUME NEW p \in Processes, RunRetry(p)
      PROVE  RunningRowHasRun'
  BY <1>22 DEF RunRetry, TakeLock
<1>23. ASSUME NEW p \in Processes, RequestStop(p)
      PROVE  RunningRowHasRun'
  BY <1>23 DEF RequestStop, Ask, Told
<1>24. ASSUME NEW p \in Processes, ReadFailed(p)
      PROVE  RunningRowHasRun'
  BY <1>24 DEF ReadFailed, Ask
<1>25. ASSUME NEW p \in Processes, SendHeartbeat(p)
      PROVE  RunningRowHasRun'
  BY <1>25 DEF SendHeartbeat
<1>26. ASSUME NEW p \in Processes, LoseMark(p)
      PROVE  RunningRowHasRun'
  BY <1>26 DEF LoseMark, Fault, Loses
<1>27. ASSUME NEW p \in Processes, LoseRetryMark(p)
      PROVE  RunningRowHasRun'
  BY <1>27 DEF LoseRetryMark, Fault
<1>28. ASSUME NEW p \in Processes, LoseHeartbeat(p)
      PROVE  RunningRowHasRun'
  BY <1>28 DEF LoseHeartbeat, Fault
<1>29. ASSUME NEW p \in Processes, Crash(p)
      PROVE  RunningRowHasRun'
  BY <1>29 DEF Crash, Fault
<1>30. CASE Expire \/ UNCHANGED vars
  BY <1>30 DEF Expire, vars
<1> QED
  BY <1>1, <1>2, <1>3, <1>4, <1>5, <1>6, <1>7, <1>8, <1>9, <1>10, <1>11,
     <1>12, <1>13, <1>14, <1>15, <1>16, <1>17, <1>18, <1>19, <1>20,
     <1>21, <1>22, <1>23, <1>24, <1>25, <1>26, <1>27, <1>28, <1>29,
     <1>30
     DEF Next, Advance, Answer, Fail

\* Lists are handed on, never made up.
LEMMA FetchedStep ==
  ASSUME TypeOK, RunInv, FetchedInv, [Next]_vars
  PROVE  FetchedInv'
<1> USE DEF TypeOK, RunInv, FetchedInv, SyncedIsFetched, Overlapped, Marked, Goto, row, run,
            calls, bounds, history, rest
<1>1. ASSUME NEW p \in Processes, NEW r \in Request, Start(p, r)
      PROVE  FetchedInv'
  BY <1>1 DEF Start, Ask, TakeLock
<1>2. ASSUME NEW p \in Processes, ReadState(p)
      PROVE  FetchedInv'
  BY <1>2 DEF ReadState, Resumable, Seen
<1>3. ASSUME NEW p \in Processes, MarkRunning(p)
      PROVE  FetchedInv'
  BY <1>3 DEF MarkRunning, Reset, Opened, Wiped, Crowded
<1>4. ASSUME NEW p \in Processes, MarkResuming(p)
      PROVE  FetchedInv'
  BY <1>4 DEF MarkResuming, Reset, Opened, Wiped, Crowded
<1>5. ASSUME NEW p \in Processes, PickCredentials(p)
      PROVE  FetchedInv'
  BY <1>5 DEF PickCredentials
<1>6. ASSUME NEW p \in Processes, MarkFailed(p)
      PROVE  FetchedInv'
  BY <1>6 DEF MarkFailed
<1>7. ASSUME NEW p \in Processes, MarkStageGeo(p)
      PROVE  FetchedInv'
  BY <1>7 DEF MarkStageGeo
<1>8. ASSUME NEW p \in Processes, NextOrigin(p)
      PROVE  FetchedInv'
  BY <1>8 DEF NextOrigin
<1>9. ASSUME NEW p \in Processes, NEW o \in Origins, FetchOrigin(p, o)
      PROVE  FetchedInv'
  BY <1>9 DEF FetchOrigin
<1>10. ASSUME NEW p \in Processes, CancelOrigin(p)
      PROVE  FetchedInv'
  BY <1>10 DEF CancelOrigin
<1>11. ASSUME NEW p \in Processes, ExhaustQuota(p)
      PROVE  FetchedInv'
  BY <1>11 DEF ExhaustQuota
<1>12. ASSUME NEW p \in Processes, MarkOriginProgress(p)
      PROVE  FetchedInv'
  BY <1>12 DEF MarkOriginProgress
<1>13. ASSUME NEW p \in Processes, LeaveLoop(p)
      PROVE  FetchedInv'
  BY <1>13 DEF LeaveLoop
<1>14. ASSUME NEW p \in Processes, Conclude(p)
      PROVE  FetchedInv'
  BY <1>14 DEF Conclude
<1>15. ASSUME NEW p \in Processes, MarkDone(p)
      PROVE  FetchedInv'
  BY <1>15 DEF MarkDone
<1>16. ASSUME NEW p \in Processes, MarkCancelled(p)
      PROVE  FetchedInv'
  BY <1>16 DEF MarkCancelled, Wiped
<1>17. ASSUME NEW p \in Processes, LandHeartbeat(p)
      PROVE  FetchedInv'
  BY <1>17 DEF LandHeartbeat
<1>18. ASSUME NEW p \in Processes, AnswerHeartbeat(p)
      PROVE  FetchedInv'
  BY <1>18 DEF AnswerHeartbeat
<1>19. ASSUME NEW p \in Processes, AnswerStop(p)
      PROVE  FetchedInv'
  BY <1>19 DEF AnswerStop
<1>20. ASSUME NEW p \in Processes, CheckLock(p)
      PROVE  FetchedInv'
  BY <1>20 DEF CheckLock
<1>21. ASSUME NEW p \in Processes, MarkRetryRunning(p)
      PROVE  FetchedInv'
  BY <1>21 DEF MarkRetryRunning, Reset, Wiped
<1>22. ASSUME NEW p \in Processes, RunRetry(p)
      PROVE  FetchedInv'
  BY <1>22 DEF RunRetry, TakeLock
<1>23. ASSUME NEW p \in Processes, RequestStop(p)
      PROVE  FetchedInv'
  BY <1>23 DEF RequestStop, Ask, Told
<1>24. ASSUME NEW p \in Processes, ReadFailed(p)
      PROVE  FetchedInv'
  BY <1>24 DEF ReadFailed, Ask
<1>25. ASSUME NEW p \in Processes, SendHeartbeat(p)
      PROVE  FetchedInv'
  BY <1>25 DEF SendHeartbeat
<1>26. ASSUME NEW p \in Processes, LoseMark(p)
      PROVE  FetchedInv'
  BY <1>26 DEF LoseMark, Fault, Loses
<1>27. ASSUME NEW p \in Processes, LoseRetryMark(p)
      PROVE  FetchedInv'
  BY <1>27 DEF LoseRetryMark, Fault
<1>28. ASSUME NEW p \in Processes, LoseHeartbeat(p)
      PROVE  FetchedInv'
  BY <1>28 DEF LoseHeartbeat, Fault
<1>29. ASSUME NEW p \in Processes, Crash(p)
      PROVE  FetchedInv'
  BY <1>29 DEF Crash, Fault
<1>30. CASE Expire \/ UNCHANGED vars
  BY <1>30 DEF Expire, vars
<1> QED
  BY <1>1, <1>2, <1>3, <1>4, <1>5, <1>6, <1>7, <1>8, <1>9, <1>10, <1>11,
     <1>12, <1>13, <1>14, <1>15, <1>16, <1>17, <1>18, <1>19, <1>20,
     <1>21, <1>22, <1>23, <1>24, <1>25, <1>26, <1>27, <1>28, <1>29,
     <1>30
     DEF Next, Advance, Answer, Fail

-----------------------------------------------------------------------------
(* Order, as long as the row is not Crossed.                               *)

\* What has come to pass stays so.
LEMMA MarksStay == [Next]_vars => marks \subseteq marks'
<1> USE DEF row, run, calls, bounds, history, rest
<1>1. ASSUME NEW p \in Processes, Advance(p)
      PROVE  marks \subseteq marks'
  BY <1>1 DEF Advance, ReadState, Seen, MarkRunning, MarkResuming, Opened,
              PickCredentials, MarkFailed, MarkStageGeo, NextOrigin, FetchOrigin,
              CancelOrigin, ExhaustQuota, MarkOriginProgress, LeaveLoop, Conclude,
              MarkDone, MarkCancelled
<1>2. ASSUME NEW p \in Processes, Answer(p) \/ Fail(p)
      PROVE  marks \subseteq marks'
  BY <1>2 DEF Answer, LandHeartbeat, AnswerHeartbeat, AnswerStop, CheckLock,
              MarkRetryRunning, RunRetry, TakeLock, Fail, LoseMark, Loses,
              LoseRetryMark, LoseHeartbeat, Crash
<1>3. ASSUME NEW p \in Processes,
             \/ \E r \in Request : Start(p, r)
             \/ RequestStop(p) \/ ReadFailed(p) \/ SendHeartbeat(p)
      PROVE  marks \subseteq marks'
  BY <1>3 DEF Start, TakeLock, RequestStop, ReadFailed, SendHeartbeat
<1>4. CASE Expire \/ UNCHANGED vars
  BY <1>4 DEF Expire, vars
<1> QED
  BY <1>1, <1>2, <1>3, <1>4 DEF Next

\* A run that is alone has the row to itself.
LEMMA OrderStep ==
  ASSUME TypeOK, RunInv, Order, [Next]_vars, ~Crossed, ~Crossed'
  PROVE  Order'
<1> USE DEF TypeOK, RunInv, Order, SoleInv, StandInv, CauseInv, Crossed, Overlapped, Marked,
            Goto, row, run, calls, bounds, history, rest
<1>1. ASSUME NEW p \in Processes, NEW r \in Request, Start(p, r)
      PROVE  Order'
  BY <1>1 DEF Start, Ask, TakeLock
<1>2. ASSUME NEW p \in Processes, ReadState(p)
      PROVE  Order'
  BY <1>2 DEF ReadState, Resumable, Seen
<1>3. ASSUME NEW p \in Processes, MarkRunning(p)
      PROVE  Order'
  <2>1. SoleInv'
    BY <1>3 DEF MarkRunning, Reset, Opened, Wiped, Crowded
  <2>2. StandInv'
    BY <1>3 DEF MarkRunning, Reset, Opened, Wiped, Crowded
  <2>3. CauseInv'
    BY <1>3 DEF MarkRunning, Reset, Opened, Wiped, Crowded
  <2> QED
    BY <2>1, <2>2, <2>3
<1>4. ASSUME NEW p \in Processes, MarkResuming(p)
      PROVE  Order'
  <2>1. SoleInv'
    BY <1>4 DEF MarkResuming, Reset, Opened, Wiped, Crowded
  <2>2. StandInv'
    BY <1>4 DEF MarkResuming, Reset, Opened, Wiped, Crowded
  <2>3. CauseInv'
    BY <1>4 DEF MarkResuming, Reset, Opened, Wiped, Crowded
  <2> QED
    BY <2>1, <2>2, <2>3
<1>5. ASSUME NEW p \in Processes, PickCredentials(p)
      PROVE  Order'
  BY <1>5 DEF PickCredentials
<1>6. ASSUME NEW p \in Processes, MarkFailed(p)
      PROVE  Order'
  BY <1>6 DEF MarkFailed
<1>7. ASSUME NEW p \in Processes, MarkStageGeo(p)
      PROVE  Order'
  BY <1>7 DEF MarkStageGeo
<1>8. ASSUME NEW p \in Processes, NextOrigin(p)
      PROVE  Order'
  BY <1>8 DEF NextOrigin
<1>9. ASSUME NEW p \in Processes, NEW o \in Origins, FetchOrigin(p, o)
      PROVE  Order'
  BY <1>9 DEF FetchOrigin
<1>10. ASSUME NEW p \in Processes, CancelOrigin(p)
      PROVE  Order'
  BY <1>10 DEF CancelOrigin
<1>11. ASSUME NEW p \in Processes, ExhaustQuota(p)
      PROVE  Order'
  BY <1>11 DEF ExhaustQuota
<1>12. ASSUME NEW p \in Processes, MarkOriginProgress(p)
      PROVE  Order'
  BY <1>12 DEF MarkOriginProgress
<1>13. ASSUME NEW p \in Processes, LeaveLoop(p)
      PROVE  Order'
  BY <1>13 DEF LeaveLoop
<1>14. ASSUME NEW p \in Processes, Conclude(p)
      PROVE  Order'
  BY <1>14 DEF Conclude
<1>15. ASSUME NEW p \in Processes, MarkDone(p)
      PROVE  Order'
  BY <1>15 DEF MarkDone
<1>16. ASSUME NEW p \in Processes, MarkCancelled(p)
      PROVE  Order'
  BY <1>16 DEF MarkCancelled, Wiped
<1>17. ASSUME NEW p \in Processes, LandHeartbeat(p)
      PROVE  Order'
  BY <1>17 DEF LandHeartbeat
<1>18. ASSUME NEW p \in Processes, AnswerHeartbeat(p)
      PROVE  Order'
  BY <1>18 DEF AnswerHeartbeat
<1>19. ASSUME NEW p \in Processes, AnswerStop(p)
      PROVE  Order'
  BY <1>19 DEF AnswerStop
<1>20. ASSUME NEW p \in Processes, CheckLock(p)
      PROVE  Order'
  BY <1>20 DEF CheckLock
<1>21. ASSUME NEW p \in Processes, MarkRetryRunning(p)
      PROVE  Order'
  <2>1. SoleInv'
    BY <1>21 DEF MarkRetryRunning, Reset, Wiped
  <2>2. StandInv'
    BY <1>21 DEF MarkRetryRunning, Reset, Wiped
  <2>3. CauseInv'
    BY <1>21 DEF MarkRetryRunning, Reset, Wiped
  <2> QED
    BY <2>1, <2>2, <2>3
<1>22. ASSUME NEW p \in Processes, RunRetry(p)
      PROVE  Order'
  <2>1. SoleInv'
    BY <1>22 DEF RunRetry, TakeLock
  <2>2. StandInv'
    BY <1>22 DEF RunRetry, TakeLock
  <2>3. CauseInv'
    BY <1>22 DEF RunRetry, TakeLock
  <2> QED
    BY <2>1, <2>2, <2>3
<1>23. ASSUME NEW p \in Processes, RequestStop(p)
      PROVE  Order'
  <2>1. SoleInv'
    BY <1>23 DEF RequestStop, Ask, Told
  <2>2. StandInv'
    BY <1>23 DEF RequestStop, Ask, Told
  <2>3. CauseInv'
    BY <1>23 DEF RequestStop, Ask, Told
  <2> QED
    BY <2>1, <2>2, <2>3
<1>24. ASSUME NEW p \in Processes, ReadFailed(p)
      PROVE  Order'
  BY <1>24 DEF ReadFailed, Ask
<1>25. ASSUME NEW p \in Processes, SendHeartbeat(p)
      PROVE  Order'
  BY <1>25 DEF SendHeartbeat
<1>26. ASSUME NEW p \in Processes, LoseMark(p)
      PROVE  Order'
  <2>1. SoleInv'
    BY <1>26 DEF LoseMark, Fault, Loses
  <2>2. StandInv'
    BY <1>26 DEF LoseMark, Fault, Loses
  <2>3. CauseInv'
    BY <1>26 DEF LoseMark, Fault, Loses
  <2> QED
    BY <2>1, <2>2, <2>3
<1>27. ASSUME NEW p \in Processes, LoseRetryMark(p)
      PROVE  Order'
  BY <1>27 DEF LoseRetryMark, Fault
<1>28. ASSUME NEW p \in Processes, LoseHeartbeat(p)
      PROVE  Order'
  BY <1>28 DEF LoseHeartbeat, Fault
<1>29. ASSUME NEW p \in Processes, Crash(p)
      PROVE  Order'
  BY <1>29 DEF Crash, Fault
<1>30. CASE Expire \/ UNCHANGED vars
  BY <1>30 DEF Expire, vars
<1> QED
  BY <1>1, <1>2, <1>3, <1>4, <1>5, <1>6, <1>7, <1>8, <1>9, <1>10, <1>11,
     <1>12, <1>13, <1>14, <1>15, <1>16, <1>17, <1>18, <1>19, <1>20,
     <1>21, <1>22, <1>23, <1>24, <1>25, <1>26, <1>27, <1>28, <1>29,
     <1>30
     DEF Next, Advance, Answer, Fail

-----------------------------------------------------------------------------
(* The inductive invariant.                                                *)

LEMMA Initially == Init => IInv
<1> SUFFICES ASSUME Init
             PROVE  IInv
  OBVIOUS
<1>1. TypeOK
  <2>1. /\ at \in [Processes -> Step]
        /\ geo \in [Processes -> BOOLEAN] /\ flag \in [Processes -> BOOLEAN]
        /\ stopping \in [Processes -> BOOLEAN]
    BY DEF Init, Each, Step
  <2>2. /\ todo \in [Processes -> SUBSET Origins]
        /\ done \in [Processes -> SUBSET Origins]
        /\ bad \in [Processes -> SUBSET Origins]
        /\ again \in [Processes -> SUBSET Origins]
        /\ kept \in [Processes -> SUBSET Origins]
        /\ asked \in [Processes -> SUBSET Origins]
    BY DEF Init, Each
  <2>3. /\ beat \in [Processes -> {"none", "sent", "stop"}]
        /\ retry \in [Processes -> {"none", "read", "sent", "marked"}]
        /\ promise \in [Processes -> {"none", "early", "live", "wiped"}]
    BY DEF Init, Each
  <2>4. /\ status = "none" /\ stage = "none" /\ listed = {} /\ failed = {}
        /\ cancel = FALSE /\ fresh = FALSE
        /\ asks \in 0..MaxAsks /\ faults \in 0..MaxFaults
        /\ stored = {} /\ gaps = {} /\ marks = {}
    BY BoundsAssumption DEF Init
  <2> QED
    BY <2>1, <2>2, <2>3, <2>4 DEF TypeOK, Mark
<1>2. RunInv /\ PromiseInv /\ StopIsHeld /\ RunningRowHasRun
  BY DEF Init, Each, RunInv, PromiseInv, StopIsHeld, RunningRowHasRun, Marked
<1>3. FetchedInv
  BY DEF Init, Each, FetchedInv, SyncedIsFetched
<1>4. Order
  BY DEF Init, Each, Order, SoleInv, StandInv, CauseInv, Marked
<1> QED
  BY <1>1, <1>2, <1>3, <1>4 DEF IInv

LEMMA Inductive == IInv /\ [Next]_vars => IInv'
<1> SUFFICES ASSUME IInv, [Next]_vars
             PROVE  IInv'
  OBVIOUS
<1>1. TypeOK /\ RunInv /\ PromiseInv /\ FetchedInv /\ StopIsHeld /\ RunningRowHasRun
  BY DEF IInv
<1>2. TypeOK' /\ RunInv' /\ PromiseInv'
  BY <1>1, TypeStep, RunStep, PromiseStep
<1>3. FetchedInv' /\ StopIsHeld' /\ RunningRowHasRun'
  BY <1>1, FetchedStep, HeldStep, RowStep
<1>4. ASSUME ~Crossed'
      PROVE  Order'
  <2>1. ~Crossed
    BY <1>4, MarksStay DEF Crossed, Overlapped
  <2> QED
    BY <1>1, <1>4, <2>1, OrderStep DEF IInv
<1> QED
  BY <1>2, <1>3, <1>4 DEF IInv

-----------------------------------------------------------------------------
(* Theorems.                                                               *)

\* The inductive invariant holds of every behaviour.
THEOREM Invariance == Spec => []IInv
BY Initially, Inductive, PTL DEF Spec

\* Every variable keeps its type.
THEOREM TypeCorrect == Spec => []TypeOK
<1>1. IInv => TypeOK
  BY DEF IInv
<1> QED
  BY <1>1, Invariance, PTL

\* Whatever runs, crashes, loses its writes, resumes and retries, the row lists
\* only origins that were fetched since it was reset, unless a run took the row
\* from another.
THEOREM ListsAreEarned == Spec => []SyncedIsFetched
<1>1. IInv => SyncedIsFetched
  BY DEF IInv, FetchedInv
<1> QED
  BY <1>1, Invariance, PTL

\* A stop acknowledged for a run that has marked the row stays in it, with any
\* number of processes, until a mark or a cancellation of another run wipes it.
THEOREM StopsAreHeld == Spec => []StopIsHeld
<1>1. IInv => StopIsHeld
  BY DEF IInv
<1> QED
  BY <1>1, Invariance, PTL

\* A running row has a run or a retry behind it, unless a process died or the
\* last mark of a run was lost.
THEOREM RunningRowsHaveRuns == Spec => []RunningRowHasRun
<1>1. IInv => RunningRowHasRun
  BY DEF IInv
<1> QED
  BY <1>1, Invariance, PTL

\* No run is cancelled that nobody asked to stop.
THEOREM CancelsHaveCause == Spec => []CancelHasCause
<1>1. IInv => CancelHasCause
  BY DEF IInv, RunInv, Order, CauseInv, CancelHasCause
<1> QED
  BY <1>1, Invariance, PTL

\* The end that a run writes accounts for every origin it was asked for,
\* whatever other processes do.
THEOREM EndsAccount == Spec => EndAccounts
<1>1. ASSUME IInv, [Next]_vars, NEW p \in Processes,
             at[p] = "finishing", at'[p] = "idle", faults' = faults
      PROVE  asked[p] = listed' \union failed' /\ listed' \intersect failed' = {}
  <2> USE DEF IInv, TypeOK, Goto, row, run, calls, bounds, history, rest
  <2>1. MarkDone(p)
    <3>1. ASSUME NEW q \in Processes, Advance(q)
          PROVE  MarkDone(p)
      BY <1>1, <3>1
         DEF Advance, ReadState, MarkRunning, MarkResuming, Opened,
             PickCredentials, MarkFailed, MarkStageGeo, NextOrigin, FetchOrigin,
             CancelOrigin, ExhaustQuota, MarkOriginProgress, LeaveLoop, Conclude,
             MarkDone, MarkCancelled
    <3>2. ASSUME NEW q \in Processes, Answer(q)
          PROVE  FALSE
      BY <1>1, <3>2
         DEF Answer, LandHeartbeat, AnswerHeartbeat, AnswerStop, CheckLock,
             MarkRetryRunning, RunRetry, TakeLock
    <3>3. ASSUME NEW q \in Processes, Fail(q)
          PROVE  FALSE
      BY <1>1, <3>3
         DEF Fail, Fault, LoseMark, LoseRetryMark, LoseHeartbeat, Crash
    <3>4. ASSUME NEW q \in Processes,
                 \/ \E r \in Request : Start(q, r)
                 \/ RequestStop(q) \/ ReadFailed(q) \/ SendHeartbeat(q)
          PROVE  FALSE
      BY <1>1, <3>4 DEF Start, TakeLock, RequestStop, ReadFailed, SendHeartbeat
    <3>5. ASSUME Expire \/ UNCHANGED vars
          PROVE  FALSE
      BY <1>1, <3>5 DEF Expire, vars
    <3> QED
      BY <1>1, <3>1, <3>2, <3>3, <3>4, <3>5 DEF Next
  <2> QED
    BY <1>1, <2>1 DEF MarkDone, RunInv
<1>2. IInv /\ [Next]_vars =>
        \A p \in Processes :
          at[p] = "finishing" /\ at'[p] = "idle" /\ faults' = faults =>
            /\ asked[p] = listed' \union failed'
            /\ listed' \intersect failed' = {}
  BY <1>1
<1> QED
  BY <1>2, Invariance, PTL DEF Spec, EndAccounts

\* Neither a crash, a resumed run, a quota, a stop nor the mark of a retry makes
\* the row forget a synced origin; the first mark of any other run does, that of
\* a retry included.
THEOREM ProgressStays == Spec => ProgressKept
<1> DEFINE Afresh == \E p \in Processes : at[p] = "marking" /\ at'[p] = "geo"
<1>1. ASSUME IInv, [Next]_vars
      PROVE  listed \subseteq listed' \/ Afresh \/ Crossed'
  <2> USE DEF row, run, calls, bounds, history, rest
  <2>1. SUFFICES ASSUME ~Crossed', ~Afresh
                 PROVE  listed \subseteq listed'
    OBVIOUS
  <2>2. Order /\ TypeOK
    BY <1>1, <2>1, MarksStay DEF IInv, Crossed, Overlapped
  <2>3. ASSUME NEW p \in Processes, MarkRunning(p)
        PROVE  FALSE
    BY <2>1, <2>2, <2>3 DEF MarkRunning, Opened, Goto, TypeOK
  <2>4. ASSUME NEW p \in Processes, MarkResuming(p)
        PROVE  listed \subseteq listed'
    BY <2>2, <2>4 DEF MarkResuming, Reset, Order, StandInv
  <2>5. ASSUME NEW p \in Processes, MarkOriginProgress(p) \/ MarkDone(p)
        PROVE  listed \subseteq listed'
    BY <2>2, <2>5 DEF MarkOriginProgress, MarkDone, Order, SoleInv, Marked
  <2>6. ASSUME NEW p \in Processes, MarkRetryRunning(p)
        PROVE  listed \subseteq listed'
    BY <2>2, <2>6 DEF MarkRetryRunning, Reset, Order, StandInv
  <2>7. ASSUME NEW p \in Processes,
               \/ ReadState(p) \/ PickCredentials(p) \/ MarkFailed(p)
               \/ MarkStageGeo(p) \/ NextOrigin(p) \/ \E o \in Origins : FetchOrigin(p, o)
               \/ CancelOrigin(p) \/ ExhaustQuota(p) \/ LeaveLoop(p) \/ Conclude(p)
               \/ MarkCancelled(p)
        PROVE  listed \subseteq listed'
    BY <2>7 DEF ReadState, PickCredentials, MarkFailed, MarkStageGeo, NextOrigin,
                FetchOrigin, CancelOrigin, ExhaustQuota, LeaveLoop, Conclude,
                MarkCancelled
  <2>8. ASSUME NEW p \in Processes,
               \/ LandHeartbeat(p) \/ AnswerHeartbeat(p) \/ AnswerStop(p)
               \/ CheckLock(p) \/ RunRetry(p) \/ Fail(p)
               \/ \E r \in Request : Start(p, r)
               \/ RequestStop(p) \/ ReadFailed(p) \/ SendHeartbeat(p)
        PROVE  listed \subseteq listed'
    BY <2>8 DEF LandHeartbeat, AnswerHeartbeat, AnswerStop, CheckLock, RunRetry,
                Fail, LoseMark, LoseRetryMark, LoseHeartbeat, Crash,
                Start, RequestStop, ReadFailed, SendHeartbeat
  <2>9. ASSUME Expire \/ UNCHANGED vars
        PROVE  listed \subseteq listed'
    BY <2>9 DEF Expire, vars
  <2>10. ASSUME NEW p \in Processes, Advance(p)
         PROVE  listed \subseteq listed'
    BY <2>10, <2>3, <2>4, <2>5, <2>7 DEF Advance
  <2>11. ASSUME NEW p \in Processes, Answer(p)
         PROVE  listed \subseteq listed'
    BY <2>11, <2>6, <2>8 DEF Answer
  <2> QED
    BY <1>1, <2>8, <2>9, <2>10, <2>11 DEF Next
<1> QED
  BY <1>1, Invariance, PTL DEF Spec, ProgressKept
=============================================================================
