------------------------------ MODULE JobQueue ------------------------------
(***************************************************************************)
(* The background-job queue: the table background_jobs and the processor   *)
(* ticks that work on it.                                                  *)
(*                                                                         *)
(* A worker is one invocation of POST /api/v1/jobs/process-background.  It *)
(* recovers stuck rows, claims a batch, runs the batch one job at a time   *)
(* and answers; the cron starts one every minute whether or not the        *)
(* previous one has answered, so several workers overlap.  Every await on  *)
(* the database is a step of its own: what a SELECT returned is remembered *)
(* by the worker and may be stale when the UPDATE that uses it runs.       *)
(*                                                                         *)
(* A row is split into one function per column.  Times are relative: age   *)
(* is now - updated_at, delay is run_after - now, both saturating, which   *)
(* is all that the comparisons with now and with the cutoff can see.       *)
(***************************************************************************)
EXTENDS Naturals, FiniteSets

CONSTANTS
  Jobs,              \* the rows that are ever enqueued
  Workers,           \* the invocations that may be running at one time
  NoJob,             \* a value that is not a job
  Rank,              \* Rank[j]: index of j's type in MDI_JOB_PRIORITY_ORDER
  StuckTimeout,      \* STUCK_JOB_TIMEOUT_MS, in ticks of the clock
  StuckMaxAttempts,  \* STUCK_JOB_MAX_ATTEMPTS
  RetryLimit,        \* maxAttempts that the route passes for an ordinary error
  RetryDelayBase,    \* RETRY_DELAY_BASE_MS, in ticks of the clock
  RetryDelayMax,     \* RETRY_DELAY_MAX_MS, in ticks of the clock
  Limit,             \* size of the batch a worker claims
  MaxFaults          \* bound: crashes and failed calls in one behaviour

ASSUME NoJobAssumption == NoJob \notin Jobs
ASSUME RankAssumption == Rank \in [Jobs -> Nat]
ASSUME NumbersAssumption ==
  /\ StuckTimeout \in Nat /\ StuckMaxAttempts \in Nat /\ RetryLimit \in Nat
  /\ RetryDelayBase \in Nat /\ RetryDelayMax \in Nat
  /\ Limit \in Nat \ {0} /\ MaxFaults \in Nat

VARIABLES
  \* the table
  status,      \* status[j]: "absent" before the INSERT
  attempts,    \* attempts[j]
  age,         \* age[j]: ticks since updated_at, only followed while processing
  delay,       \* delay[j]: ticks until run_after, only followed while pending
  \* the memory of each worker
  phase,       \* phase[w]: what the worker is about to do
  todo,        \* todo[w]: rows of the last SELECT that it has still to update
  seen,        \* seen[w][j]: attempts[j] as that SELECT returned it
  batch,       \* batch[w]: rows it has claimed and not yet started
  held,        \* held[w][j]: attempts in the claimed row it keeps of j
  cur,         \* cur[w]: the job it is running or settling
  \* the environment
  faults,      \* crashes and failed calls so far
  \* history, read by no guard
  claims,      \* claims[j]: how often the row was moved pending -> processing
  recoveries,  \* recoveries[j]: how often a recovery rewrote the row
  token,       \* token[w][j]: which claim of j the worker holds, 0 for none
  executed,    \* executed[j]: the claims of j that processOne finished well
  rejected     \* jobs that ended in a YalidineAuthError at least once

tableVars == <<status, attempts, age, delay>>
memoryVars == <<phase, todo, seen, batch, held, cur>>
historyVars == <<claims, recoveries, token, executed, rejected>>
vars == <<tableVars, memoryVars, faults, historyVars>>

Status == {"absent", "pending", "processing", "completed", "failed"}
Phase == {"idle", "recovering", "claiming", "working", "running",
          "succeeded", "threw", "refused"}

\* processOne has returned or thrown and the row is not yet written.
Settling == {"succeeded", "threw", "refused"}

Smaller(a, b) == IF a < b THEN a ELSE b

TypeOK ==
  /\ status \in [Jobs -> Status]
  /\ attempts \in [Jobs -> Nat]
  /\ age \in [Jobs -> 0..StuckTimeout + 1]
  /\ delay \in [Jobs -> 0..RetryDelayMax]
  /\ phase \in [Workers -> Phase]
  /\ todo \in [Workers -> SUBSET Jobs]
  /\ seen \in [Workers -> [Jobs -> Nat]]
  /\ batch \in [Workers -> SUBSET Jobs]
  /\ held \in [Workers -> [Jobs -> Nat]]
  /\ cur \in [Workers -> Jobs \union {NoJob}]
  /\ faults \in 0..MaxFaults
  /\ claims \in [Jobs -> Nat]
  /\ recoveries \in [Jobs -> Nat]
  /\ token \in [Workers -> [Jobs -> Nat]]
  /\ executed \in [Jobs -> SUBSET Nat]
  /\ rejected \in SUBSET Jobs

-----------------------------------------------------------------------------
NoAttempts == [j \in Jobs |-> 0]

Init ==
  /\ status = [j \in Jobs |-> "absent"]
  /\ attempts = NoAttempts
  /\ age = NoAttempts
  /\ delay = NoAttempts
  /\ phase = [w \in Workers |-> "idle"]
  /\ todo = [w \in Workers |-> {}]
  /\ seen = [w \in Workers |-> NoAttempts]
  /\ batch = [w \in Workers |-> {}]
  /\ held = [w \in Workers |-> NoAttempts]
  /\ cur = [w \in Workers |-> NoJob]
  /\ faults = 0
  /\ claims = NoAttempts
  /\ recoveries = NoAttempts
  /\ token = [w \in Workers |-> NoAttempts]
  /\ executed = [j \in Jobs |-> {}]
  /\ rejected = {}

-----------------------------------------------------------------------------
(* enqueueBackgroundJob, enqueueBackgroundJobs: the INSERT, with the       *)
(* runAfter of the caller or now.  When it fails the caller gets null and  *)
(* the row stays absent, which is no step.                                 *)
Enqueue(j) ==
  /\ status[j] = "absent"
  /\ status' = [status EXCEPT ![j] = "pending"]
  /\ \E d \in 0..RetryDelayMax : delay' = [delay EXCEPT ![j] = d]
  /\ UNCHANGED <<attempts, age, memoryVars, faults, historyVars>>

-----------------------------------------------------------------------------
(* recoverStuckJobs: one SELECT, then one guarded UPDATE per row, in the   *)
(* order the database returned them (the query has no ORDER BY).           *)

\* Slip for the mutation checks: the comparison with the cutoff swapped.
StuckSwapped == {j \in Jobs : status[j] = "processing" /\ age[j] <= StuckTimeout}

Stuck == {j \in Jobs : status[j] = "processing" /\ age[j] > StuckTimeout}

Snapshot(S) == [j \in Jobs |-> IF j \in S THEN attempts[j] ELSE 0]

SelectStuck(w) ==
  /\ phase[w] = "idle"
  /\ phase' = [phase EXCEPT ![w] = "recovering"]
  /\ todo' = [todo EXCEPT ![w] = Stuck]
  /\ seen' = [seen EXCEPT ![w] = Snapshot(Stuck)]
  /\ UNCHANGED <<tableVars, batch, held, cur, faults, historyVars>>

\* Slips: the UPDATE without its guard; the UPDATE that forgets attempts.
RecoverHitUnguarded(w, j) ==
  LET next == seen[w][j] + 1
  IN  /\ status' = [status EXCEPT
            ![j] = IF next > StuckMaxAttempts THEN "failed" ELSE "pending"]
      /\ attempts' = [attempts EXCEPT ![j] = next]
      /\ age' = [age EXCEPT ![j] = 0]
      /\ delay' = [delay EXCEPT ![j] = 0]
      /\ recoveries' = [recoveries EXCEPT ![j] = @ + 1]

RecoverHitUncounted(w, j) ==
  /\ status[j] = "processing"
  /\ status' = [status EXCEPT ![j] = "pending"]
  /\ age' = [age EXCEPT ![j] = 0]
  /\ delay' = [delay EXCEPT ![j] = 0]
  /\ recoveries' = [recoveries EXCEPT ![j] = @ + 1]
  /\ UNCHANGED attempts

RecoverHit(w, j) ==
  LET next == seen[w][j] + 1
  IN  /\ status[j] = "processing"
      /\ status' = [status EXCEPT
            ![j] = IF next > StuckMaxAttempts THEN "failed" ELSE "pending"]
      /\ attempts' = [attempts EXCEPT ![j] = next]
      /\ age' = [age EXCEPT ![j] = 0]
      /\ delay' = [delay EXCEPT ![j] = 0]
      /\ recoveries' = [recoveries EXCEPT ![j] = @ + 1]

RecoverMiss(j) ==
  /\ status[j] # "processing"
  /\ UNCHANGED <<tableVars, recoveries>>

RecoverRow(w, j) ==
  /\ phase[w] = "recovering"
  /\ j \in todo[w]
  /\ todo' = [todo EXCEPT ![w] = @ \ {j}]
  /\ RecoverHit(w, j) \/ RecoverMiss(j)
  /\ UNCHANGED <<phase, seen, batch, held, cur, faults,
                 claims, token, executed, rejected>>

-----------------------------------------------------------------------------
(* claimBackgroundJobsByPriority.                                          *)

\* Slip: the SELECT without its condition on run_after.
ReadyNow == {j \in Jobs : status[j] = "pending"}

Ready == {j \in Jobs : status[j] = "pending" /\ delay[j] = 0}

\* The SELECT returns the oldest min(4 * limit, 200) ready rows.  The order
\* by run_after and created_at is not followed, so any such set may come.
FetchCap == Smaller(4 * Limit, 200)

SelectReady(w) ==
  /\ phase[w] = "recovering"
  /\ todo[w] = {}
  /\ \E S \in SUBSET Ready :
        /\ Cardinality(S) <= FetchCap
        /\ S # Ready => Cardinality(S) = FetchCap
        /\ todo' = [todo EXCEPT ![w] = S]
        /\ seen' = [seen EXCEPT ![w] = Snapshot(S)]
  /\ phase' = [phase EXCEPT ![w] = "claiming"]
  /\ UNCHANGED <<tableVars, batch, held, cur, faults, historyVars>>

\* j is one of the next in a set that is sorted by priority; the order among
\* equals (first come, first served) is not followed.
First(j, S) == j \in S /\ \A k \in S : Rank[j] <= Rank[k]

\* Slip: the UPDATE without its guard.
ClaimHitUnguarded(w, j) ==
  LET next == seen[w][j] + 1
  IN  /\ status' = [status EXCEPT ![j] = "processing"]
      /\ attempts' = [attempts EXCEPT ![j] = next]
      /\ age' = [age EXCEPT ![j] = 0]
      /\ delay' = [delay EXCEPT ![j] = 0]
      /\ batch' = [batch EXCEPT ![w] = @ \union {j}]
      /\ held' = [held EXCEPT ![w][j] = next]
      /\ claims' = [claims EXCEPT ![j] = @ + 1]
      /\ token' = [token EXCEPT ![w][j] = claims[j] + 1]

ClaimHit(w, j) ==
  LET next == seen[w][j] + 1
  IN  /\ status[j] = "pending"
      /\ status' = [status EXCEPT ![j] = "processing"]
      /\ attempts' = [attempts EXCEPT ![j] = next]
      /\ age' = [age EXCEPT ![j] = 0]
      /\ delay' = [delay EXCEPT ![j] = 0]
      /\ batch' = [batch EXCEPT ![w] = @ \union {j}]
      /\ held' = [held EXCEPT ![w][j] = next]
      /\ claims' = [claims EXCEPT ![j] = @ + 1]
      /\ token' = [token EXCEPT ![w][j] = claims[j] + 1]

ClaimMiss(j) ==
  /\ status[j] # "pending"
  /\ UNCHANGED <<tableVars, batch, held, claims, token>>

ClaimRow(w, j) ==
  /\ phase[w] = "claiming"
  /\ Cardinality(batch[w]) < Limit
  /\ First(j, todo[w])
  /\ todo' = [todo EXCEPT ![w] = @ \ {j}]
  /\ ClaimHit(w, j) \/ ClaimMiss(j)
  /\ UNCHANGED <<phase, seen, cur, faults, recoveries, executed, rejected>>

EndClaim(w) ==
  /\ phase[w] = "claiming"
  /\ todo[w] = {} \/ Cardinality(batch[w]) >= Limit
  /\ phase' = [phase EXCEPT ![w] = "working"]
  /\ todo' = [todo EXCEPT ![w] = {}]
  /\ seen' = [seen EXCEPT ![w] = NoAttempts]
  /\ UNCHANGED <<tableVars, batch, held, cur, faults, historyVars>>

-----------------------------------------------------------------------------
(* The route's loop over the claimed batch.                                *)

\* Slip: the loop does not move on from the job it starts.
StartKeeps(w, j) ==
  /\ phase[w] = "working"
  /\ First(j, batch[w])
  /\ phase' = [phase EXCEPT ![w] = "running"]
  /\ cur' = [cur EXCEPT ![w] = j]
  /\ UNCHANGED <<tableVars, todo, seen, batch, held, faults, historyVars>>

Start(w, j) ==
  /\ phase[w] = "working"
  /\ First(j, batch[w])
  /\ phase' = [phase EXCEPT ![w] = "running"]
  /\ batch' = [batch EXCEPT ![w] = @ \ {j}]
  /\ cur' = [cur EXCEPT ![w] = j]
  /\ UNCHANGED <<tableVars, todo, seen, held, faults, historyVars>>

\* processOne returns.
Succeed(w) ==
  /\ phase[w] = "running"
  /\ phase' = [phase EXCEPT ![w] = "succeeded"]
  /\ executed' = [executed EXCEPT ![cur[w]] = @ \union {token[w][cur[w]]}]
  /\ UNCHANGED <<tableVars, todo, seen, batch, held, cur, faults,
                 claims, recoveries, token, rejected>>

\* processOne throws an error that may be retried.
Throw(w) ==
  /\ phase[w] = "running"
  /\ phase' = [phase EXCEPT ![w] = "threw"]
  /\ UNCHANGED <<tableVars, todo, seen, batch, held, cur, faults, historyVars>>

\* processOne throws a YalidineAuthError, which is not retried.
Refuse(w) ==
  /\ phase[w] = "running"
  /\ phase' = [phase EXCEPT ![w] = "refused"]
  /\ rejected' = rejected \union {cur[w]}
  /\ UNCHANGED <<tableVars, todo, seen, batch, held, cur, faults,
                 claims, recoveries, token, executed>>

\* The worker goes on to the next job and forgets the row of this one.
NextJob(w) ==
  /\ phase' = [phase EXCEPT ![w] = "working"]
  /\ cur' = [cur EXCEPT ![w] = NoJob]
  /\ held' = [held EXCEPT ![w][cur[w]] = 0]
  /\ token' = [token EXCEPT ![w][cur[w]] = 0]
  /\ UNCHANGED <<todo, seen, batch, claims, recoveries, executed, rejected>>

\* Slip: the completion in a finally, so that it runs after an error as well.
CompleteAlways(w) ==
  /\ phase[w] \in Settling
  /\ status' = [status EXCEPT ![cur[w]] = "completed"]
  /\ age' = [age EXCEPT ![cur[w]] = 0]
  /\ delay' = [delay EXCEPT ![cur[w]] = 0]
  /\ NextJob(w)
  /\ UNCHANGED <<attempts, faults>>

\* completeBackgroundJob: the UPDATE has no guard on the status.
Complete(w) ==
  /\ phase[w] = "succeeded"
  /\ status' = [status EXCEPT ![cur[w]] = "completed"]
  /\ age' = [age EXCEPT ![cur[w]] = 0]
  /\ delay' = [delay EXCEPT ![cur[w]] = 0]
  /\ NextJob(w)
  /\ UNCHANGED <<attempts, faults>>

\* Slip: the back-off without its cap.
BackoffUncapped(n) == RetryDelayBase * n

Backoff(n) == Smaller(RetryDelayMax, RetryDelayBase * n)

\* Slip: the attempt that is ending counted once more.
ShouldRetryLess(w) ==
  LET mine == held[w][cur[w]]
      maxAttempts == IF phase[w] = "refused" THEN mine ELSE RetryLimit
  IN  mine + 1 < maxAttempts

\* What failBackgroundJob writes for the attempts the worker remembers.
ShouldRetry(w) ==
  LET mine == held[w][cur[w]]
      maxAttempts == IF phase[w] = "refused" THEN mine ELSE RetryLimit
  IN  mine < maxAttempts

\* Slip: attempts counted again when a claim fails.
FailCounting(w) ==
  /\ phase[w] \in {"threw", "refused"}
  /\ status' = [status EXCEPT
        ![cur[w]] = IF ShouldRetry(w) THEN "pending" ELSE "failed"]
  /\ attempts' = [attempts EXCEPT ![cur[w]] = held[w][cur[w]] + 1]
  /\ delay' = [delay EXCEPT
        ![cur[w]] = IF ShouldRetry(w) THEN Backoff(held[w][cur[w]]) ELSE 0]
  /\ age' = [age EXCEPT ![cur[w]] = 0]
  /\ NextJob(w)
  /\ UNCHANGED faults

\* failBackgroundJob: the UPDATE has no guard on the status either.
Fail(w) ==
  /\ phase[w] \in {"threw", "refused"}
  /\ status' = [status EXCEPT
        ![cur[w]] = IF ShouldRetry(w) THEN "pending" ELSE "failed"]
  /\ delay' = [delay EXCEPT
        ![cur[w]] = IF ShouldRetry(w) THEN Backoff(held[w][cur[w]]) ELSE 0]
  /\ age' = [age EXCEPT ![cur[w]] = 0]
  /\ NextJob(w)
  /\ UNCHANGED <<attempts, faults>>

EndTick(w) ==
  /\ phase[w] = "working"
  /\ batch[w] = {}
  /\ phase' = [phase EXCEPT ![w] = "idle"]
  /\ UNCHANGED <<tableVars, todo, seen, batch, held, cur, faults, historyVars>>

-----------------------------------------------------------------------------
(* Faults and time.                                                        *)

\* The invocation dies: its process is killed, or the platform ends it.
Crash(w) ==
  /\ phase[w] # "idle"
  /\ faults < MaxFaults
  /\ faults' = faults + 1
  /\ phase' = [phase EXCEPT ![w] = "idle"]
  /\ todo' = [todo EXCEPT ![w] = {}]
  /\ seen' = [seen EXCEPT ![w] = NoAttempts]
  /\ batch' = [batch EXCEPT ![w] = {}]
  /\ held' = [held EXCEPT ![w] = NoAttempts]
  /\ cur' = [cur EXCEPT ![w] = NoJob]
  /\ token' = [token EXCEPT ![w] = NoAttempts]
  /\ UNCHANGED <<tableVars, claims, recoveries, executed, rejected>>

\* The UPDATE that settles a job comes back with an error, which neither
\* completeBackgroundJob nor failBackgroundJob looks at.
LoseWrite(w) ==
  /\ phase[w] \in Settling
  /\ faults < MaxFaults
  /\ faults' = faults + 1
  /\ NextJob(w)
  /\ UNCHANGED tableVars

\* A SELECT or a guarded UPDATE comes back with an error: the code takes the
\* missing data for an empty result and goes on.
LoseCall(w) ==
  /\ faults < MaxFaults
  /\ faults' = faults + 1
  /\ \/ /\ phase[w] = "idle"
        /\ phase' = [phase EXCEPT ![w] = "recovering"]
        /\ UNCHANGED todo
     \/ /\ phase[w] = "recovering" /\ todo[w] = {}
        /\ phase' = [phase EXCEPT ![w] = "claiming"]
        /\ UNCHANGED todo
     \/ /\ \/ phase[w] = "recovering"
           \/ phase[w] = "claiming" /\ Cardinality(batch[w]) < Limit
        /\ \E j \in todo[w] :
              /\ phase[w] = "claiming" => First(j, todo[w])
              /\ todo' = [todo EXCEPT ![w] = @ \ {j}]
        /\ UNCHANGED phase
  /\ UNCHANGED <<tableVars, seen, batch, held, cur, historyVars>>

Older(j) == IF status[j] = "processing" /\ age[j] <= StuckTimeout
            THEN age[j] + 1 ELSE age[j]

Nearer(j) == IF status[j] = "pending" /\ delay[j] > 0
             THEN delay[j] - 1 ELSE delay[j]

Elapse ==
  /\ age' = [j \in Jobs |-> Older(j)]
  /\ delay' = [j \in Jobs |-> Nearer(j)]
  /\ <<age, delay>>' # <<age, delay>>
  /\ UNCHANGED <<status, attempts, memoryVars, faults, historyVars>>

-----------------------------------------------------------------------------
Work(w) ==
  \/ SelectReady(w)
  \/ EndClaim(w)
  \/ EndTick(w)
  \/ Complete(w)
  \/ Fail(w)
  \/ Succeed(w)
  \/ Throw(w)
  \/ Refuse(w)
  \/ \E j \in Jobs : RecoverRow(w, j) \/ ClaimRow(w, j) \/ Start(w, j)

Next ==
  \/ \E j \in Jobs : Enqueue(j)
  \/ \E w \in Workers : SelectStuck(w) \/ Work(w)
  \/ \E w \in Workers : Crash(w) \/ LoseWrite(w) \/ LoseCall(w)
  \/ Elapse

Spec == Init /\ [][Next]_vars

\* The cron keeps starting workers, a running worker keeps running, no job
\* runs for ever and time passes.  Enqueueing and faults are not fair.
Fairness ==
  /\ \A w \in Workers : WF_vars(SelectStuck(w)) /\ WF_vars(Work(w))
  /\ WF_vars(Elapse)

FairSpec == Spec /\ Fairness
-----------------------------------------------------------------------------
(* Properties.                                                             *)

Settled == {"completed", "failed"}

\* The claimed rows a worker holds in memory: it will run and settle them.
Mine(w) == batch[w] \union (IF cur[w] = NoJob THEN {} ELSE {cur[w]})

\* Claiming moves a row to exactly one worker (background-jobs.ts:119): as
\* long as no recovery has rewritten the row, the worker that holds it is
\* alone and the row says so.
SoleOwner ==
  \A w \in Workers : \A j \in Mine(w) :
    recoveries[j] = 0 =>
      /\ status[j] = "processing"
      /\ \A v \in Workers \ {w} : j \notin Mine(v)

\* A claim is charged at most one recovery, however many overlapping ticks
\* saw the row stuck: the guard on the status in recoverStuckJobs.
OneRecoveryPerClaim ==
  \A j \in Jobs : recoveries[j] <= claims[j]

\* attempts never says more than has happened to the row, although it is
\* written from values read earlier and two functions add to it.
AttemptsNotOverstated ==
  \A j \in Jobs : attempts[j] <= claims[j] + recoveries[j]

\* The queue gives a job up only when its attempts are really spent, or when
\* the provider refused the credentials.
Spent(j) == claims[j] + recoveries[j] >= Smaller(RetryLimit, StuckMaxAttempts + 1)

BuriedOnlyWhenSpent ==
  \A j \in Jobs : status[j] = "failed" => Spent(j) \/ j \in rejected

\* completeBackgroundJob and failBackgroundJob write without a guard, yet a
\* settled row is only ever reopened when a recovery took it from a worker
\* that was still alive.
ReopenedOnlyAfterRecovery ==
  [][\A j \in Jobs : status[j] \in Settled /\ status'[j] # status[j]
                        => recoveries[j] > 0]_vars

\* Whatever the order of crashes, recoveries and late writes, a job that was
\* enqueued ends up completed or failed and stays so.
EveryJobSettles ==
  \A j \in Jobs : (status[j] = "pending") ~> [](status[j] \in Settled)

\* The queue keeps the promise of AtLeastOnceQueue.
AbstractState(j) ==
  CASE status[j] = "absent"     -> "absent"
    [] status[j] = "pending"    -> "queued"
    [] status[j] = "processing" -> "leased"
    [] status[j] = "completed"  -> "done"
    [] status[j] = "failed"     -> "dead"

Promise == INSTANCE AtLeastOnceQueue WITH
  state <- [j \in Jobs |-> AbstractState(j)], leases <- claims

KeepsPromise == Promise!Spec

-----------------------------------------------------------------------------
(* The inductive invariant the proofs rest on.                             *)

\* A worker keeps a current job exactly while it runs or settles one, and
\* holds each claimed row once.
MemoryInv ==
  \A w \in Workers :
    /\ cur[w] # NoJob <=> phase[w] \in {"running"} \union Settling
    /\ phase[w] \in {"idle", "recovering"} => batch[w] = {}
    /\ phase[w] = "claiming" => todo[w] \intersect batch[w] = {}
    /\ cur[w] \notin batch[w]
    /\ phase[w] = "refused" => cur[w] \in rejected

\* Nothing a worker has read or kept overstates the attempts of a row.
CountInv ==
  \A j \in Jobs :
    /\ status[j] = "processing" => recoveries[j] < claims[j]
    /\ \A w \in Workers :
          /\ seen[w][j] <= claims[j] + recoveries[j]
          /\ held[w][j] <= claims[j] + recoveries[j]

\* Each claim belongs to one worker and is executed at most once.
TokenInv ==
  /\ \A j \in Jobs : executed[j] \subseteq 1..claims[j]
  /\ \A w \in Workers : \A j \in Mine(w) :
        /\ token[w][j] \in 1..claims[j]
        /\ token[w][j] \in executed[j] <=> (j = cur[w] /\ phase[w] = "succeeded")
        /\ \A v \in Workers \ {w} : j \in Mine(v) => token[v][j] # token[w][j]

IInv ==
  /\ TypeOK
  /\ MemoryInv
  /\ CountInv
  /\ TokenInv
  /\ SoleOwner
  /\ OneRecoveryPerClaim
  /\ AttemptsNotOverstated
  /\ BuriedOnlyWhenSpent

-----------------------------------------------------------------------------
(* What holds when ticks do not overlap (one worker at a time).            *)

\* attempts counts every claim and every recovery.
AttemptsExact ==
  \A j \in Jobs : attempts[j] = claims[j] + recoveries[j]

\* A completed or failed row is never written again.
SettledIsFinal ==
  [][\A j \in Jobs : status[j] \in Settled => status'[j] = status[j]]_vars

\* "Only touches rows WHERE status = 'processing' AND updated_at < cutoff"
\* (background-jobs.ts:181).
RecoveryTouchesOnlyStuck ==
  [][\A j \in Jobs : recoveries'[j] # recoveries[j]
        => status[j] = "processing" /\ age[j] > StuckTimeout]_vars

\* "Base delay between retries: delay = min(MAX, BASE x attempts)"
\* (mdi-config.ts:27): no row is claimed before its run_after.
BackoffRespected ==
  [][\A j \in Jobs : claims'[j] # claims[j] => delay[j] = 0]_vars

\* Ticks do not overlap.
Serial == \A v, w \in Workers : v = w

\* The rows that the tick has selected are still as its SELECT saw them, and the
\* rows that it holds are processing.
FreshInv ==
  \A w \in Workers :
    /\ phase[w] \notin {"recovering", "claiming"} => todo[w] = {}
    /\ \A j \in Mine(w) : status[j] = "processing"
    /\ \A j \in todo[w] :
         /\ seen[w][j] = attempts[j]
         /\ phase[w] = "recovering" => status[j] = "processing" /\ age[j] > StuckTimeout
         /\ phase[w] = "claiming" => status[j] = "pending" /\ delay[j] = 0

SerialInv == FreshInv /\ AttemptsExact
=============================================================================
