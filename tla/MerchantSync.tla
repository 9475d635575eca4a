---------------------------- MODULE MerchantSync ----------------------------
(***************************************************************************)
(* The download of one merchant's courier prices, origin by origin, and    *)
(* its only row in merchant_delivery_sync_status.                          *)
(*                                                                         *)
(* syncMerchantDeliveryCache holds a lock and a cancellation flag in the   *)
(* memory of its process; everything else that outlives an await is in the *)
(* row.  Other processes start, stop and retry the same merchant and see   *)
(* the row only.  A run that dies leaves the row running; once the row's   *)
(* heartbeat is stale the next run of all origins resumes it.  The client  *)
(* returns the error of a read or a write and nobody looks at it: a run    *)
(* goes on as if the lost write had been made.                             *)
(*                                                                         *)
(* The start routes ask the row first whether a run is under way.  Between *)
(* that read and the start they await the body of the request, and the     *)
(* background job, the plugin and the set-up of an account start without   *)
(* asking, so the model lets every start through to the lock.  A start     *)
(* that finds the lock taken changes nothing and is no step.               *)
(***************************************************************************)
EXTENDS Naturals

CONSTANTS
  Processes,   \* processes of the application
  Origins,     \* the wilayas that prices are asked from, 58 in the code
  MaxAsks,     \* bound: starts, stops and retries in one behaviour
  MaxFaults    \* bound: crashes and lost calls in one behaviour

ASSUME BoundsAssumption == MaxAsks \in Nat /\ MaxFaults \in Nat

VARIABLES
  \* the row
  status,      \* "none" before the row exists
  stage,       \* sync_stage
  listed,      \* origins_synced
  failed,      \* origins_failed
  cancel,      \* cancel_requested
  fresh,       \* last_heartbeat_at is at most STALE_LOCK_MS old
  \* the run of each process
  at,          \* at[p]: what the run of p does next, "idle" without the lock
  geo,         \* geo[p]: the run downloads the geography as well
  todo,        \* todo[p]: origins the run has not finished
  done,        \* done[p]: syncedOrigins
  bad,         \* bad[p]: failedOrigins
  flag,        \* flag[p]: cancelRequested in the memory of p
  \* calls of each process that wait for the database
  beat,        \* beat[p]: the heartbeat of p, "stop" when its answer says so
  stopping,    \* stopping[p]: a stop request of p has its answer on the way
  retry,       \* retry[p]: how far a retry request of p has come
  again,       \* again[p]: the failed origins it read
  kept,        \* kept[p]: the synced origins it read
  \* the environment
  asks, faults,
  \* history, read by no guard
  stored,      \* origins fetched without a gap since the row was last reset
  gaps,        \* those fetched with a destination skipped or dropped
  asked,       \* asked[p]: the origins that the run of p has to account for
  promise,     \* promise[p]: whether p's run was told to stop, and when
  marks        \* which of Mark have come to pass

row == <<status, stage, listed, failed, cancel, fresh>>
run == <<at, geo, todo, done, bad, flag>>
calls == <<beat, stopping, retry, again, kept>>
bounds == <<asks, faults>>
history == <<stored, gaps, asked, promise, marks>>
rest == <<geo, todo, done, bad, flag, calls, bounds, history>>
vars == <<row, run, calls, bounds, history>>

\* The steps of a run after it has written its first mark in the row.
Marked ==
  {"opening", "geo", "pricing", "fetching", "noting", "checking", "finishing",
   "cancelling"}

Step == {"idle", "reading", "resuming", "marking"} \union Marked

\* overlap: the row was resumed or reset while another run or retry was under
\*   way.
\* late: a run started with an answer to an earlier one still on its way.
\* crash: a process died.
\* unmarked: the first mark of a run or of a retry was lost.
\* unended: the last mark of a run was lost.
Mark == {"overlap", "late", "crash", "unmarked", "unended"}

\* What a caller may ask of syncMerchantDeliveryCache: no list of origins means
\* all of them, or none when prices are to be skipped.
Request ==
  {r \in [geo : BOOLEAN, whole : BOOLEAN, scope : SUBSET Origins] :
     r.whole => r.scope \in {Origins, {}}}

TypeOK ==
  /\ status \in {"none", "running", "success", "partial", "failed", "cancelled"}
  /\ stage \in {"none", "geo", "prices"}
  /\ listed \subseteq Origins /\ failed \subseteq Origins
  /\ cancel \in BOOLEAN /\ fresh \in BOOLEAN
  /\ at \in [Processes -> Step]
  /\ geo \in [Processes -> BOOLEAN]
  /\ todo \in [Processes -> SUBSET Origins]
  /\ done \in [Processes -> SUBSET Origins]
  /\ bad \in [Processes -> SUBSET Origins]
  /\ flag \in [Processes -> BOOLEAN]
  /\ beat \in [Processes -> {"none", "sent", "stop"}]
  /\ stopping \in [Processes -> BOOLEAN]
  /\ retry \in [Processes -> {"none", "read", "sent", "marked"}]
  /\ again \in [Processes -> SUBSET Origins]
  /\ kept \in [Processes -> SUBSET Origins]
  /\ asks \in 0..MaxAsks /\ faults \in 0..MaxFaults
  /\ stored \subseteq Origins /\ gaps \subseteq Origins
  /\ asked \in [Processes -> SUBSET Origins]
  /\ promise \in [Processes -> {"none", "early", "live", "wiped"}]
  /\ marks \subseteq Mark

Each(x) == [p \in Processes |-> x]

Init ==
  /\ status = "none" /\ stage = "none" /\ listed = {} /\ failed = {}
  /\ cancel = FALSE /\ fresh = FALSE
  /\ at = Each("idle") /\ geo = Each(FALSE) /\ flag = Each(FALSE)
  /\ todo = Each({}) /\ done = Each({}) /\ bad = Each({})
  /\ beat = Each("none") /\ stopping = Each(FALSE)
  /\ retry = Each("none") /\ again = Each({}) /\ kept = Each({})
  /\ asks = 0 /\ faults = 0
  /\ stored = {} /\ gaps = {} /\ asked = Each({})
  /\ promise = Each("none") /\ marks = {}

Ask == asks < MaxAsks /\ asks' = asks + 1

Fault == faults < MaxFaults /\ faults' = faults + 1

Goto(p, s) == at' = [at EXCEPT ![p] = s]

-----------------------------------------------------------------------------
(* syncMerchantDeliveryCache up to its first write.                        *)

\* The lock is taken and the flag is cleared; no await between the two.
TakeLock(p, s, r) ==
  /\ at[p] = "idle"
  /\ Goto(p, s)
  /\ geo' = [geo EXCEPT ![p] = r.geo]
  /\ todo' = [todo EXCEPT ![p] = r.scope]
  /\ done' = [done EXCEPT ![p] = {}]
  /\ bad' = [bad EXCEPT ![p] = {}]
  /\ flag' = [flag EXCEPT ![p] = FALSE]
  /\ asked' = [asked EXCEPT ![p] = r.scope]
  /\ marks' = IF beat[p] = "none" /\ ~stopping[p] THEN marks ELSE marks \union {"late"}

Start(p, r) ==
  /\ Ask
  /\ TakeLock(p, IF r.whole THEN "reading" ELSE "marking", r)
  /\ promise' = [promise EXCEPT ![p] = "none"]
  /\ UNCHANGED <<row, calls, faults, stored, gaps>>

\* readSyncStateForResume: the row was left running by a run that is dead.
Resumable == status = "running" /\ ~fresh /\ stage = "prices" /\ listed # {}

\* The run that is resumed may be alive, its heartbeats failing.
Seen(p) ==
  IF \E q \in Processes \ {p} : at[q] # "idle" THEN marks \union {"overlap"} ELSE marks

ReadState(p) ==
  /\ at[p] = "reading"
  /\ \/ /\ Resumable
        /\ Goto(p, "resuming")
        /\ done' = [done EXCEPT ![p] = listed]
        /\ todo' = [todo EXCEPT ![p] = @ \ listed]
        /\ asked' = [asked EXCEPT ![p] = @ \union listed]
        /\ marks' = Seen(p)
     \/ ~Resumable /\ Goto(p, "marking") /\ UNCHANGED <<done, todo, asked, marks>>
  /\ UNCHANGED <<row, geo, bad, flag, calls, bounds, stored, gaps, promise>>

\* The upsert that opens a run or a retry.
Reset(s, origins) ==
  /\ status' = "running" /\ stage' = s
  /\ listed' = origins /\ failed' = {}
  /\ cancel' = FALSE /\ fresh' = TRUE

\* Another run or retry is under way, and the row is taken from it.
Crowded(p) ==
  \/ \E q \in Processes \ {p} : at[q] # "idle"
  \/ \E q \in Processes : retry[q] # "none"

\* A mark that writes cancel_requested: false takes the stop from every run
\* under way that was told to.
Wiped ==
  [q \in Processes |->
     IF promise[q] = "live" /\ at[q] \in Marked THEN "wiped" ELSE promise[q]]

\* The run of p has written its first mark and goes on with s.
Opened(p, s) ==
  /\ Goto(p, s)
  /\ promise' = Wiped
  /\ marks' = IF Crowded(p) THEN marks \union {"overlap"} ELSE marks
  /\ UNCHANGED <<geo, todo, done, bad, flag, calls, bounds, asked>>

\* Slip: a stop that was asked for earlier stays in the row.
MarkRunningKeepCancel(p) ==
  /\ at[p] = "marking"
  /\ status' = "running" /\ stage' = "geo"
  /\ listed' = {} /\ failed' = {}
  /\ fresh' = TRUE /\ UNCHANGED cancel
  /\ stored' = {} /\ gaps' = {}
  /\ Opened(p, "geo")

\* Slip: the lists of the previous run are kept.
MarkRunningKeepLists(p) ==
  /\ at[p] = "marking"
  /\ Reset("geo", listed)
  /\ stored' = {} /\ gaps' = {}
  /\ Opened(p, "geo")

MarkRunning(p) ==
  /\ at[p] = "marking"
  /\ Reset("geo", {})
  /\ stored' = {} /\ gaps' = {}
  /\ Opened(p, "geo")

\* Slip: the resumed origins are dropped from the row.
MarkResumingEmpty(p) ==
  /\ at[p] = "resuming"
  /\ Reset("prices", {})
  /\ Opened(p, "opening")
  /\ UNCHANGED <<stored, gaps>>

MarkResuming(p) ==
  /\ at[p] = "resuming"
  /\ Reset("prices", done[p])
  /\ Opened(p, "opening")
  /\ UNCHANGED <<stored, gaps>>

-----------------------------------------------------------------------------
(* The run.                                                                *)

\* The credentials of a resumed run are there; it downloads no geography.
PickCredentials(p) ==
  /\ at[p] = "opening"
  /\ Goto(p, "pricing")
  /\ UNCHANGED <<row, rest>>

\* markFailed: no credentials, or the geography was cancelled or failed.
MarkFailed(p) ==
  /\ at[p] \in {"opening", "geo"}
  /\ status' = "failed" /\ stage' = "none"
  /\ Goto(p, "idle")
  /\ UNCHANGED <<listed, failed, cancel, fresh, rest>>

\* The geography is stored, or is only counted when it is to be skipped.
MarkStageGeo(p) ==
  /\ at[p] = "geo"
  /\ ~(geo[p] /\ flag[p])
  /\ stage' = "prices"
  /\ Goto(p, "pricing")
  /\ UNCHANGED <<status, listed, failed, cancel, fresh, rest>>

\* The next origin of the list.
NextOrigin(p) ==
  /\ at[p] = "pricing" /\ todo[p] # {} /\ ~flag[p]
  /\ Goto(p, "fetching")
  /\ UNCHANGED <<row, rest>>

\* syncMerchantPricesForOrigin asks for every destination of origin o and
\* returns although some were skipped or their prices dropped.
FetchOrigin(p, o) ==
  /\ at[p] = "fetching" /\ o \in todo[p] /\ ~flag[p]
  /\ Goto(p, "noting")
  /\ todo' = [todo EXCEPT ![p] = @ \ {o}]
  /\ done' = [done EXCEPT ![p] = @ \union {o}]
  /\ \/ stored' = stored \union {o} /\ UNCHANGED gaps
     \/ gaps' = gaps \union {o} /\ UNCHANGED stored
  /\ UNCHANGED <<row, geo, bad, flag, calls, bounds, asked, promise, marks>>

\* CancellationError: the origin counts neither as synced nor as failed.
CancelOrigin(p) ==
  /\ at[p] = "fetching" /\ flag[p]
  /\ Goto(p, "checking")
  /\ UNCHANGED <<row, rest>>

\* Slip: only the origins after the one that met the limit are kept for later.
ExhaustQuotaRest(p) ==
  /\ at[p] = "fetching"
  /\ Goto(p, "checking")
  /\ \E o \in todo[p] : bad' = [bad EXCEPT ![p] = @ \union (todo[p] \ {o})]
  /\ todo' = [todo EXCEPT ![p] = {}]
  /\ UNCHANGED <<row, geo, done, flag, calls, bounds, history>>

\* QuotaExhaustedError: this origin and the rest of the list count as failed.
\* It is the only error that does: all others are skipped with a destination.
ExhaustQuota(p) ==
  /\ at[p] = "fetching"
  /\ Goto(p, "checking")
  /\ bad' = [bad EXCEPT ![p] = @ \union todo[p]]
  /\ todo' = [todo EXCEPT ![p] = {}]
  /\ UNCHANGED <<row, geo, done, flag, calls, bounds, history>>

MarkOriginProgress(p) ==
  /\ at[p] = "noting"
  /\ listed' = done[p] /\ failed' = bad[p]
  /\ Goto(p, "pricing")
  /\ UNCHANGED <<status, stage, cancel, fresh, rest>>

\* The loop is over.
LeaveLoop(p) ==
  /\ at[p] = "pricing" /\ (flag[p] \/ todo[p] = {})
  /\ Goto(p, "checking")
  /\ UNCHANGED <<row, rest>>

Conclude(p) ==
  /\ at[p] = "checking"
  /\ Goto(p, IF flag[p] THEN "cancelling" ELSE "finishing")
  /\ UNCHANGED <<row, rest>>

MarkDone(p) ==
  /\ at[p] = "finishing"
  /\ status' = CASE bad[p] = {}                    -> "success"
                 [] bad[p] # {} /\ done[p] = {}    -> "failed"
                 [] bad[p] # {} /\ done[p] # {}    -> "partial"
  /\ stage' = "none" /\ listed' = done[p] /\ failed' = bad[p]
  /\ Goto(p, "idle")
  /\ UNCHANGED <<cancel, fresh, rest>>

\* Slip: a status that the column's constraint does not know.
MarkCancelledMisspelt(p) ==
  /\ at[p] = "cancelling"
  /\ status' = "canceled" /\ stage' = "none"
  /\ cancel' = FALSE /\ fresh' = FALSE
  /\ Goto(p, "idle")
  /\ promise' = Wiped
  /\ UNCHANGED <<listed, failed, geo, todo, done, bad, flag, calls, bounds, stored,
                 gaps, asked, marks>>

MarkCancelled(p) ==
  /\ at[p] = "cancelling"
  /\ status' = "cancelled" /\ stage' = "none"
  /\ cancel' = FALSE /\ fresh' = FALSE
  /\ Goto(p, "idle")
  /\ promise' = Wiped
  /\ UNCHANGED <<listed, failed, geo, todo, done, bad, flag, calls, bounds, stored,
                 gaps, asked, marks>>

-----------------------------------------------------------------------------
(* updateHeartbeat, one of each process at a time in the model.            *)

SendHeartbeat(p) ==
  /\ at[p] \in Marked /\ beat[p] = "none"
  /\ beat' = [beat EXCEPT ![p] = "sent"]
  /\ UNCHANGED <<row, run, stopping, retry, again, kept, bounds, history>>

\* Slip: the heartbeat that finds the request takes it out of the row.
LandHeartbeatTaking(p) ==
  /\ beat[p] = "sent"
  /\ fresh' = TRUE /\ cancel' = FALSE
  /\ beat' = [beat EXCEPT ![p] = IF cancel THEN "stop" ELSE "none"]
  /\ UNCHANGED <<status, stage, listed, failed, run, stopping, retry, again, kept,
                 bounds, history>>

\* The write; its answer matters only when it says that a stop is wanted.
LandHeartbeat(p) ==
  /\ beat[p] = "sent"
  /\ fresh' = TRUE
  /\ beat' = [beat EXCEPT ![p] = IF cancel THEN "stop" ELSE "none"]
  /\ UNCHANGED <<status, stage, listed, failed, cancel, run, stopping, retry,
                 again, kept, bounds, history>>

AnswerHeartbeat(p) ==
  /\ beat[p] = "stop"
  /\ beat' = [beat EXCEPT ![p] = "none"]
  /\ flag' = [flag EXCEPT ![p] = TRUE]
  /\ UNCHANGED <<row, at, geo, todo, done, bad, stopping, retry, again, kept,
                 bounds, history>>

\* No heartbeat has landed for STALE_LOCK_MS: the run is dead, or its
\* heartbeats fail.
Expire ==
  /\ fresh
  /\ fresh' = FALSE
  /\ UNCHANGED <<status, stage, listed, failed, cancel, run, calls, bounds, history>>

-----------------------------------------------------------------------------
(* The stop route and retryMerchantFailedOrigins, one request of each on   *)
(* its way in each process at a time in the model.                         *)

\* Each run under way has been told to stop, before or after its first mark.
\* A retry whose mark is in the row counts as a run before its mark.
Told ==
  [q \in Processes |->
     CASE at[q] \in Marked -> "live"
       [] at[q] \notin Marked /\ (at[q] # "idle" \/ retry[q] = "marked") -> "early"
       [] OTHER -> promise[q]]

\* The UPDATE of the stop route returns the status; unless it is running the
\* request is refused, yet cancel_requested is set.
RequestStop(p) ==
  /\ Ask
  /\ status # "none" /\ ~stopping[p]
  /\ cancel' = TRUE
  /\ \/ status = "running" /\ stopping' = [stopping EXCEPT ![p] = TRUE] /\ promise' = Told
     \/ status # "running" /\ UNCHANGED <<stopping, promise>>
  /\ UNCHANGED <<status, stage, listed, failed, fresh, run, beat, retry, again, kept,
                 faults, stored, gaps, asked, marks>>

\* requestMerchantCancellation, once the UPDATE is answered.
AnswerStop(p) ==
  /\ stopping[p]
  /\ stopping' = [stopping EXCEPT ![p] = FALSE]
  /\ flag' = [flag EXCEPT ![p] = TRUE]
  /\ UNCHANGED <<row, at, geo, todo, done, bad, beat, retry, again, kept, bounds, history>>

ReadFailed(p) ==
  /\ Ask
  /\ retry[p] = "none" /\ failed # {}
  /\ retry' = [retry EXCEPT ![p] = "read"]
  /\ again' = [again EXCEPT ![p] = failed]
  /\ kept' = [kept EXCEPT ![p] = listed]
  /\ UNCHANGED <<row, run, beat, stopping, faults, history>>

CheckLock(p) ==
  /\ retry[p] = "read"
  /\ retry' = [retry EXCEPT ![p] = IF at[p] = "idle" THEN "sent" ELSE "none"]
  /\ UNCHANGED <<row, run, beat, stopping, again, kept, bounds, history>>

\* The row is reset for the retry, whatever is under way by now.
MarkRetryRunning(p) ==
  /\ retry[p] = "sent"
  /\ retry' = [retry EXCEPT ![p] = "marked"]
  /\ Reset("prices", kept[p])
  /\ marks' = IF \/ \E q \in Processes : at[q] # "idle"
                 \/ \E q \in Processes \ {p} : retry[q] # "none"
                THEN marks \union {"overlap"} ELSE marks
  /\ promise' = IF at[p] = "idle" THEN [Wiped EXCEPT ![p] = "none"] ELSE Wiped
  /\ UNCHANGED <<run, beat, stopping, again, kept, bounds, stored, gaps, asked>>

\* Slip: the retry gives up and leaves the row running.
DropRetry(p) ==
  /\ retry[p] = "marked"
  /\ retry' = [retry EXCEPT ![p] = "none"]
  /\ UNCHANGED <<row, run, beat, stopping, again, kept, bounds, history>>

\* The retry goes through the lock like any other run, or finds it taken.
RunRetry(p) ==
  /\ retry[p] = "marked"
  /\ retry' = [retry EXCEPT ![p] = "none"]
  /\ \/ /\ TakeLock(p, "marking", [geo |-> FALSE, scope |-> again[p]])
        /\ promise' = [promise EXCEPT ![p] = IF @ = "early" THEN @ ELSE "none"]
     \/ at[p] # "idle" /\ UNCHANGED <<run, asked, marks, promise>>
  /\ UNCHANGED <<row, beat, stopping, again, kept, bounds, stored, gaps>>

-----------------------------------------------------------------------------
(* Faults.                                                                 *)

\* A write of the run of p is lost with its error, or the read of the row is:
\* the run goes on, the row stays as it is.
Loses(p, here, next, seen) ==
  /\ at[p] = here /\ Goto(p, next)
  /\ marks' = marks \union seen

LoseMark(p) ==
  /\ Fault
  /\ \/ Loses(p, "reading", "marking", {})
     \/ Loses(p, "marking", "geo", {"unmarked"})
     \/ Loses(p, "resuming", "opening", {"unmarked"})
     \/ ~(geo[p] /\ flag[p]) /\ Loses(p, "geo", "pricing", {})
     \/ Loses(p, "noting", "pricing", {})
     \/ \E s \in {"opening", "geo", "finishing", "cancelling"} :
          Loses(p, s, "idle", {"unended"})
  /\ UNCHANGED <<row, geo, todo, done, bad, flag, calls, asks, stored, gaps, asked, promise>>

\* The mark of a retry is lost; the retry starts its run all the same.
LoseRetryMark(p) ==
  /\ Fault
  /\ retry[p] = "sent"
  /\ retry' = [retry EXCEPT ![p] = "marked"]
  /\ marks' = marks \union {"unmarked"}
  /\ UNCHANGED <<row, run, beat, stopping, again, kept, asks, stored, gaps, asked, promise>>

LoseHeartbeat(p) ==
  /\ Fault
  /\ beat[p] = "sent"
  /\ beat' = [beat EXCEPT ![p] = "none"]
  /\ UNCHANGED <<row, run, stopping, retry, again, kept, asks, history>>

\* The memory of p is gone, and a later run finds the row as it is.
Crash(p) ==
  /\ Fault
  /\ at[p] # "idle" \/ retry[p] # "none"
  /\ Goto(p, "idle")
  /\ flag' = [flag EXCEPT ![p] = FALSE]
  /\ beat' = [beat EXCEPT ![p] = "none"]
  /\ stopping' = [stopping EXCEPT ![p] = FALSE]
  /\ retry' = [retry EXCEPT ![p] = "none"]
  /\ marks' = marks \union {"crash"}
  /\ UNCHANGED <<row, geo, todo, done, bad, again, kept, asks, stored, gaps, asked, promise>>

Fail(p) == LoseMark(p) \/ LoseRetryMark(p) \/ LoseHeartbeat(p) \/ Crash(p)

Advance(p) ==
  \/ ReadState(p) \/ MarkRunning(p) \/ MarkResuming(p)
  \/ PickCredentials(p) \/ MarkFailed(p) \/ MarkStageGeo(p)
  \/ NextOrigin(p) \/ \E o \in Origins : FetchOrigin(p, o)
  \/ CancelOrigin(p) \/ ExhaustQuota(p) \/ MarkOriginProgress(p)
  \/ LeaveLoop(p) \/ Conclude(p) \/ MarkDone(p) \/ MarkCancelled(p)

Answer(p) ==
  \/ LandHeartbeat(p) \/ AnswerHeartbeat(p) \/ AnswerStop(p)
  \/ CheckLock(p) \/ MarkRetryRunning(p) \/ RunRetry(p)

Next ==
  \/ \E p \in Processes :
       \/ \E r \in Request : Start(p, r)
       \/ RequestStop(p) \/ ReadFailed(p) \/ SendHeartbeat(p)
       \/ Advance(p) \/ Answer(p) \/ Fail(p)
  \/ Expire

Spec == Init /\ [][Next]_vars

-----------------------------------------------------------------------------
(* Properties.                                                             *)

Overlapped == "overlap" \in marks

\* The row was taken from another run or retry, or a run writes in it that has
\* not marked it as its own.
Crossed == Overlapped \/ "unmarked" \in marks

\* The row lists an origin as synced only when it was fetched since the row was
\* last reset, across crashes, lost writes, resumed runs and retries, as long as
\* no run takes the row from another (the writes of progress name no run:
\* merchant-delivery-sync.ts:478-495).
SyncedIsFetched == Overlapped \/ listed \subseteq stored \union gaps

\* A run that writes its end accounts in the row for every origin it or the run
\* it resumed was asked for, each as synced or as failed, after a quota that
\* ends in the middle of the list too, and whatever other runs do to the row.
EndAccounts ==
  [][\A p \in Processes :
       at[p] = "finishing" /\ at'[p] = "idle" /\ faults' = faults =>
         /\ asked[p] = listed' \union failed'
         /\ listed' \intersect failed' = {}]_vars

\* A run is cancelled only if a stop was acknowledged while it was under way;
\* a stop for an earlier run does not end it, unless the answer of that stop or
\* of a heartbeat arrives late (the flag is one per process, not one per run),
\* or the mark that clears cancel_requested was lost or crossed.
CancelHasCause ==
  \A p \in Processes :
    at[p] = "cancelling" => promise[p] # "none" \/ "late" \in marks \/ Crossed

\* A stop acknowledged once the run has marked the row, by whichever process,
\* is in the row until the run is over, with any number of runs and retries
\* under way.  Nothing loses it except a first mark, a retry's mark or the
\* cancellation of another run, each of which writes cancel_requested: false
\* whoever it was meant for (merchant-delivery-sync.ts:341, 384, 587, 615); no
\* progress, heartbeat, end, failure, lost call or crash of any process does.
StopIsHeld ==
  \A p \in Processes : promise[p] = "live" /\ at[p] \in Marked => cancel

\* Progress is not lost to a crash, a resumed run, a quota, a stop or the mark of
\* a retry: the list of synced origins shrinks only at the first mark of a run
\* that does not resume (merchant-delivery-sync.ts:342).  The run of a retry is
\* one of these: it drops the list that the retry's own mark had kept.
ProgressKept ==
  [][\/ listed \subseteq listed'
     \/ \E p \in Processes : at[p] = "marking" /\ at'[p] = "geo"
     \/ Crossed']_vars

\* A row that says running has a run behind it, or the mark of a retry that is
\* about to start one, unless a process died or the last mark of a run was lost:
\* no order of runs, stops and retries leaves a running row to nobody.
RunningRowHasRun ==
  status = "running" =>
    \/ \E p \in Processes : at[p] # "idle" \/ retry[p] = "marked"
    \/ marks \intersect {"crash", "unended"} # {}

\* "Cancellation requested.  The sync will stop after completing the current
\* operation." (stop/route.ts:41): once the request is answered, the run that
\* was told begins no further origin.
StopIsKept ==
  [][\A p \in Processes :
       at[p] = "pricing" /\ promise[p] # "none" /\ ~stopping[p] =>
         at'[p] # "fetching"]_vars

\* "Resume: skip origins already fully committed in a previous run."
\* (merchant-delivery-sync.ts:942).
ResumeSkipsCommitted ==
  [][\A p \in Processes :
       at[p] = "reading" /\ at'[p] = "resuming" => done'[p] \subseteq stored]_vars

-----------------------------------------------------------------------------
(* The inductive invariant the proofs rest on.                             *)

\* What a run has done and has to do, whatever happens to the row.
RunInv ==
  \A p \in Processes : at[p] # "idle" =>
    /\ asked[p] = todo[p] \union done[p] \union bad[p]
    /\ todo[p] \intersect done[p] = {} /\ done[p] \intersect bad[p] = {}
    /\ at[p] \in {"reading", "marking"} => done[p] = {}
    /\ at[p] \notin {"checking", "finishing", "cancelling"} => bad[p] = {}
    /\ at[p] = "checking" => flag[p] \/ todo[p] = {}
    /\ at[p] = "finishing" => todo[p] = {}
    /\ at[p] = "cancelling" => flag[p]

\* No run has been told to stop after its mark before it has made it.
PromiseInv ==
  \A p \in Processes :
    at[p] \in {"reading", "marking", "resuming"} => promise[p] \in {"none", "early"}

\* Every list of synced origins, in the row or in a memory, is of fetched ones.
FetchedInv ==
  /\ SyncedIsFetched
  /\ Overlapped \/ \A p \in Processes :
       /\ at[p] # "idle" => done[p] \subseteq stored \union gaps
       /\ retry[p] \in {"read", "sent"} => kept[p] \subseteq stored \union gaps

\* One run has marked the row, no retry has marked it since, and it shows so.
SoleInv ==
  /\ status = "running" => failed = {}
  /\ \A p \in Processes : at[p] \in Marked =>
       /\ status = "running" /\ listed \subseteq done[p]
       /\ \A q \in Processes : retry[q] # "marked" /\ (at[q] \in Marked => q = p)

\* What a resumed run or a retry has read still stands.
StandInv ==
  \A p \in Processes :
    /\ at[p] = "resuming" =>
         done[p] = listed /\ \A q \in Processes : at[q] \notin Marked
    /\ retry[p] \in {"read", "sent"} =>
         kept[p] = listed /\ \A q \in Processes : at[q] \notin Marked

\* Every trace of a wish to stop is of a stop that the run was told of.
CauseInv ==
  \A p \in Processes :
    /\ at[p] \in Marked /\ cancel => promise[p] # "none"
    /\ at[p] # "idle" /\ (flag[p] \/ beat[p] = "stop" \/ stopping[p]) =>
         promise[p] # "none" \/ "late" \in marks
    /\ at[p] # "idle" /\ beat[p] # "none" => at[p] \in Marked \/ "late" \in marks

\* What holds as long as the row is not Crossed.
Order == SoleInv /\ StandInv /\ CauseInv

IInv ==
  /\ TypeOK
  /\ RunInv /\ PromiseInv /\ FetchedInv
  /\ StopIsHeld /\ RunningRowHasRun
  /\ (Crossed \/ Order)
=============================================================================
