------------------------------- MODULE OrderSync -------------------------------
(***************************************************************************)
(* The periodic sync of one merchant's account at a courier other than     *)
(* Yalidine, as ZR Express: runDeliverySync lists every parcel of the      *)
(* account, page by page, keeps what was created or has changed since the  *)
(* last run, writes it to delivery_orders row by row, and moves two        *)
(* checkpoints to the latest times that it saw.  A run that fails raises   *)
(* the account's streak of failures, which may suspend it.                 *)
(*                                                                         *)
(* Runs are jobs: the cron and the dashboard both ask for them, and        *)
(* nothing keeps two apart.  Each works with the account as it read it.    *)
(* A time is the place of a change among all changes of the account's      *)
(* parcels; a page holds one parcel, and no parcel moves between pages.    *)
(***************************************************************************)
EXTENDS Naturals

CONSTANTS
  Deliveries,    \* the parcels that the account has or will have
  Runs,          \* runs of the sync that may be under way at one time
  MaxAttempts,   \* maxAttempts
  StreakLimit,   \* failures in a row for a suspension
  MaxMoment      \* bound: changes of the parcels

ASSUME OrderBounds ==
  MaxAttempts \in Nat \ {0} /\ StreakLimit \in Nat \ {0} /\ MaxMoment \in Nat

VARIABLES
  moment,        \* the time of the last change at the courier
  createdAt,     \* createdAt[p]: 0 as long as there is no such parcel
  updatedAt,     \* updatedAt[p]: lastStateUpdateAt
  orderRow,      \* orderRow[p]: the revision in delivery_orders, 0 for no row
  lastCreated,   \* last_created_at_synced, 0 for NULL
  lastUpdated,   \* last_state_update_at_synced
  streak,        \* failure_streak, up to StreakLimit
  suspended,     \* suspended_until is to come
  doing,         \* doing[r]: what the run r does
  attempt,       \* attempt[r]: attempts
  sinceCreated,  \* sinceCreated[r]: the checkpoints as it found them
  sinceUpdated,
  streakFound,   \* streakFound[r]: failureStreak
  unread,        \* unread[r]: pages it has not read
  latestCreated, \* latestCreated[r]: the latest times it has seen
  latestUpdated,
  listedRow,     \* listedRow[r][p]: the revision it is to write, 0 for none
  refusals,      \* history: runs in a row, up to StreakLimit, that failed for the
                 \* credentials, since the merchant saved the account
  slips          \* history: <<mark, p>>, see SlipMark

parcels == <<moment, createdAt, updatedAt>>
checkpoints == <<lastCreated, lastUpdated>>
account == <<streak, suspended, refusals>>
found == <<sinceCreated, sinceUpdated, streakFound>>
listing == <<unread, latestCreated, latestUpdated>>
runState == <<doing, attempt, found, listing, listedRow>>
orderVars == <<parcels, orderRow, checkpoints, account, runState, slips>>

\* moved: the parcel changed, or came to be, when a run had read its page and not
\* yet all of them.  dropped: its row could not be written; the run goes on.
\* crossed: a run wrote an older revision over a newer one.
SlipMark == {"moved", "dropped", "crossed"}

Moment == 0..MaxMoment

OrderTypeOK ==
  /\ moment \in Moment /\ lastCreated \in Moment /\ lastUpdated \in Moment
  /\ createdAt \in [Deliveries -> Moment]
  /\ updatedAt \in [Deliveries -> Moment]
  /\ orderRow \in [Deliveries -> Moment]
  /\ streak \in 0..StreakLimit /\ refusals \in 0..StreakLimit
  /\ suspended \in BOOLEAN
  /\ doing \in [Runs -> {"idle", "list", "store", "after"}]
  /\ attempt \in [Runs -> 0..MaxAttempts]
  /\ sinceCreated \in [Runs -> Moment] /\ sinceUpdated \in [Runs -> Moment]
  /\ streakFound \in [Runs -> 0..StreakLimit]
  /\ unread \in [Runs -> SUBSET Deliveries]
  /\ latestCreated \in [Runs -> Moment] /\ latestUpdated \in [Runs -> Moment]
  /\ listedRow \in [Runs -> [Deliveries -> Moment]]
  /\ slips \subseteq SlipMark \X Deliveries

Nothing == [p \in Deliveries |-> 0]

OrderInit ==
  /\ moment = 0 /\ lastCreated = 0 /\ lastUpdated = 0
  /\ createdAt = Nothing /\ updatedAt = Nothing /\ orderRow = Nothing
  /\ streak = 0 /\ refusals = 0 /\ suspended = FALSE
  /\ doing = [r \in Runs |-> "idle"]
  /\ attempt = [r \in Runs |-> 0]
  /\ sinceCreated = [r \in Runs |-> 0] /\ sinceUpdated = [r \in Runs |-> 0]
  /\ streakFound = [r \in Runs |-> 0]
  /\ unread = [r \in Runs |-> {}]
  /\ latestCreated = [r \in Runs |-> 0] /\ latestUpdated = [r \in Runs |-> 0]
  /\ listedRow = [r \in Runs |-> Nothing]
  /\ slips = {}

Later(s, t) == IF s > t THEN s ELSE t

-----------------------------------------------------------------------------
(* The courier, the merchant and time.                                     *)

\* Some run has read the page of the parcel, and has pages to read.
Passed(p) == \E r \in Runs : doing[r] = "list" /\ p \notin unread[r]

\* The parcel is made, or its state changes.
Progress(p) ==
  /\ moment < MaxMoment
  /\ moment' = moment + 1
  /\ createdAt' = [createdAt EXCEPT ![p] = IF @ = 0 THEN moment + 1 ELSE @]
  /\ updatedAt' = [updatedAt EXCEPT ![p] = moment + 1]
  /\ slips' = IF Passed(p) THEN slips \union {<<"moved", p>>} ELSE slips
  /\ UNCHANGED <<orderRow, checkpoints, account, runState>>

\* upsertDeliveryAccount: the merchant saves the account.
SaveAccount ==
  /\ streak' = 0 /\ suspended' = FALSE /\ refusals' = 0
  /\ UNCHANGED <<parcels, orderRow, checkpoints, runState, slips>>

\* Twenty-four hours pass.
LiftSuspension ==
  /\ suspended
  /\ suspended' = FALSE
  /\ UNCHANGED <<parcels, orderRow, checkpoints, streak, refusals, runState, slips>>

-----------------------------------------------------------------------------
(* runDeliverySync.                                                        *)

\* An attempt begins at the first page with what is known from the account.
StartListing(r, created, updated) ==
  /\ doing' = [doing EXCEPT ![r] = "list"]
  /\ unread' = [unread EXCEPT ![r] = Deliveries]
  /\ latestCreated' = [latestCreated EXCEPT ![r] = created]
  /\ latestUpdated' = [latestUpdated EXCEPT ![r] = updated]

\* The account is read; a suspended one is skipped.  A full sync, and one without
\* checkpoints, knows of no earlier run.
ReadAccount(r) ==
  /\ doing[r] = "idle" /\ ~suspended
  /\ \E full \in BOOLEAN :
       LET created == IF full THEN 0 ELSE lastCreated
           updated == IF full THEN 0 ELSE lastUpdated
       IN  /\ sinceCreated' = [sinceCreated EXCEPT ![r] = created]
           /\ sinceUpdated' = [sinceUpdated EXCEPT ![r] = updated]
           /\ StartListing(r, created, updated)
  /\ attempt' = [attempt EXCEPT ![r] = 1]
  /\ streakFound' = [streakFound EXCEPT ![r] = streak]
  /\ UNCHANGED <<parcels, orderRow, checkpoints, account, listedRow, slips>>

\* shouldKeepParcel
Keeps(r, p) ==
  \/ sinceCreated[r] = 0 /\ sinceUpdated[r] = 0
  \/ createdAt[p] >= sinceCreated[r]
  \/ updatedAt[p] >= sinceUpdated[r]

\* syncOrders reads a page; the latest times are taken of every parcel on it.
FetchPage(r, p) ==
  /\ doing[r] = "list" /\ p \in unread[r]
  /\ unread' = [unread EXCEPT ![r] = @ \ {p}]
  /\ latestCreated' = [latestCreated EXCEPT ![r] = Later(@, createdAt[p])]
  /\ latestUpdated' = [latestUpdated EXCEPT ![r] = Later(@, updatedAt[p])]
  /\ listedRow' = [listedRow EXCEPT ![r][p] = IF Keeps(r, p) THEN updatedAt[p] ELSE 0]
  /\ doing' = IF unread[r] = {p} THEN [doing EXCEPT ![r] = "store"] ELSE doing
  /\ UNCHANGED <<parcels, orderRow, checkpoints, account, attempt, found, slips>>

\* upsertDeliveryOrder overwrites.
StoreOrder(r, p) ==
  /\ doing[r] = "store" /\ listedRow[r][p] # 0
  /\ orderRow' = [orderRow EXCEPT ![p] = listedRow[r][p]]
  /\ listedRow' = [listedRow EXCEPT ![r][p] = 0]
  /\ slips' = IF orderRow[p] > listedRow[r][p] THEN slips \union {<<"crossed", p>>} ELSE slips
  /\ UNCHANGED <<parcels, checkpoints, account, doing, attempt, found, listing>>

DropOrder(r, p) ==
  /\ doing[r] = "store" /\ listedRow[r][p] # 0
  /\ listedRow' = [listedRow EXCEPT ![r][p] = 0]
  /\ slips' = slips \union {<<"dropped", p>>}
  /\ UNCHANGED <<parcels, orderRow, checkpoints, account, doing, attempt, found, listing>>

\* Slip: the checkpoints are the time of the UPDATE.
FinishAtNow(r) ==
  /\ doing[r] = "store" /\ listedRow[r] = Nothing
  /\ lastCreated' = moment /\ lastUpdated' = moment
  /\ streak' = 0 /\ suspended' = FALSE /\ refusals' = 0
  /\ streakFound' = [streakFound EXCEPT ![r] = 0]
  /\ doing' = [doing EXCEPT ![r] = "after"]
  /\ UNCHANGED <<parcels, orderRow, attempt, sinceCreated, sinceUpdated, listing, listedRow,
                 slips>>

\* A checkpoint of no time at all is undefined, and the UPDATE leaves it out.
Checkpoint(last, t) == IF t = 0 THEN last ELSE t

\* The UPDATE of the account after a run that was listed to its end, whether or
\* not every row could be written.
FinishOrders(r) ==
  /\ doing[r] = "store" /\ listedRow[r] = Nothing
  /\ lastCreated' = Checkpoint(lastCreated, latestCreated[r])
  /\ lastUpdated' = Checkpoint(lastUpdated, latestUpdated[r])
  /\ streak' = 0 /\ suspended' = FALSE /\ refusals' = 0
  /\ streakFound' = [streakFound EXCEPT ![r] = 0]
  /\ doing' = [doing EXCEPT ![r] = "after"]
  /\ UNCHANGED <<parcels, orderRow, attempt, sinceCreated, sinceUpdated, listing, listedRow,
                 slips>>

ForgetRun(r) ==
  /\ doing' = [doing EXCEPT ![r] = "idle"]
  /\ attempt' = [attempt EXCEPT ![r] = 0]
  /\ sinceCreated' = [sinceCreated EXCEPT ![r] = 0]
  /\ sinceUpdated' = [sinceUpdated EXCEPT ![r] = 0]
  /\ streakFound' = [streakFound EXCEPT ![r] = 0]
  /\ unread' = [unread EXCEPT ![r] = {}]
  /\ latestCreated' = [latestCreated EXCEPT ![r] = 0]
  /\ latestUpdated' = [latestUpdated EXCEPT ![r] = 0]
  /\ listedRow' = [listedRow EXCEPT ![r] = Nothing]

\* What follows the UPDATE: attention required, market intelligence.
CloseRun(r) ==
  /\ doing[r] = "after"
  /\ ForgetRun(r)
  /\ UNCHANGED <<parcels, orderRow, checkpoints, account, slips>>

\* The courier's answers and what follows the UPDATE may throw; the rows do not.
Throws(r) == doing[r] \in {"list", "after"}

\* Every page is read again; the latest times of the attempt that threw stay, and
\* are never later than those of the next, which are thus taken afresh.
Retry(r) ==
  /\ Throws(r) /\ attempt[r] < MaxAttempts
  /\ attempt' = [attempt EXCEPT ![r] = @ + 1]
  /\ StartListing(r, sinceCreated[r], sinceUpdated[r])
  /\ listedRow' = [listedRow EXCEPT ![r] = Nothing]
  /\ UNCHANGED <<parcels, orderRow, checkpoints, account, found, slips>>

OneMore(n) == IF n < StreakLimit THEN n + 1 ELSE n

\* The failure is counted from the streak as the run found it.
CountFailure(r) ==
  /\ streak' = OneMore(streakFound[r])
  /\ ForgetRun(r)
  /\ UNCHANGED <<parcels, orderRow, checkpoints, slips>>

\* The last attempt throws: credentials that are refused suspend the account
\* once the streak is long enough, any other error takes a suspension back.
FailRun(r) ==
  /\ Throws(r) /\ attempt[r] = MaxAttempts
  /\ \/ /\ suspended' = (OneMore(streakFound[r]) >= StreakLimit)
        /\ refusals' = OneMore(refusals)
     \/ suspended' = FALSE /\ refusals' = 0
  /\ CountFailure(r)

\* detectPlaceholderCredentials, before the first attempt.
RefusePlaceholders(r) ==
  /\ doing[r] = "list" /\ attempt[r] = 1 /\ unread[r] = Deliveries
  /\ CountFailure(r)
  /\ refusals' = OneMore(refusals)
  /\ UNCHANGED suspended

DieRun(r) ==
  /\ doing[r] # "idle"
  /\ ForgetRun(r)
  /\ UNCHANGED <<parcels, orderRow, checkpoints, account, slips>>

OrderNext ==
  \/ \E p \in Deliveries : Progress(p)
  \/ SaveAccount \/ LiftSuspension
  \/ \E r \in Runs :
       \/ \E p \in Deliveries : FetchPage(r, p) \/ StoreOrder(r, p) \/ DropOrder(r, p)
       \/ ReadAccount(r) \/ FinishOrders(r) \/ CloseRun(r)
       \/ Retry(r) \/ FailRun(r) \/ RefusePlaceholders(r) \/ DieRun(r)

OrderSpec == OrderInit /\ [][OrderNext]_orderVars

-----------------------------------------------------------------------------
(* Properties.                                                             *)

Slipped(p) == \E k \in SlipMark : <<k, p>> \in slips

\* A parcel whose row is not what the courier has is kept by the next run, however
\* runs overlap, fail, are tried again or move the checkpoints back; but for the
\* parcels marked.  The checkpoint is the latest time seen, with nothing to spare
\* (sync.ts:638, zr-express-adapter.ts:676).
LateOrdersKept ==
  lastUpdated # 0 =>
    \A p \in Deliveries :
      orderRow[p] # updatedAt[p] =>
        \/ updatedAt[p] >= lastUpdated
        \/ createdAt[p] >= lastCreated
        \/ Slipped(p)

\* "credentials failed 3 consecutive times" (sync.ts:836): when an account is
\* suspended, that many runs in a row have failed for its credentials since a run
\* succeeded or the merchant saved it.
SuspendedForCredentials == suspended => refusals = StreakLimit

-----------------------------------------------------------------------------
(* The inductive invariant the proofs rest on.                             *)

\* Nothing is known of a later time than it is, and no revision of a parcel is
\* later than its last.
TimeInv ==
  /\ lastCreated <= moment /\ lastUpdated <= moment
  /\ \A p \in Deliveries :
       createdAt[p] <= updatedAt[p] /\ updatedAt[p] <= moment /\ orderRow[p] <= updatedAt[p]
  /\ \A r \in Runs :
       /\ sinceCreated[r] <= moment /\ sinceUpdated[r] <= moment
       /\ latestCreated[r] <= moment /\ latestUpdated[r] <= moment
       /\ \A p \in Deliveries : listedRow[r][p] <= updatedAt[p]
       /\ doing[r] = "store" => unread[r] = {}

\* The two times that are known of an account, a parcel or a run are known together.
PairInv ==
  /\ lastCreated = 0 <=> lastUpdated = 0
  /\ \A p \in Deliveries : createdAt[p] = 0 <=> updatedAt[p] = 0
  /\ \A r \in Runs : /\ sinceCreated[r] = 0 <=> sinceUpdated[r] = 0
                     /\ latestCreated[r] = 0 <=> latestUpdated[r] = 0

\* The parcel is kept by a run that finds these checkpoints.
KeptSince(p, created, updated) == createdAt[p] >= created \/ updatedAt[p] >= updated

\* A parcel that is behind is kept by every run under way.  One that has read its
\* page is to write it, or has seen no later time and leaves it to the next run.
ListInv ==
  \A r \in Runs, p \in Deliveries :
    orderRow[p] # updatedAt[p] /\ ~Slipped(p) =>
      /\ KeptSince(p, sinceCreated[r], sinceUpdated[r])
      /\ doing[r] \in {"list", "store"} /\ p \notin unread[r] =>
           \/ listedRow[r][p] = updatedAt[p]
           \/ doing[r] = "store" /\ KeptSince(p, latestCreated[r], latestUpdated[r])

OrderInv == OrderTypeOK /\ TimeInv /\ PairInv /\ ListInv /\ LateOrdersKept
=============================================================================
