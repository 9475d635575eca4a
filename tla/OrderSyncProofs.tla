--------------------------- MODULE OrderSyncProofs ---------------------------
(***************************************************************************)
(* Proofs about OrderSync, for every set of parcels and of overlapping     *)
(* runs, every number of attempts and every limit of the streak.           *)
(***************************************************************************)
EXTENDS OrderSync, TLAPS

-----------------------------------------------------------------------------
(* The helpers, and what a run reads from the account.                     *)

LEMMA LaterIsMax ==
  ASSUME NEW s \in Nat, NEW t \in Nat
  PROVE  Later(s, t) \in {s, t} /\ Later(s, t) >= s /\ Later(s, t) >= t
BY DEF Later

\* No count of failures goes beyond the limit.
LEMMA OneMoreInRange ==
  ASSUME NEW n \in 0..StreakLimit
  PROVE  OneMore(n) \in 0..StreakLimit
BY OrderBounds DEF OneMore

\* A full sync begins at no time, any other at the checkpoints.
LEMMA ReadAccountFrom ==
  ASSUME NEW r \in Runs, ReadAccount(r)
  PROVE  \E s, t :
           /\ \/ s = 0 /\ t = 0
              \/ s = lastCreated /\ t = lastUpdated
           /\ sinceCreated' = [sinceCreated EXCEPT ![r] = s]
           /\ sinceUpdated' = [sinceUpdated EXCEPT ![r] = t]
           /\ StartListing(r, s, t)
<1>1. PICK full \in BOOLEAN :
        LET created == IF full THEN 0 ELSE lastCreated
            updated == IF full THEN 0 ELSE lastUpdated
        IN  /\ sinceCreated' = [sinceCreated EXCEPT ![r] = created]
            /\ sinceUpdated' = [sinceUpdated EXCEPT ![r] = updated]
            /\ StartListing(r, created, updated)
  BY DEF ReadAccount
<1>2. CASE full
  <2> WITNESS 0, 0
  <2> QED
    BY <1>1, <1>2
<1>3. CASE ~full
  <2> WITNESS lastCreated, lastUpdated
  <2> QED
    BY <1>1, <1>3
<1> QED
  BY <1>2, <1>3

-----------------------------------------------------------------------------
(* Type correctness.                                                       *)

LEMMA ForgetRunType ==
  ASSUME OrderTypeOK, NEW r \in Runs, ForgetRun(r)
  PROVE  /\ doing' \in [Runs -> {"idle", "list", "store", "after"}]
         /\ attempt' \in [Runs -> 0..MaxAttempts]
         /\ sinceCreated' \in [Runs -> Moment] /\ sinceUpdated' \in [Runs -> Moment]
         /\ streakFound' \in [Runs -> 0..StreakLimit]
         /\ unread' \in [Runs -> SUBSET Deliveries]
         /\ latestCreated' \in [Runs -> Moment] /\ latestUpdated' \in [Runs -> Moment]
         /\ listedRow' \in [Runs -> [Deliveries -> Moment]]
BY OrderBounds DEF OrderTypeOK, ForgetRun, Nothing, Moment

LEMMA StartListingType ==
  ASSUME OrderTypeOK, NEW r \in Runs, NEW s \in Moment, NEW t \in Moment,
         StartListing(r, s, t)
  PROVE  /\ doing' \in [Runs -> {"idle", "list", "store", "after"}]
         /\ unread' \in [Runs -> SUBSET Deliveries]
         /\ latestCreated' \in [Runs -> Moment] /\ latestUpdated' \in [Runs -> Moment]
BY DEF OrderTypeOK, StartListing

LEMMA CountFailureType ==
  ASSUME OrderTypeOK, NEW r \in Runs, CountFailure(r), suspended' \in BOOLEAN,
         refusals' \in 0..StreakLimit
  PROVE  OrderTypeOK'
<1>1. streak' \in 0..StreakLimit
  BY OneMoreInRange DEF OrderTypeOK, CountFailure
<1>2. ForgetRun(r)
  BY DEF CountFailure
<1> QED
  BY <1>1, <1>2, ForgetRunType DEF OrderTypeOK, CountFailure, checkpoints, parcels

\* No step takes a variable out of its type.
LEMMA OrderTypeStep == OrderTypeOK /\ [OrderNext]_orderVars => OrderTypeOK'
<1> SUFFICES ASSUME OrderTypeOK, [OrderNext]_orderVars
             PROVE  OrderTypeOK'
  OBVIOUS
<1> USE OrderBounds DEF parcels, checkpoints, account, found, listing, runState
<1>a. 0 \in Moment /\ 0 \in 0..StreakLimit
  BY DEF Moment
<1>1. ASSUME NEW p \in Deliveries, Progress(p)
      PROVE  OrderTypeOK'
  <2>1. moment + 1 \in Moment
    BY <1>1 DEF Progress, OrderTypeOK, Moment
  <2>2. slips' \subseteq SlipMark \X Deliveries
    BY <1>1 DEF Progress, OrderTypeOK, SlipMark
  <2> QED
    BY <1>1, <2>1, <2>2 DEF Progress, OrderTypeOK
<1>2. CASE SaveAccount
  BY <1>2, <1>a DEF SaveAccount, OrderTypeOK
<1>3. CASE LiftSuspension
  BY <1>3 DEF LiftSuspension, OrderTypeOK
<1>4. ASSUME NEW r \in Runs, ReadAccount(r)
      PROVE  OrderTypeOK'
  <2>1. PICK s \in Moment, t \in Moment :
          /\ sinceCreated' = [sinceCreated EXCEPT ![r] = s]
          /\ sinceUpdated' = [sinceUpdated EXCEPT ![r] = t]
          /\ StartListing(r, s, t)
    BY <1>4, <1>a, ReadAccountFrom DEF OrderTypeOK
  <2>2. 1 \in 0..MaxAttempts
    OBVIOUS
  <2> QED
    BY <1>4, <2>1, <2>2, StartListingType DEF ReadAccount, OrderTypeOK
<1>5. ASSUME NEW r \in Runs, NEW p \in Deliveries, FetchPage(r, p)
      PROVE  OrderTypeOK'
  <2>1. /\ Later(latestCreated[r], createdAt[p]) \in Moment
        /\ Later(latestUpdated[r], updatedAt[p]) \in Moment
    BY DEF Later, OrderTypeOK
  <2>2. latestCreated' \in [Runs -> Moment] /\ latestUpdated' \in [Runs -> Moment]
    BY <1>5, <2>1 DEF FetchPage, OrderTypeOK
  <2>3. listedRow' \in [Runs -> [Deliveries -> Moment]]
    BY <1>5, <1>a DEF FetchPage, OrderTypeOK
  <2>4. doing' \in [Runs -> {"idle", "list", "store", "after"}]
    BY <1>5 DEF FetchPage, OrderTypeOK
  <2> QED
    BY <1>5, <2>2, <2>3, <2>4 DEF FetchPage, OrderTypeOK
<1>6. ASSUME NEW r \in Runs, NEW p \in Deliveries, StoreOrder(r, p)
      PROVE  OrderTypeOK'
  <2>1. slips' \subseteq SlipMark \X Deliveries
    BY <1>6 DEF StoreOrder, OrderTypeOK, SlipMark
  <2>2. listedRow[r][p] \in Moment
    BY DEF OrderTypeOK
  <2>3. /\ orderRow' \in [Deliveries -> Moment]
        /\ listedRow' \in [Runs -> [Deliveries -> Moment]]
    BY <1>6, <1>a, <2>2 DEF StoreOrder, OrderTypeOK
  <2> QED
    BY <1>6, <2>1, <2>3 DEF StoreOrder, OrderTypeOK
<1>7. ASSUME NEW r \in Runs, NEW p \in Deliveries, DropOrder(r, p)
      PROVE  OrderTypeOK'
  <2>1. slips' \subseteq SlipMark \X Deliveries
    BY <1>7 DEF DropOrder, OrderTypeOK, SlipMark
  <2>2. listedRow' \in [Runs -> [Deliveries -> Moment]]
    BY <1>7, <1>a DEF DropOrder, OrderTypeOK
  <2> QED
    BY <1>7, <2>1, <2>2 DEF DropOrder, OrderTypeOK
<1>8. ASSUME NEW r \in Runs, FinishOrders(r)
      PROVE  OrderTypeOK'
  <2>1. latestCreated[r] \in Moment /\ latestUpdated[r] \in Moment
    BY DEF OrderTypeOK
  <2>2. /\ doing' \in [Runs -> {"idle", "list", "store", "after"}]
        /\ streakFound' \in [Runs -> 0..StreakLimit]
    BY <1>8, <1>a DEF FinishOrders, OrderTypeOK
  <2>3. lastCreated' \in Moment /\ lastUpdated' \in Moment
    BY <1>8, <2>1 DEF FinishOrders, Checkpoint, OrderTypeOK
  <2> QED
    BY <1>8, <1>a, <2>1, <2>2, <2>3 DEF FinishOrders, OrderTypeOK
<1>9. ASSUME NEW r \in Runs, CloseRun(r) \/ DieRun(r)
      PROVE  OrderTypeOK'
  <2>1. ForgetRun(r)
    BY <1>9 DEF CloseRun, DieRun
  <2> QED
    BY <1>9, <2>1, ForgetRunType DEF CloseRun, DieRun, OrderTypeOK
<1>10. ASSUME NEW r \in Runs, Retry(r)
       PROVE  OrderTypeOK'
  <2>1. StartListing(r, sinceCreated[r], sinceUpdated[r])
    BY <1>10 DEF Retry
  <2>2. attempt' \in [Runs -> 0..MaxAttempts]
    BY <1>10 DEF Retry, OrderTypeOK
  <2>3. listedRow' \in [Runs -> [Deliveries -> Moment]]
    BY <1>10 DEF Retry, OrderTypeOK, Nothing, Moment
  <2>4. sinceCreated[r] \in Moment /\ sinceUpdated[r] \in Moment
    BY DEF OrderTypeOK
  <2> QED
    BY <1>10, <2>1, <2>2, <2>3, <2>4, StartListingType DEF Retry, OrderTypeOK
<1>11. ASSUME NEW r \in Runs, FailRun(r) \/ RefusePlaceholders(r)
       PROVE  OrderTypeOK'
  <2>1. CountFailure(r) /\ suspended' \in BOOLEAN
    <3>1. CASE FailRun(r)
      <4>1. \A b : b = (OneMore(streakFound[r]) >= StreakLimit) => b \in BOOLEAN
        OBVIOUS
      <4>2. CountFailure(r)
        BY <3>1 DEF FailRun
      <4>3. suspended' = (OneMore(streakFound[r]) >= StreakLimit) \/ suspended' = FALSE
        BY <3>1 DEF FailRun
      <4> QED
        BY <4>1, <4>2, <4>3
    <3>2. CASE RefusePlaceholders(r)
      BY <3>2 DEF RefusePlaceholders, OrderTypeOK
    <3> QED
      BY <1>11, <3>1, <3>2
  <2>2. refusals' \in 0..StreakLimit
    BY <1>11, <1>a, OneMoreInRange DEF FailRun, RefusePlaceholders, OrderTypeOK
  <2> QED
    BY <2>1, <2>2, CountFailureType
<1>12. CASE UNCHANGED orderVars
  BY <1>12 DEF orderVars, OrderTypeOK
<1> QED
  BY <1>1, <1>2, <1>3, <1>4, <1>5, <1>6, <1>7, <1>8, <1>9, <1>10, <1>11, <1>12 DEF OrderNext

-----------------------------------------------------------------------------
(* Times.                                                                  *)

\* A run that ends knows of no time.
LEMMA ForgetRunTime ==
  ASSUME OrderTypeOK, TimeInv, NEW r \in Runs, ForgetRun(r),
         UNCHANGED <<parcels, orderRow, checkpoints>>
  PROVE  TimeInv'
BY DEF OrderTypeOK, TimeInv, ForgetRun, Nothing, Moment, parcels, checkpoints

LEMMA TimeStep == OrderTypeOK /\ TimeInv /\ [OrderNext]_orderVars => TimeInv'
<1> SUFFICES ASSUME OrderTypeOK, TimeInv, [OrderNext]_orderVars
             PROVE  TimeInv'
  OBVIOUS
<1> USE OrderBounds
    DEF parcels, checkpoints, account, found, listing, runState, Moment, OrderTypeOK, TimeInv
<1>1. ASSUME NEW p \in Deliveries, Progress(p)
      PROVE  TimeInv'
  BY <1>1 DEF Progress
<1>2. CASE SaveAccount \/ LiftSuspension
  BY <1>2 DEF SaveAccount, LiftSuspension
<1>3. ASSUME NEW r \in Runs, ReadAccount(r)
      PROVE  TimeInv'
  <2>1. PICK s \in Moment, t \in Moment :
          /\ s <= moment /\ t <= moment
          /\ sinceCreated' = [sinceCreated EXCEPT ![r] = s]
          /\ sinceUpdated' = [sinceUpdated EXCEPT ![r] = t]
          /\ StartListing(r, s, t)
    <3>1. /\ 0 \in Moment /\ lastCreated \in Moment /\ lastUpdated \in Moment
          /\ 0 <= moment /\ lastCreated <= moment /\ lastUpdated <= moment
      OBVIOUS
    <3> HIDE DEF Moment, OrderTypeOK, TimeInv
    <3> QED
      BY <1>3, <3>1, ReadAccountFrom
  <2> QED
    BY <1>3, <2>1 DEF ReadAccount, StartListing
<1>4. ASSUME NEW r \in Runs, NEW p \in Deliveries, FetchPage(r, p)
      PROVE  TimeInv'
  <2>1. /\ Later(latestCreated[r], createdAt[p]) <= moment
        /\ Later(latestUpdated[r], updatedAt[p]) <= moment
    BY DEF Later
  <2>2. \A v \in Runs : latestCreated'[v] <= moment' /\ latestUpdated'[v] <= moment'
    BY <1>4, <2>1 DEF FetchPage
  <2>3. \A v \in Runs, q \in Deliveries : listedRow'[v][q] <= updatedAt'[q]
    BY <1>4 DEF FetchPage
  <2>4. \A v \in Runs : doing'[v] = "store" => unread'[v] = {}
    BY <1>4 DEF FetchPage
  <2> QED
    BY <1>4, <2>2, <2>3, <2>4 DEF FetchPage
<1>5. ASSUME NEW r \in Runs, NEW p \in Deliveries, StoreOrder(r, p)
      PROVE  TimeInv'
  <2>1. \A q \in Deliveries : orderRow'[q] <= updatedAt'[q]
    BY <1>5 DEF StoreOrder
  <2>2. \A v \in Runs, q \in Deliveries : listedRow'[v][q] <= updatedAt'[q]
    BY <1>5 DEF StoreOrder
  <2> QED
    BY <1>5, <2>1, <2>2 DEF StoreOrder
<1>6. ASSUME NEW r \in Runs, NEW p \in Deliveries, DropOrder(r, p)
      PROVE  TimeInv'
  <2>1. \A v \in Runs, q \in Deliveries : listedRow'[v][q] <= updatedAt'[q]
    BY <1>6 DEF DropOrder
  <2> QED
    BY <1>6, <2>1 DEF DropOrder
<1>7. ASSUME NEW r \in Runs, FinishOrders(r)
      PROVE  TimeInv'
  BY <1>7 DEF FinishOrders, Checkpoint
<1>8. ASSUME NEW r \in Runs, Retry(r)
      PROVE  TimeInv'
  BY <1>8 DEF Retry, StartListing, Nothing
<1>9. ASSUME NEW r \in Runs, CloseRun(r) \/ DieRun(r) \/ FailRun(r) \/ RefusePlaceholders(r)
      PROVE  TimeInv'
  BY <1>9, ForgetRunTime DEF CloseRun, DieRun, FailRun, RefusePlaceholders, CountFailure
<1>10. CASE UNCHANGED orderVars
  BY <1>10 DEF orderVars
<1> QED
  BY <1>1, <1>2, <1>3, <1>4, <1>5, <1>6, <1>7, <1>8, <1>9, <1>10 DEF OrderNext

\* No step knows of one time without the other.
LEMMA PairStep == OrderTypeOK /\ TimeInv /\ PairInv /\ [OrderNext]_orderVars => PairInv'
<1> SUFFICES ASSUME OrderTypeOK, TimeInv, PairInv, [OrderNext]_orderVars
             PROVE  PairInv'
  OBVIOUS
<1> USE OrderBounds
    DEF parcels, checkpoints, account, found, listing, runState, Moment, OrderTypeOK, PairInv
<1>1. ASSUME NEW p \in Deliveries, Progress(p)
      PROVE  PairInv'
  BY <1>1 DEF Progress
<1>2. CASE SaveAccount \/ LiftSuspension
  BY <1>2 DEF SaveAccount, LiftSuspension
<1>3. ASSUME NEW r \in Runs, ReadAccount(r)
      PROVE  PairInv'
  <2>1. PICK s \in Moment, t \in Moment :
          /\ s = 0 <=> t = 0
          /\ sinceCreated' = [sinceCreated EXCEPT ![r] = s]
          /\ sinceUpdated' = [sinceUpdated EXCEPT ![r] = t]
          /\ StartListing(r, s, t)
    <3>1. 0 \in Moment /\ lastCreated \in Moment /\ lastUpdated \in Moment
      OBVIOUS
    <3>2. lastCreated = 0 <=> lastUpdated = 0
      OBVIOUS
    <3> HIDE DEF Moment, OrderTypeOK, PairInv
    <3> QED
      BY <1>3, <3>1, <3>2, ReadAccountFrom
  <2> QED
    BY <1>3, <2>1 DEF ReadAccount, StartListing
<1>4. ASSUME NEW r \in Runs, NEW p \in Deliveries, FetchPage(r, p)
      PROVE  PairInv'
  <2>1. Later(latestCreated[r], createdAt[p]) = 0 <=> Later(latestUpdated[r], updatedAt[p]) = 0
    BY DEF Later
  <2> QED
    BY <1>4, <2>1 DEF FetchPage
<1>5. ASSUME NEW r \in Runs, NEW p \in Deliveries, StoreOrder(r, p) \/ DropOrder(r, p)
      PROVE  PairInv'
  BY <1>5 DEF StoreOrder, DropOrder
<1>6. ASSUME NEW r \in Runs, FinishOrders(r)
      PROVE  PairInv'
  BY <1>6 DEF FinishOrders, Checkpoint
<1>7. ASSUME NEW r \in Runs, Retry(r)
      PROVE  PairInv'
  BY <1>7 DEF Retry, StartListing
<1>8. ASSUME NEW r \in Runs, CloseRun(r) \/ DieRun(r) \/ FailRun(r) \/ RefusePlaceholders(r)
      PROVE  PairInv'
  <2>1. ForgetRun(r) /\ UNCHANGED <<parcels, checkpoints>>
    BY <1>8 DEF CloseRun, DieRun, FailRun, RefusePlaceholders, CountFailure
  <2> QED
    BY <2>1 DEF ForgetRun
<1>9. CASE UNCHANGED orderVars
  BY <1>9 DEF orderVars
<1> QED
  BY <1>1, <1>2, <1>3, <1>4, <1>5, <1>6, <1>7, <1>8, <1>9 DEF OrderNext

-----------------------------------------------------------------------------
(* What is behind, and who will see it.                                    *)

Behind(p) == orderRow[p] # updatedAt[p] /\ ~Slipped(p)

KeptNext(p) == KeptSince(p, lastCreated, lastUpdated)

SeenBy(r, p) ==
  /\ KeptSince(p, sinceCreated[r], sinceUpdated[r])
  /\ doing[r] \in {"list", "store"} /\ p \notin unread[r] =>
       \/ listedRow[r][p] = updatedAt[p]
       \/ doing[r] = "store" /\ KeptSince(p, latestCreated[r], latestUpdated[r])

BehindInv ==
  \A p \in Deliveries : Behind(p) => KeptNext(p) /\ \A r \in Runs : SeenBy(r, p)

\* ListInv and LateOrdersKept, parcel by parcel: without a checkpoint every parcel
\* is kept.
LEMMA BehindInvMeaning == OrderTypeOK => (BehindInv <=> ListInv /\ LateOrdersKept)
BY DEF OrderTypeOK, Moment, BehindInv, Behind, KeptNext, SeenBy, ListInv, LateOrdersKept,
       KeptSince

\* A parcel that is marked stays so.
LEMMA MarksStay ==
  ASSUME slips \subseteq slips', NEW p \in Deliveries, Slipped(p)
  PROVE  Slipped(p)'
BY DEF Slipped

\* Where nothing of a parcel changes but for the runs, what is known of it before
\* is so after.
LEMMA BehindBefore ==
  ASSUME slips \subseteq slips', NEW p \in Deliveries,
         orderRow'[p] = orderRow[p], updatedAt'[p] = updatedAt[p], Behind(p)'
  PROVE  Behind(p)
BY MarksStay DEF Behind

LEMMA ForgetRunSeen ==
  ASSUME OrderTypeOK, BehindInv, NEW r \in Runs, ForgetRun(r),
         UNCHANGED <<parcels, orderRow, checkpoints, slips>>
  PROVE  BehindInv'
<1> SUFFICES ASSUME NEW p \in Deliveries, Behind(p)'
             PROVE  KeptNext(p)' /\ \A v \in Runs : SeenBy(v, p)'
  BY DEF BehindInv
<1> USE DEF parcels, checkpoints
<1>1. Behind(p) /\ KeptNext(p) /\ \A v \in Runs : SeenBy(v, p)
  BY BehindBefore DEF BehindInv
<1>2. KeptNext(p)'
  BY <1>1 DEF KeptNext, KeptSince
<1>3. SeenBy(r, p)'
  BY DEF SeenBy, KeptSince, ForgetRun, OrderTypeOK, Moment
<1>4. ASSUME NEW v \in Runs, v # r
      PROVE  SeenBy(v, p)'
  BY <1>1, <1>4 DEF SeenBy, KeptSince, ForgetRun, OrderTypeOK
<1> QED
  BY <1>2, <1>3, <1>4

\* What is behind after a step was so before it, and was seen; or the step itself
\* put it behind, and what it knows of times makes up for that.
LEMMA BehindStep ==
  OrderTypeOK /\ TimeInv /\ PairInv /\ BehindInv /\ [OrderNext]_orderVars => BehindInv'
<1> SUFFICES ASSUME OrderTypeOK, OrderTypeOK', TimeInv, PairInv, BehindInv, [OrderNext]_orderVars,
                    NEW q \in Deliveries, Behind(q)'
             PROVE  KeptNext(q)' /\ \A v \in Runs : SeenBy(v, q)'
  BY OrderTypeStep DEF BehindInv
<1> USE DEF parcels, checkpoints, account, found, listing, runState
<1>0. Behind(q) => KeptNext(q) /\ \A v \in Runs : SeenBy(v, q)
  BY DEF BehindInv
<1>1. ASSUME NEW p \in Deliveries, Progress(p)
      PROVE  KeptNext(q)' /\ \A v \in Runs : SeenBy(v, q)'
  <2>a. slips \subseteq slips'
    BY <1>1 DEF Progress
  <2>1. CASE q # p
    <3>1. /\ createdAt'[q] = createdAt[q] /\ updatedAt'[q] = updatedAt[q]
          /\ orderRow'[q] = orderRow[q]
      BY <1>1, <2>1 DEF Progress, OrderTypeOK
    <3>2. KeptNext(q) /\ \A v \in Runs : SeenBy(v, q)
      BY <1>0, <2>a, <3>1, BehindBefore
    <3> QED
      BY <1>1, <3>1, <3>2 DEF Progress, KeptNext, SeenBy, KeptSince
  <2>2. CASE q = p
    <3>1. updatedAt'[p] = moment + 1
      BY <1>1 DEF Progress, OrderTypeOK
    <3>2. ~Passed(p)
      <4>1. Passed(p) => <<"moved", p>> \in slips'
        BY <1>1 DEF Progress
      <4> QED
        BY <2>2, <4>1 DEF Behind, Slipped, SlipMark
    <3>3. KeptNext(p)'
      BY <1>1, <3>1 DEF Progress, KeptNext, KeptSince, TimeInv, OrderTypeOK, Moment
    <3>4. ASSUME NEW v \in Runs
          PROVE  SeenBy(v, p)'
      <4>1. /\ KeptSince(p, sinceCreated[v], sinceUpdated[v])'
            /\ KeptSince(p, latestCreated[v], latestUpdated[v])'
        BY <1>1, <3>1 DEF Progress, KeptSince, TimeInv, OrderTypeOK, Moment
      <4>2. ~(doing'[v] = "list" /\ p \notin unread'[v])
        BY <1>1, <3>2 DEF Progress, Passed
      <4> QED
        BY <4>1, <4>2 DEF SeenBy
    <3> QED
      BY <2>2, <3>3, <3>4
  <2> QED
    BY <2>1, <2>2
<1>2. CASE SaveAccount \/ LiftSuspension
  <2>1. KeptNext(q) /\ \A v \in Runs : SeenBy(v, q)
    BY <1>0, <1>2, BehindBefore DEF SaveAccount, LiftSuspension
  <2> QED
    BY <1>2, <2>1 DEF SaveAccount, LiftSuspension, KeptNext, SeenBy, KeptSince
<1>3. ASSUME NEW r \in Runs, ReadAccount(r)
      PROVE  KeptNext(q)' /\ \A v \in Runs : SeenBy(v, q)'
  <2>1. KeptNext(q) /\ \A v \in Runs : SeenBy(v, q)
    BY <1>0, <1>3, BehindBefore DEF ReadAccount
  <2>2. PICK s, t :
          /\ \/ s = 0 /\ t = 0
             \/ s = lastCreated /\ t = lastUpdated
          /\ sinceCreated' = [sinceCreated EXCEPT ![r] = s]
          /\ sinceUpdated' = [sinceUpdated EXCEPT ![r] = t]
          /\ StartListing(r, s, t)
    BY <1>3, ReadAccountFrom
  <2>3. KeptNext(q)'
    BY <1>3, <2>1 DEF ReadAccount, KeptNext, KeptSince
  <2>4. KeptSince(q, s, t)'
    BY <1>3, <2>1, <2>2 DEF ReadAccount, KeptNext, KeptSince, OrderTypeOK, Moment
  <2>5. SeenBy(r, q)'
    BY <2>2, <2>4 DEF SeenBy, StartListing, KeptSince, OrderTypeOK
  <2>6. ASSUME NEW v \in Runs, v # r
        PROVE  SeenBy(v, q)'
    BY <1>3, <2>1, <2>2, <2>6 DEF ReadAccount, StartListing, SeenBy, KeptSince, OrderTypeOK
  <2> QED
    BY <2>3, <2>5, <2>6
<1>4. ASSUME NEW r \in Runs, NEW p \in Deliveries, FetchPage(r, p)
      PROVE  KeptNext(q)' /\ \A v \in Runs : SeenBy(v, q)'
  <2>1. KeptNext(q) /\ \A v \in Runs : SeenBy(v, q)
    BY <1>0, <1>4, BehindBefore DEF FetchPage
  <2>2. KeptNext(q)'
    BY <1>4, <2>1 DEF FetchPage, KeptNext, KeptSince
  <2>3. \A v \in Runs : KeptSince(q, sinceCreated[v], sinceUpdated[v])'
    BY <1>4, <2>1 DEF FetchPage, SeenBy, KeptSince
  <2>4. ASSUME NEW v \in Runs, v # r
        PROVE  SeenBy(v, q)'
    BY <1>4, <2>1, <2>3, <2>4 DEF FetchPage, SeenBy, KeptSince, OrderTypeOK
  <2>5. CASE q = p
    <3>1. Keeps(r, p)
      BY <2>1, <2>5 DEF SeenBy, KeptSince, Keeps
    <3>2. listedRow'[r][p] = updatedAt'[p]
      BY <1>4, <3>1 DEF FetchPage, OrderTypeOK
    <3> QED
      BY <2>2, <2>3, <2>4, <2>5, <3>2 DEF SeenBy
  <2>6. CASE q # p
    <3>1. /\ listedRow'[r][q] = listedRow[r][q] /\ updatedAt'[q] = updatedAt[q]
          /\ q \notin unread'[r] => q \notin unread[r]
          /\ doing[r] = "list"
      BY <1>4, <2>6 DEF FetchPage, OrderTypeOK
    <3>2. q \notin unread[r] => listedRow[r][q] = updatedAt[q]
      BY <2>1, <3>1 DEF SeenBy
    <3>3. SeenBy(r, q)'
      BY <2>3, <3>1, <3>2 DEF SeenBy
    <3> QED
      BY <2>2, <2>4, <3>3
  <2> QED
    BY <2>5, <2>6
<1>5. ASSUME NEW r \in Runs, NEW p \in Deliveries, StoreOrder(r, p)
      PROVE  KeptNext(q)' /\ \A v \in Runs : SeenBy(v, q)'
  <2>a. slips \subseteq slips'
    BY <1>5 DEF StoreOrder
  <2>1. q = p => orderRow[p] <= listedRow[r][p] /\ listedRow[r][p] < updatedAt[p]
    <3>1. ASSUME q = p
          PROVE  orderRow[p] <= listedRow[r][p]
      <4>1. orderRow[p] > listedRow[r][p] => <<"crossed", p>> \in slips'
        BY <1>5 DEF StoreOrder
      <4> QED
        BY <3>1, <4>1 DEF Behind, Slipped, SlipMark, OrderTypeOK, Moment
    <3>2. ASSUME q = p
          PROVE  listedRow[r][p] # updatedAt[p]
      BY <1>5, <3>2 DEF StoreOrder, Behind, OrderTypeOK
    <3>3. /\ listedRow[r][p] <= updatedAt[p]
          /\ listedRow[r][p] \in Nat /\ updatedAt[p] \in Nat
      BY DEF TimeInv, OrderTypeOK, Moment
    <3> QED
      BY <3>1, <3>2, <3>3
  <2>2. Behind(q)
    <3>1. CASE q = p
      <4>1. orderRow[q] # updatedAt[q]
        BY <2>1, <3>1 DEF OrderTypeOK, Moment
      <4> QED
        BY <2>a, <4>1, MarksStay DEF Behind
    <3>2. CASE q # p
      BY <1>5, <2>a, <3>2, BehindBefore DEF StoreOrder, OrderTypeOK
    <3> QED
      BY <3>1, <3>2
  <2>3. KeptNext(q)'
    BY <1>0, <1>5, <2>2 DEF StoreOrder, KeptNext, KeptSince
  <2>4. ASSUME NEW v \in Runs, v # r \/ q # p
        PROVE  SeenBy(v, q)'
    <3>1. listedRow'[v][q] = listedRow[v][q]
      BY <1>5, <2>4 DEF StoreOrder, OrderTypeOK
    <3> QED
      BY <1>0, <1>5, <2>2, <3>1 DEF StoreOrder, SeenBy, KeptSince
  <2>5. ASSUME q = p
        PROVE  SeenBy(r, q)'
    <3>1. SeenBy(r, q) /\ listedRow[r][q] # updatedAt[q]
      BY <1>0, <2>1, <2>2, <2>5 DEF OrderTypeOK, Moment
    <3> QED
      BY <1>5, <3>1 DEF StoreOrder, SeenBy, KeptSince
  <2> QED
    BY <2>3, <2>4, <2>5
<1>6. ASSUME NEW r \in Runs, NEW p \in Deliveries, DropOrder(r, p)
      PROVE  KeptNext(q)' /\ \A v \in Runs : SeenBy(v, q)'
  <2>1. q # p
    BY <1>6 DEF DropOrder, Behind, Slipped, SlipMark
  <2>2. KeptNext(q) /\ \A v \in Runs : SeenBy(v, q)
    BY <1>0, <1>6, BehindBefore DEF DropOrder
  <2>3. \A v \in Runs : listedRow'[v][q] = listedRow[v][q]
    BY <1>6, <2>1 DEF DropOrder, OrderTypeOK
  <2> QED
    BY <1>6, <2>2, <2>3 DEF DropOrder, KeptNext, SeenBy, KeptSince
<1>7. ASSUME NEW r \in Runs, FinishOrders(r)
      PROVE  KeptNext(q)' /\ \A v \in Runs : SeenBy(v, q)'
  <2>1. Behind(q) /\ KeptNext(q) /\ \A v \in Runs : SeenBy(v, q)
    BY <1>0, <1>7, BehindBefore DEF FinishOrders
  <2>2. listedRow[r][q] # updatedAt[q]
    <3>1. listedRow[r][q] = 0
      BY <1>7 DEF FinishOrders, Nothing
    <3>2. updatedAt[q] # 0
      BY <2>1 DEF Behind, TimeInv, OrderTypeOK, Moment
    <3> QED
      BY <3>1, <3>2
  <2>3. KeptSince(q, latestCreated[r], latestUpdated[r])
    <3>1. doing[r] = "store" /\ q \notin unread[r]
      BY <1>7 DEF FinishOrders, TimeInv
    <3> QED
      BY <2>1, <2>2, <3>1 DEF SeenBy
  <2>4. KeptNext(q)'
    <3>1. latestCreated[r] = 0 <=> latestUpdated[r] = 0
      BY DEF PairInv
    <3> QED
      BY <1>7, <2>1, <2>3, <3>1 DEF FinishOrders, Checkpoint, KeptNext, KeptSince
  <2>5. SeenBy(r, q)'
    BY <1>7, <2>1 DEF FinishOrders, SeenBy, KeptSince, OrderTypeOK
  <2>6. ASSUME NEW v \in Runs, v # r
        PROVE  SeenBy(v, q)'
    BY <1>7, <2>1, <2>6 DEF FinishOrders, SeenBy, KeptSince, OrderTypeOK
  <2> QED
    BY <2>4, <2>5, <2>6
<1>8. ASSUME NEW r \in Runs, Retry(r)
      PROVE  KeptNext(q)' /\ \A v \in Runs : SeenBy(v, q)'
  <2>1. KeptNext(q) /\ \A v \in Runs : SeenBy(v, q)
    BY <1>0, <1>8, BehindBefore DEF Retry
  <2>2. KeptNext(q)'
    BY <1>8, <2>1 DEF Retry, KeptNext, KeptSince
  <2>3. SeenBy(r, q)'
    BY <1>8, <2>1 DEF Retry, StartListing, SeenBy, KeptSince, OrderTypeOK
  <2>4. ASSUME NEW v \in Runs, v # r
        PROVE  SeenBy(v, q)'
    BY <1>8, <2>1, <2>4 DEF Retry, StartListing, SeenBy, KeptSince, OrderTypeOK
  <2> QED
    BY <2>2, <2>3, <2>4
<1>9. ASSUME NEW r \in Runs, CloseRun(r) \/ DieRun(r) \/ FailRun(r) \/ RefusePlaceholders(r)
      PROVE  KeptNext(q)' /\ \A v \in Runs : SeenBy(v, q)'
  <2>1. BehindInv'
    BY <1>9, ForgetRunSeen DEF CloseRun, DieRun, FailRun, RefusePlaceholders, CountFailure
  <2> QED
    BY <2>1 DEF BehindInv
<1>10. CASE UNCHANGED orderVars
  <2>1. KeptNext(q) /\ \A v \in Runs : SeenBy(v, q)
    BY <1>0, <1>10, BehindBefore DEF orderVars
  <2> QED
    BY <1>10, <2>1 DEF orderVars, KeptNext, SeenBy, KeptSince
<1> QED
  BY <1>1, <1>2, <1>3, <1>4, <1>5, <1>6, <1>7, <1>8, <1>9, <1>10 DEF OrderNext

-----------------------------------------------------------------------------
(* The theorems.                                                           *)

LEMMA OrderInitial == OrderInit => OrderInv
<1> SUFFICES ASSUME OrderInit
             PROVE  OrderInv
  OBVIOUS
<1> USE OrderBounds DEF OrderInit, Nothing, Moment
<1>1. OrderTypeOK
  <2>1. 0 \in Moment /\ 0 \in 0..StreakLimit /\ 0 \in 0..MaxAttempts
    OBVIOUS
  <2>2. Nothing \in [Deliveries -> Moment]
    BY <2>1
  <2> HIDE DEF Nothing, Moment
  <2> QED
    BY <2>1, <2>2 DEF OrderTypeOK
<1>2. TimeInv
  BY DEF TimeInv
<1>3. ListInv /\ LateOrdersKept
  BY DEF ListInv, LateOrdersKept
<1>4. PairInv
  BY DEF PairInv
<1> QED
  BY <1>1, <1>2, <1>3, <1>4 DEF OrderInv

\* The inductive invariant of runDeliverySync: times and what is behind.
THEOREM OrderInvariance == OrderSpec => []OrderInv
<1>1. OrderInv /\ [OrderNext]_orderVars => OrderInv'
  <2>1. (OrderTypeOK => (BehindInv <=> ListInv /\ LateOrdersKept))'
    BY BehindInvMeaning, PTL
  <2> QED
    BY <2>1, OrderTypeStep, TimeStep, PairStep, BehindStep, BehindInvMeaning DEF OrderInv
<1> QED
  BY <1>1, OrderInitial, PTL DEF OrderSpec

\* The variables of the sync keep their types.
THEOREM OrderTypeCorrect == OrderSpec => []OrderTypeOK
<1>1. OrderInv => OrderTypeOK
  BY DEF OrderInv
<1> QED
  BY <1>1, OrderInvariance, PTL

\* A parcel whose row is not what the courier has is kept by the next run, but for
\* what the marks name, however many runs overlap, retry, die or start afresh.
THEOREM LateOrdersAreKept == OrderSpec => []LateOrdersKept
<1>1. OrderInv => LateOrdersKept
  BY DEF OrderInv
<1> QED
  BY <1>1, OrderInvariance, PTL
=============================================================================
