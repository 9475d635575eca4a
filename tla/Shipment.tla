------------------------------ MODULE Shipment ------------------------------
(***************************************************************************)
(* One order: the merchant's decision on it, its row in merchant_shipments *)
(* and the parcels that the courier's API has made for it.                 *)
(*                                                                         *)
(* createShipmentForOrderCheck is called by dashboard requests and, after  *)
(* a failure, by the background job create_shipment_retry.  It reads the   *)
(* row, reads the decision, prepares the parcel, calls the courier and     *)
(* only then writes the row; each of these awaits is a step, and other     *)
(* calls and the courier's webhooks may come between.  The courier's API   *)
(* takes no idempotency key: every call it accepts makes a parcel.         *)
(*                                                                         *)
(* The queue is the one of AtLeastOnceQueue: a retry that throws or whose  *)
(* processor dies is queued again or given up.  The re-sync of the shop    *)
(* that follows the write of the row touches the decision's wc_sync fields *)
(* only and is not part of this module.                                    *)
(***************************************************************************)
EXTENDS Naturals, FiniteSets

CONSTANTS
  Deciders,    \* requests that may record a decision at one time
  Requests,    \* dashboard requests that may create the shipment at one time
  Runners,     \* processors that may run a retry job at one time
  MaxQueued,   \* bound: no new request while so many retries are queued
  MaxParcels,  \* bound: parcels the courier makes in one behaviour
  MaxFaults    \* bound: crashes, failed writes and lost answers

ASSUME CallersAssumption == Requests \intersect Runners = {}
ASSUME FinitelyMany == IsFiniteSet(Requests) /\ IsFiniteSet(Runners)
ASSUME BoundsAssumption ==
  MaxQueued \in Nat /\ MaxParcels \in Nat /\ MaxFaults \in Nat

Callers == Requests \union Runners

VARIABLES
  \* the tables
  decision,    \* merchant_decisions.decision, "none" before the INSERT
  shipment,    \* merchant_shipments.shipment_status, "absent" without a row
  tracking,    \* the parcel the row shows by its tracking number, 0 for none
  code,        \* raw_response.code of the row: who wrote its failure
  queued,      \* create_shipment_retry jobs that wait in the queue
  \* the courier
  parcels,     \* the parcels made so far are 1..parcels
  \* the memory of each request and each processor
  intent,      \* intent[d]: the decision d is about to insert
  phase,       \* phase[c]: what c is about to do
  mine,        \* mine[c]: the parcel that c was given, 0 for none
  \* the environment
  faults,
  \* history, read by no guard
  causes,      \* events so far after which one more parcel may be made
  chain        \* "broken" once a retry was not queued, or was given up by the queue

tables == <<decision, shipment, tracking, code>>
vars == <<tables, queued, parcels, intent, phase, mine, faults, causes, chain>>

Decision == {"ACCEPTED", "VERIFY_FIRST", "BLOCKED"}

\* CREATED stands for LABEL_READY as well.
ShipmentStatus ==
  {"absent", "CREATED", "IN_TRANSIT", "DELIVERED", "FAILED", "UNSUPPORTED"}

\* Slip for the mutation checks: a status forgotten in the list.
ShippedShort == {"CREATED", "DELIVERED"}

Shipped == {"CREATED", "IN_TRANSIT", "DELIVERED"}

\* Between the read of the row and the write that rests on it.
Underway == {"checking", "preparing", "calling", "made", "failing", "rejecting"}

Phase == {"idle", "requeueing", "saved"} \union Underway

\* Four kinds of events may cost one parcel more: a call begins while another is
\* between its read and its write; a parcel is made and the row does not come to
\* say so; it is saved under a status that does not say so; a webhook reports a
\* parcel on its way as not delivered.  No more than MaxParcels are counted.
Cause == causes' = IF causes < MaxParcels THEN causes + 1 ELSE causes

TypeOK ==
  /\ decision \in Decision \union {"none"}
  /\ shipment \in ShipmentStatus
  /\ tracking \in Nat
  /\ code \in {"none", "setup", "provider", "courier"}
  /\ queued \in Nat
  /\ parcels \in 0..MaxParcels
  /\ intent \in [Deciders -> Decision \union {"none"}]
  /\ phase \in [Callers -> Phase]
  /\ mine \in [Callers -> Nat]
  /\ faults \in 0..MaxFaults
  /\ causes \in 0..MaxParcels
  /\ chain \in {"whole", "broken"}

Init ==
  /\ decision = "none" /\ shipment = "absent" /\ tracking = 0 /\ code = "none"
  /\ queued = 0 /\ parcels = 0
  /\ intent = [d \in Deciders |-> "none"]
  /\ phase = [c \in Callers |-> "idle"]
  /\ mine = [c \in Callers |-> 0]
  /\ faults = 0
  /\ causes = 0
  /\ chain = "whole"

-----------------------------------------------------------------------------
(* createMerchantDecision: read, then INSERT under a unique constraint.    *)

ReadDecision(d, v) ==
  /\ intent[d] = "none"
  /\ decision = "none"
  /\ intent' = [intent EXCEPT ![d] = v]
  /\ UNCHANGED <<tables, queued, parcels, phase, mine, faults, causes, chain>>

\* Slip: the INSERT as an upsert.
UpsertDecision(d) ==
  /\ intent[d] # "none"
  /\ decision' = intent[d]
  /\ intent' = [intent EXCEPT ![d] = "none"]
  /\ UNCHANGED <<shipment, tracking, code, queued, parcels, phase, mine,
                 faults, causes, chain>>

\* A second INSERT violates the constraint and the first decision is returned.
InsertDecision(d) ==
  /\ intent[d] # "none"
  /\ decision' = IF decision = "none" THEN intent[d] ELSE decision
  /\ intent' = [intent EXCEPT ![d] = "none"]
  /\ UNCHANGED <<shipment, tracking, code, queued, parcels, phase, mine,
                 faults, causes, chain>>

-----------------------------------------------------------------------------
(* createShipmentForOrderCheck.                                            *)

Goto(c, p) == phase' = [phase EXCEPT ![c] = p]

\* c answers or its job is completed.
Return(c) ==
  /\ phase' = [phase EXCEPT ![c] = "idle"]
  /\ mine' = [mine EXCEPT ![c] = 0]

\* The queue puts a job that threw back, or gives it up.
PutBack(c) ==
  \/ c \in Requests /\ UNCHANGED <<queued, chain>>
  \/ c \in Runners /\ queued' = queued + 1 /\ UNCHANGED chain
  \/ c \in Runners /\ chain' = "broken" /\ UNCHANGED queued

Raise(c) == Return(c) /\ PutBack(c)

Fault == faults < MaxFaults /\ faults' = faults + 1

\* Slip: a processor that does not take the job out of the queue.
BeginUnqueued(c) ==
  /\ phase[c] = "idle"
  /\ IF c \in Requests
       THEN queued < MaxQueued /\ UNCHANGED queued
       ELSE queued' = queued - 1

Begin(c) ==
  /\ phase[c] = "idle"
  /\ IF c \in Requests
       THEN queued < MaxQueued /\ UNCHANGED queued
       ELSE queued > 0 /\ queued' = queued - 1

\* getShipmentByOrderCheck: a row that shows a parcel is returned as it is.
ReadRow(c) ==
  /\ Begin(c)
  /\ \/ /\ shipment \in Shipped
        /\ UNCHANGED <<phase, causes>>
     \/ /\ shipment \notin Shipped
        /\ Goto(c, "checking")
        /\ IF \E b \in Callers : phase[b] \in Underway THEN Cause ELSE UNCHANGED causes
  /\ UNCHANGED <<tables, parcels, intent, mine, faults, chain>>

\* That SELECT fails in a processor: the job is given up by the queue, or is
\* put back, which changes nothing.
ReadRowFails(c) ==
  /\ c \in Runners
  /\ Begin(c)
  /\ Fault
  /\ chain' = "broken"
  /\ UNCHANGED <<tables, parcels, intent, phase, mine, causes>>

\* Slip: only a blocked order is refused.
CheckNotBlocked(c) ==
  /\ phase[c] = "checking"
  /\ \/ decision # "BLOCKED" /\ Goto(c, "preparing") /\ UNCHANGED <<mine, queued, chain>>
     \/ decision = "BLOCKED" /\ Raise(c)
  /\ UNCHANGED <<tables, parcels, intent, faults, causes>>

Check(c) ==
  /\ phase[c] = "checking"
  /\ \/ decision = "ACCEPTED" /\ Goto(c, "preparing") /\ UNCHANGED <<mine, queued, chain>>
     \/ decision # "ACCEPTED" /\ Raise(c)
  /\ UNCHANGED <<tables, parcels, intent, faults, causes>>

\* The order, the account, the sender's profile, the origin and the adapter
\* are read.  They are settings of the merchant: all is there, or the row is
\* to be marked, or a missing origin is thrown.
Prepare(c) ==
  /\ phase[c] = "preparing"
  /\ \/ \E p \in {"calling", "rejecting"} :
          Goto(c, p) /\ UNCHANGED <<mine, queued, chain>>
     \/ Raise(c)
  /\ UNCHANGED <<tables, parcels, intent, faults, causes>>

\* The courier makes the parcel and the answer arrives.  What trackShipment and
\* getLabel are asked next, and their failure that is swallowed, decides with
\* which tracking number and which status the row is saved: see Save.
Accept(c) ==
  /\ phase[c] = "calling"
  /\ parcels < MaxParcels
  /\ parcels' = parcels + 1
  /\ Goto(c, "made")
  /\ mine' = [mine EXCEPT ![c] = parcels + 1]
  /\ UNCHANGED <<tables, queued, intent, faults, causes, chain>>

\* The courier refuses the parcel, or cannot be reached.
Reject(c) ==
  /\ phase[c] = "calling"
  /\ Goto(c, "failing")
  /\ UNCHANGED <<tables, queued, parcels, intent, mine, faults, causes, chain>>

\* The courier makes the parcel and its answer is lost or cannot be read.
LoseAnswer(c) ==
  /\ phase[c] = "calling"
  /\ parcels < MaxParcels
  /\ Fault
  /\ parcels' = parcels + 1
  /\ Cause
  /\ Goto(c, "failing")
  /\ UNCHANGED <<tables, queued, intent, mine, chain>>

\* persistShipmentRecord: one upsert that rewrites every column of the row.
Persist(s, t, k) ==
  /\ shipment' = s /\ tracking' = t /\ code' = k
  /\ UNCHANGED decision

\* shipmentStatusFromCreate.  The adapters of the repository answer CREATED or
\* LABEL_READY; the type of their answer allows the others.
CreateStatus == {"CREATED", "FAILED", "UNSUPPORTED"}

\* The row of a parcel that was made: without a tracking number when the answer
\* had none and the lookup failed or had none either.
Save(c) ==
  /\ phase[c] = "made"
  /\ \E s \in CreateStatus, t \in {mine[c], 0} :
        /\ Persist(s, t, "none")
        /\ IF s \in Shipped THEN UNCHANGED causes ELSE Cause
  /\ Goto(c, "saved")
  /\ UNCHANGED <<queued, parcels, intent, mine, faults, chain>>

\* That write fails: shipment_persistence_failed_after_provider_success.
SaveFails(c) ==
  /\ phase[c] = "made"
  /\ Fault
  /\ Raise(c)
  /\ Cause
  /\ UNCHANGED <<tables, parcels, intent>>

\* The delivery_orders row, the event and the notification; a failure of the
\* first is thrown although the shipment is saved.
Announce(c) ==
  /\ phase[c] = "saved"
  /\ \/ Return(c) /\ UNCHANGED <<queued, chain, faults>>
     \/ Raise(c) /\ Fault
  /\ UNCHANGED <<tables, parcels, intent, causes>>

\* The row of a call that the merchant's settings do not allow: no retry.
SaveRejection(c) ==
  /\ phase[c] = "rejecting"
  /\ \/ /\ \E s \in {"FAILED", "UNSUPPORTED"} : Persist(s, 0, "setup")
        /\ Return(c)
        /\ UNCHANGED <<queued, chain, faults>>
     \/ Raise(c) /\ Fault /\ UNCHANGED tables
  /\ UNCHANGED <<parcels, intent, causes>>

\* The row of a call that the courier did not accept.
SaveFailure(c) ==
  /\ phase[c] = "failing"
  /\ \/ /\ \E s \in {"FAILED", "UNSUPPORTED"} : Persist(s, 0, "provider")
        /\ Goto(c, "requeueing")
        /\ UNCHANGED <<queued, chain, mine, faults>>
     \/ Raise(c) /\ Fault /\ UNCHANGED tables
  /\ UNCHANGED <<parcels, intent, causes>>

\* Slip: only the dashboard queues a retry, so that the chain breaks.
EnqueueOnce(c) ==
  /\ phase[c] = "requeueing"
  /\ Return(c)
  /\ queued' = queued + (IF c \in Requests THEN 1 ELSE 0)
  /\ UNCHANGED <<tables, parcels, intent, faults, causes, chain>>

\* A retry is queued.  enqueueBackgroundJob answers null when it fails, and
\* nobody looks.
EnqueueRetry(c) ==
  /\ phase[c] = "requeueing"
  /\ Return(c)
  /\ \/ queued' = queued + 1 /\ UNCHANGED <<chain, faults>>
     \/ chain' = "broken" /\ Fault /\ UNCHANGED queued
  /\ UNCHANGED <<tables, parcels, intent, causes>>

-----------------------------------------------------------------------------
(* The environment.                                                        *)

\* A processor or a request dies, and stuck-job recovery finds the job later;
\* a read that fails in the middle of a call looks the same.
Crash(c) ==
  /\ phase[c] # "idle"
  /\ Fault
  /\ Return(c)
  /\ IF phase[c] = "made" THEN Cause ELSE UNCHANGED causes
  /\ IF phase[c] = "requeueing" /\ c \in Requests
       THEN chain' = "broken" /\ UNCHANGED queued
       ELSE PutBack(c)
  /\ UNCHANGED <<tables, parcels, intent>>

\* The courier's webhook about parcel p rewrites the row, found by the order's
\* number when it does not show p.  It may not name the tracking number, which
\* then stays.  Reports may be late, repeated, reordered.
Webhook(p, s) ==
  /\ shipment # "absent"
  /\ \E t \in {p, tracking} : Persist(s, t, "courier")
  /\ IF shipment \in Shipped /\ s = "FAILED" THEN Cause ELSE UNCHANGED causes
  /\ UNCHANGED <<queued, parcels, intent, phase, mine, faults, chain>>

-----------------------------------------------------------------------------
Create(c) ==
  \/ ReadRow(c) \/ ReadRowFails(c) \/ Check(c) \/ Prepare(c)
  \/ Accept(c) \/ Reject(c) \/ LoseAnswer(c)
  \/ Save(c) \/ SaveFails(c) \/ Announce(c)
  \/ SaveRejection(c) \/ SaveFailure(c) \/ EnqueueRetry(c)

Next ==
  \/ \E d \in Deciders : InsertDecision(d) \/ \E v \in Decision : ReadDecision(d, v)
  \/ \E c \in Callers : Create(c) \/ Crash(c)
  \/ \E p \in 1..parcels, s \in {"IN_TRANSIT", "DELIVERED", "FAILED"} : Webhook(p, s)

Spec == Init /\ [][Next]_vars

-----------------------------------------------------------------------------
(* Properties.                                                             *)

\* A parcel is only ever made for an order that the merchant accepted, and
\* the order stays accepted, although requests that decide otherwise and
\* requests that ship race (shipment-service.ts:813).
ParcelNeedsConfirmation == parcels > 0 => decision = "ACCEPTED"

\* The first decision on an order stands (merchant-decisions.ts:64,117).
DecisionIsFinal == [][decision # "none" => decision' = decision]_vars

\* The courier is asked for one parcel, and for one more after each of the events
\* that Cause counts, never for two: whatever the calls, retries, webhooks and
\* faults.  And when each of them has had its parcel, the row shows one, or the
\* call that was given the last is about to save it (shipment-service.ts:808-811).
ParcelsAccounted ==
  /\ parcels <= 1 + causes
  /\ parcels = 1 + causes =>
       \/ shipment \in Shipped
       \/ \E c \in Callers : phase[c] = "made"

\* persistShipmentRecord rewrites the whole row, its failures included, yet before
\* the first such event the tracking number that the row shows is not replaced,
\* and only the call that made the parcel, having failed to look the number up,
\* may still write the row without it, over one that a webhook brought.
TrackingKept ==
  [][tracking # 0 /\ tracking' # tracking =>
       \/ causes > 0
       \/ tracking' = 0 /\ \E c \in Callers : phase[c] = "made" /\ phase'[c] = "saved"]_vars

\* c will write the row again, or will queue a retry, whatever happens to it.
Follows(c) ==
  \/ phase[c] = "requeueing"
  \/ c \in Runners /\ phase[c] \in Underway

\* A shipment that the courier did not accept, its call having thrown, is never
\* left alone: a retry is queued, or running, or the chain of retries broke by a
\* lost INSERT, a crash or the queue's giving up (shipment-service.ts:1396).
NoFailureStranded ==
  code = "provider" =>
    chain = "broken" \/ queued > 0 \/ \E c \in Callers : Follows(c)

-----------------------------------------------------------------------------
(* The inductive invariant the proofs rest on.                             *)

\* Past the check of the decision the order is accepted.
ConfirmInv ==
  \A c \in Callers : phase[c] \in Underway \ {"checking"} => decision = "ACCEPTED"

\* The calls that may still make a parcel, or write that none was made.
Open == {c \in Callers : phase[c] \in Underway \ {"made"}}

\* The next call will find that no parcel was made, and nobody is underway.
Spare == IF shipment \notin Shipped /\ \A c \in Callers : phase[c] \notin Underway
           THEN 1 ELSE 0

\* Every parcel, every call that may still make one and the one that the row
\* itself invites have a cause, the order's own being the first.
CauseInv == causes < MaxParcels => parcels + Cardinality(Open) + Spare <= 1 + causes

\* The tracking numbers in memory and in the row are of parcels that exist.
NumberInv ==
  /\ tracking <= parcels
  /\ \A c \in Callers : mine[c] <= parcels /\ (phase[c] = "made" => mine[c] > 0)

\* A row that the courier refused does not look shipped.
RefusedInv == code = "provider" => shipment \notin Shipped

IInv ==
  /\ TypeOK
  /\ ConfirmInv /\ ParcelNeedsConfirmation
  /\ CauseInv /\ NumberInv
  /\ RefusedInv /\ NoFailureStranded
=============================================================================
