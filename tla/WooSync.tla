-------------------------------- MODULE WooSync --------------------------------
(***************************************************************************)
(* How a merchant's decisions, and the tracking numbers of their parcels,  *)
(* reach the WooCommerce shop.                                             *)
(*                                                                         *)
(* The shop's plugin polls: one request lists the PENDING decisions, at    *)
(* most PollLimit, oldest first, with what is known of their shipments;    *)
(* the plugin applies them to the shop's orders and reports each with a    *)
(* request of its own, which writes SYNCED or FAILED whatever the row says *)
(* by then.  The list itself is two SELECTs that matter, of decisions and  *)
(* of shipments.  Once a shipment is saved its decision, if SYNCED, is     *)
(* made PENDING again, so that the tracking number is sent as well.        *)
(***************************************************************************)
EXTENDS Naturals, FiniteSets

CONSTANTS
  Orders,
  Polls,         \* runs of the plugin that may be under way at one time
  PollLimit,     \* decisions in one list
  MaxWooFaults   \* bound: queries that fail, reports lost, polls that die

ASSUME WooBounds ==
  IsFiniteSet(Orders) /\ PollLimit \in Nat \ {0} /\ MaxWooFaults \in Nat

VARIABLES
  sync,          \* sync[o]: wc_sync_status, "none" before the decision
  born,          \* born[o]: its place in the order of created_at, 0 for none
  parcel,        \* parcel[o]: the shipment row, "bare" without a tracking number
  due,           \* orders whose shipment is saved and whose re-sync is to come
  poll,          \* poll[p]: what the run p of the plugin is about to do
  todo,          \* todo[p]: decisions it has listed and is to apply
  known,         \* known[p]: those it was given a tracking number for
  applied,       \* applied[p]: those it has applied and is to report
  shopTracked,   \* orders whose tracking number the shop has
  wooFaults,
  wooMarks       \* history: <<mark, o>>, see WooMark

listed == <<poll, todo, known, applied>>
wooVars == <<sync, born, parcel, due, listed, shopTracked, wooFaults, wooMarks>>

\* Slip for the mutation checks: a status forgotten in the list.
WooStatusShort == {"none", "PENDING", "SYNCED"}

WooStatus == {"none", "PENDING", "SYNCED", "FAILED"}

\* missed: a poll that was not given the tracking number held the decision when
\* the re-sync ran.  late: the tracking number came with a webhook, which asks
\* for no re-sync.  lost: the re-sync failed, or the call died before it.
\* blind: the SELECT of the shipments failed, which the list does not look at.
WooMark == {"missed", "late", "lost", "blind"}

WooTypeOK ==
  /\ sync \in [Orders -> WooStatus]
  /\ born \in [Orders -> Nat]
  /\ parcel \in [Orders -> {"none", "bare", "tracked"}]
  /\ due \subseteq Orders
  /\ poll \in [Polls -> {"idle", "fill", "shop"}]
  /\ todo \in [Polls -> SUBSET Orders]
  /\ known \in [Polls -> SUBSET Orders]
  /\ applied \in [Polls -> SUBSET Orders]
  /\ shopTracked \subseteq Orders
  /\ wooFaults \in 0..MaxWooFaults
  /\ wooMarks \subseteq WooMark \X Orders

WooInit ==
  /\ sync = [o \in Orders |-> "none"]
  /\ born = [o \in Orders |-> 0]
  /\ parcel = [o \in Orders |-> "none"]
  /\ due = {}
  /\ poll = [p \in Polls |-> "idle"]
  /\ todo = [p \in Polls |-> {}]
  /\ known = [p \in Polls |-> {}]
  /\ applied = [p \in Polls |-> {}]
  /\ shopTracked = {}
  /\ wooFaults = 0
  /\ wooMarks = {}

WooFault == wooFaults < MaxWooFaults /\ wooFaults' = wooFaults + 1

\* The run p has been given the list, without a tracking number for o.
HoldsBare(p, o) == poll[p] = "shop" /\ o \in (todo[p] \union applied[p]) \ known[p]

Tracked == {o \in Orders : parcel[o] = "tracked"}

-----------------------------------------------------------------------------
(* The merchant's side.                                                    *)

Decided == {o \in Orders : sync[o] # "none"}

\* createMerchantDecision, once for an order: Shipment has the race.
Decide(o) ==
  /\ sync[o] = "none"
  /\ sync' = [sync EXCEPT ![o] = "PENDING"]
  /\ born' = [born EXCEPT ![o] = Cardinality(Decided) + 1]
  /\ UNCHANGED <<parcel, due, listed, shopTracked, wooFaults, wooMarks>>

\* createShipmentForOrderCheck saves the parcel of an accepted order; couriers
\* may give the tracking number later.
SaveShipment(o) ==
  /\ sync[o] # "none" /\ parcel[o] = "none"
  /\ \E s \in {"bare", "tracked"} : parcel' = [parcel EXCEPT ![o] = s]
  /\ due' = due \union {o}
  /\ UNCHANGED <<sync, born, listed, shopTracked, wooFaults, wooMarks>>

\* The webhook of the courier brings the tracking number.
TrackLate(o) ==
  /\ parcel[o] = "bare"
  /\ parcel' = [parcel EXCEPT ![o] = "tracked"]
  /\ wooMarks' =
       IF o \notin due /\ (sync[o] = "SYNCED" \/ \E p \in Polls : HoldsBare(p, o))
         THEN wooMarks \union {<<"late", o>>} ELSE wooMarks
  /\ UNCHANGED <<sync, born, due, listed, shopTracked, wooFaults>>

\* Slip: decisions that were not sent are touched, the others are not.
ResyncPending(o) ==
  /\ o \in due
  /\ due' = due \ {o}
  /\ sync' = IF sync[o] = "FAILED" THEN [sync EXCEPT ![o] = "PENDING"] ELSE sync
  /\ wooMarks' = IF \E p \in Polls : HoldsBare(p, o)
                   THEN wooMarks \union {<<"missed", o>>} ELSE wooMarks
  /\ UNCHANGED <<born, parcel, listed, shopTracked, wooFaults>>

\* queueWooDecisionResyncWithShipment touches SYNCED decisions only.
QueueResync(o) ==
  /\ o \in due
  /\ due' = due \ {o}
  /\ sync' = IF sync[o] = "SYNCED" THEN [sync EXCEPT ![o] = "PENDING"] ELSE sync
  /\ wooMarks' = IF \E p \in Polls : HoldsBare(p, o)
                   THEN wooMarks \union {<<"missed", o>>} ELSE wooMarks
  /\ UNCHANGED <<born, parcel, listed, shopTracked, wooFaults>>

LoseResync(o) ==
  /\ o \in due
  /\ WooFault
  /\ due' = due \ {o}
  /\ wooMarks' = wooMarks \union {<<"lost", o>>}
  /\ UNCHANGED <<sync, born, parcel, listed, shopTracked>>

-----------------------------------------------------------------------------
(* The plugin's side.                                                      *)

PollGoto(p, s) == poll' = [poll EXCEPT ![p] = s]

Pending == {o \in Orders : sync[o] = "PENDING"}

\* The lists that the SELECT of the decisions may answer.
OldestPending ==
  {B \in SUBSET Pending :
     /\ Cardinality(B) <= PollLimit
     /\ B = Pending \/ Cardinality(B) = PollLimit
     /\ \A o \in B, n \in Pending \ B : born[o] < born[n]}

ListPending(p) ==
  /\ poll[p] = "idle" /\ Pending # {}
  /\ \E B \in OldestPending : todo' = [todo EXCEPT ![p] = B]
  /\ PollGoto(p, "fill")
  /\ UNCHANGED <<sync, born, parcel, due, known, applied, shopTracked, wooFaults, wooMarks>>

\* The SELECT of the shipments, and the answer to the plugin.
FillShipments(p) ==
  /\ poll[p] = "fill"
  /\ known' = [known EXCEPT ![p] = todo[p] \intersect Tracked]
  /\ PollGoto(p, "shop")
  /\ UNCHANGED <<sync, born, parcel, due, todo, applied, shopTracked, wooFaults, wooMarks>>

FillBlind(p) ==
  /\ poll[p] = "fill"
  /\ WooFault
  /\ PollGoto(p, "shop")
  /\ wooMarks' = wooMarks \union ({"blind"} \X todo[p])
  /\ UNCHANGED <<sync, born, parcel, due, todo, known, applied, shopTracked>>

\* The plugin changes the shop's order.
Apply(p, o) ==
  /\ poll[p] = "shop" /\ o \in todo[p]
  /\ todo' = [todo EXCEPT ![p] = @ \ {o}]
  /\ applied' = [applied EXCEPT ![p] = @ \union {o}]
  /\ shopTracked' = shopTracked \union ({o} \intersect known[p])
  /\ UNCHANGED <<sync, born, parcel, due, poll, known, wooFaults, wooMarks>>

\* markMerchantDecisionWooSync, with and without an error of the shop.
ReportSynced(p, o) ==
  /\ o \in applied[p]
  /\ sync' = [sync EXCEPT ![o] = "SYNCED"]
  /\ applied' = [applied EXCEPT ![p] = @ \ {o}]
  /\ UNCHANGED <<born, parcel, due, poll, todo, known, shopTracked, wooFaults, wooMarks>>

\* Slip: a decision that the shop refused stays in the list.
ReportFailedKeep(p, o) ==
  /\ poll[p] = "shop" /\ o \in todo[p]
  /\ todo' = [todo EXCEPT ![p] = @ \ {o}]
  /\ UNCHANGED <<sync, born, parcel, due, poll, known, applied, shopTracked, wooFaults, wooMarks>>

ReportFailed(p, o) ==
  /\ poll[p] = "shop" /\ o \in todo[p]
  /\ sync' = [sync EXCEPT ![o] = "FAILED"]
  /\ todo' = [todo EXCEPT ![p] = @ \ {o}]
  /\ UNCHANGED <<born, parcel, due, poll, known, applied, shopTracked, wooFaults, wooMarks>>

LoseReport(p, o) ==
  /\ o \in applied[p]
  /\ WooFault
  /\ applied' = [applied EXCEPT ![p] = @ \ {o}]
  /\ UNCHANGED <<sync, born, parcel, due, poll, todo, known, shopTracked, wooMarks>>

Forget(p) ==
  /\ PollGoto(p, "idle")
  /\ todo' = [todo EXCEPT ![p] = {}]
  /\ known' = [known EXCEPT ![p] = {}]
  /\ applied' = [applied EXCEPT ![p] = {}]
  /\ UNCHANGED <<sync, born, parcel, due, shopTracked, wooMarks>>

EndPoll(p) ==
  /\ poll[p] = "shop" /\ todo[p] = {} /\ applied[p] = {}
  /\ Forget(p)
  /\ UNCHANGED wooFaults

DiePoll(p) == poll[p] # "idle" /\ WooFault /\ Forget(p)

\* What a run of the plugin does of itself.
PollStep(p) ==
  \/ ListPending(p) \/ FillShipments(p) \/ EndPoll(p)
  \/ \E o \in Orders : Apply(p, o) \/ ReportSynced(p, o) \/ ReportFailed(p, o)

WooNext ==
  \/ \E o \in Orders :
       Decide(o) \/ SaveShipment(o) \/ TrackLate(o) \/ QueueResync(o) \/ LoseResync(o)
  \/ \E p \in Polls :
       \/ PollStep(p) \/ FillBlind(p) \/ DiePoll(p)
       \/ \E o \in Orders : LoseReport(p, o)

WooSpec == WooInit /\ [][WooNext]_wooVars

-----------------------------------------------------------------------------
(* Properties.                                                             *)

Excused(o) == \E k \in WooMark : <<k, o>> \in wooMarks

\* "so Woo receives shipment/tracking meta" (shipment-service.ts:1426): once a
\* decision is SYNCED and no re-sync is to come, the shop has the tracking
\* number, however polls, reports and the saving of the shipment interleave; but
\* for the orders marked, of which the first kind needs no fault.
TrackingArrives ==
  \A o \in Orders :
    sync[o] = "SYNCED" /\ parcel[o] = "tracked" /\ o \notin due /\ ~Excused(o)
      => o \in shopTracked

\* Every decision that is PENDING comes to be reported, as long as the plugin
\* polls: the limit of a list starves none, because the oldest come first and
\* none stays (merchant-decisions.ts:202, docs/Plugin.md:100).
EveryDecisionReported ==
  \A o \in Orders : sync[o] = "PENDING" ~> sync[o] # "PENDING"

-----------------------------------------------------------------------------
(* The inductive invariant the proofs rest on.                             *)

\* A run that will report a decision without the tracking number that there is
\* will be followed by the re-sync, or the order is marked; and what a run has
\* applied with the number, the shop has.
HeldInv ==
  \A p \in Polls, o \in Orders :
    /\ HoldsBare(p, o) /\ parcel[o] = "tracked" => o \in due \/ Excused(o)
    /\ o \in applied[p] \intersect known[p] => o \in shopTracked
    /\ o \in applied[p] => poll[p] = "shop"
    /\ poll[p] # "shop" => known[p] = {}

WooInv == WooTypeOK /\ HeldInv /\ TrackingArrives
=============================================================================
