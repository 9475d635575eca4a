------------------------------ MODULE FlowsProofs ------------------------------
(***************************************************************************)
(* Proofs about WooSync, for every finite set of orders, every number of   *)
(* runs of the plugin and every length of its list; and that MCFlows,      *)
(* where TLC checks it beside WebhookIntake and HistorySync, adds no       *)
(* behaviour to the three, so that what is proved of them holds there.     *)
(***************************************************************************)
EXTENDS MCFlows, WebhookIntakeProofs, HistorySyncProofs, FiniteSetTheorems

-----------------------------------------------------------------------------
(* WooSync: types.                                                         *)

LEMMA DecidedCounted == Cardinality(Decided) \in Nat
BY WooBounds, FS_Subset, FS_CardinalityType DEF Decided

\* Every step keeps the types.
LEMMA WooTypeStep ==
  ASSUME WooTypeOK, [WooNext]_wooVars
  PROVE  WooTypeOK'
<1> USE WooBounds DEF WooTypeOK, WooStatus, WooMark, WooFault, PollGoto
<1>1. ASSUME NEW o \in Orders, Decide(o)
      PROVE  WooTypeOK'
  BY <1>1, DecidedCounted DEF Decide, listed
<1>2. ASSUME NEW o \in Orders, SaveShipment(o)
      PROVE  WooTypeOK'
  BY <1>2 DEF SaveShipment, listed
<1>3. ASSUME NEW o \in Orders, TrackLate(o)
      PROVE  WooTypeOK'
  BY <1>3 DEF TrackLate, listed
<1>4. ASSUME NEW o \in Orders, QueueResync(o)
      PROVE  WooTypeOK'
  BY <1>4 DEF QueueResync, listed
<1>5. ASSUME NEW o \in Orders, LoseResync(o)
      PROVE  WooTypeOK'
  BY <1>5 DEF LoseResync, listed
<1>6. ASSUME NEW p \in Polls, ListPending(p)
      PROVE  WooTypeOK'
  BY <1>6 DEF ListPending, OldestPending, Pending
<1>7. ASSUME NEW p \in Polls, FillShipments(p)
      PROVE  WooTypeOK'
  BY <1>7 DEF FillShipments
<1>8. ASSUME NEW p \in Polls, FillBlind(p)
      PROVE  WooTypeOK'
  BY <1>8 DEF FillBlind
<1>9. ASSUME NEW p \in Polls, NEW o \in Orders, Apply(p, o)
      PROVE  WooTypeOK'
  BY <1>9 DEF Apply
<1>10. ASSUME NEW p \in Polls, NEW o \in Orders, ReportSynced(p, o)
       PROVE  WooTypeOK'
  BY <1>10 DEF ReportSynced
<1>11. ASSUME NEW p \in Polls, NEW o \in Orders, ReportFailed(p, o)
       PROVE  WooTypeOK'
  BY <1>11 DEF ReportFailed
<1>12. ASSUME NEW p \in Polls, NEW o \in Orders, LoseReport(p, o)
       PROVE  WooTypeOK'
  BY <1>12 DEF LoseReport
<1>13. ASSUME NEW p \in Polls, EndPoll(p)
       PROVE  WooTypeOK'
  BY <1>13 DEF EndPoll, Forget
<1>14. ASSUME NEW p \in Polls, DiePoll(p)
       PROVE  WooTypeOK'
  BY <1>14 DEF DiePoll, Forget
<1>15. CASE UNCHANGED wooVars
  BY <1>15 DEF wooVars, listed
<1> QED
  BY <1>1, <1>2, <1>3, <1>4, <1>5, <1>6, <1>7, <1>8, <1>9, <1>10, <1>11, <1>12, <1>13,
     <1>14, <1>15 DEF WooNext, PollStep

-----------------------------------------------------------------------------
(* What the runs of the plugin hold.                                       *)

\* Marks are never taken back.
LEMMA ExcusedStays ==
  ASSUME [WooNext]_wooVars, NEW o \in Orders, Excused(o)
  PROVE  Excused(o)'
<1>1. wooMarks \subseteq wooMarks'
  BY DEF WooNext, wooVars, listed, PollStep, Decide, SaveShipment, TrackLate, QueueResync,
     LoseResync, ListPending, FillShipments, FillBlind, Apply, ReportSynced, ReportFailed,
     LoseReport, EndPoll, DiePoll, Forget
<1> QED
  BY <1>1 DEF Excused

\* Every step keeps what the runs hold accounted for, and the shop up to date.
LEMMA HeldStep ==
  ASSUME WooTypeOK, WooTypeOK', HeldInv, TrackingArrives, [WooNext]_wooVars
  PROVE  HeldInv' /\ TrackingArrives'
<1> USE ExcusedStays DEF WooTypeOK, PollGoto, HoldsBare
<1> DEFINE Goal == HeldInv /\ TrackingArrives
<1>1. ASSUME NEW o \in Orders, Decide(o)
      PROVE  Goal'
  BY <1>1 DEF Decide, listed, HeldInv, TrackingArrives
<1>2. ASSUME NEW o \in Orders, SaveShipment(o)
      PROVE  Goal'
  BY <1>2 DEF SaveShipment, listed, HeldInv, TrackingArrives
<1>3. ASSUME NEW o \in Orders, TrackLate(o)
      PROVE  Goal'
  <2>1. o \notin due /\ (sync[o] = "SYNCED" \/ \E p \in Polls : HoldsBare(p, o)) => Excused(o)'
    BY <1>3 DEF TrackLate, Excused, WooMark
  <2>2. HeldInv'
    BY <1>3, <2>1 DEF TrackLate, listed, HeldInv
  <2>3. TrackingArrives'
    BY <1>3, <2>1 DEF TrackLate, listed, TrackingArrives
  <2> QED
    BY <2>2, <2>3
<1>4. ASSUME NEW o \in Orders, QueueResync(o)
      PROVE  Goal'
  <2>1. (\E p \in Polls : HoldsBare(p, o)) => Excused(o)'
    BY <1>4 DEF QueueResync, Excused, WooMark
  <2>2. HeldInv'
    BY <1>4, <2>1 DEF QueueResync, listed, HeldInv
  <2>3. TrackingArrives'
    BY <1>4 DEF QueueResync, listed, TrackingArrives
  <2> QED
    BY <2>2, <2>3
<1>5. ASSUME NEW o \in Orders, LoseResync(o)
      PROVE  Goal'
  <2>1. Excused(o)'
    BY <1>5 DEF LoseResync, Excused, WooMark
  <2> QED
    BY <1>5, <2>1 DEF LoseResync, listed, HeldInv, TrackingArrives
<1>6. ASSUME NEW p \in Polls, ListPending(p)
      PROVE  Goal'
  BY <1>6 DEF ListPending, HeldInv, TrackingArrives
<1>7. ASSUME NEW p \in Polls, FillShipments(p)
      PROVE  Goal'
  BY <1>7 DEF FillShipments, Tracked, HeldInv, TrackingArrives
<1>8. ASSUME NEW p \in Polls, FillBlind(p)
      PROVE  Goal'
  <2>1. \A o \in todo[p] : Excused(o)'
    BY <1>8 DEF FillBlind, Excused, WooMark
  <2> QED
    BY <1>8, <2>1 DEF FillBlind, HeldInv, TrackingArrives
<1>9. ASSUME NEW p \in Polls, NEW o \in Orders, Apply(p, o)
      PROVE  Goal'
  BY <1>9 DEF Apply, HeldInv, TrackingArrives
<1>10. ASSUME NEW p \in Polls, NEW o \in Orders, ReportSynced(p, o)
       PROVE  Goal'
  BY <1>10 DEF ReportSynced, HeldInv, TrackingArrives
<1>11. ASSUME NEW p \in Polls, NEW o \in Orders, ReportFailed(p, o)
       PROVE  Goal'
  BY <1>11 DEF ReportFailed, HeldInv, TrackingArrives
<1>12. ASSUME NEW p \in Polls, NEW o \in Orders, LoseReport(p, o)
       PROVE  Goal'
  BY <1>12 DEF LoseReport, HeldInv, TrackingArrives
<1>13. ASSUME NEW p \in Polls, Forget(p)
       PROVE  Goal'
  BY <1>13 DEF Forget, HeldInv, TrackingArrives
<1>14. CASE UNCHANGED wooVars
  BY <1>14 DEF wooVars, listed, HeldInv, TrackingArrives
<1> QED
  BY <1>1, <1>2, <1>3, <1>4, <1>5, <1>6, <1>7, <1>8, <1>9, <1>10, <1>11, <1>12, <1>13,
     <1>14 DEF WooNext, PollStep, EndPoll, DiePoll

-----------------------------------------------------------------------------
(* The theorems.                                                           *)

LEMMA WooInitially == WooInit => WooInv
<1> SUFFICES ASSUME WooInit PROVE WooInv
  OBVIOUS
<1>1. WooTypeOK
  BY WooBounds DEF WooInit, WooTypeOK, WooStatus, WooMark
<1>2. HeldInv /\ TrackingArrives
  BY DEF WooInit, HeldInv, HoldsBare, TrackingArrives
<1> QED
  BY <1>1, <1>2 DEF WooInv

LEMMA WooInductive == WooInv /\ [WooNext]_wooVars => WooInv'
BY WooTypeStep, HeldStep DEF WooInv

\* The inductive invariant holds in every reachable state.
THEOREM WooInvariance == WooSpec => []WooInv
BY WooInitially, WooInductive, PTL DEF WooSpec

\* Every variable of the decisions, the polls and the shop keeps its type.
THEOREM WooTypeCorrect == WooSpec => []WooTypeOK
<1>1. WooInv => WooTypeOK
  BY DEF WooInv
<1> QED
  BY <1>1, WooInvariance, PTL

\* A decision that is SYNCED, with no re-sync to come, has brought its tracking
\* number to the shop, but for the orders marked.
THEOREM TrackingNumbersArrive == WooSpec => []TrackingArrives
<1>1. WooInv => TrackingArrives
  BY DEF WooInv
<1> QED
  BY <1>1, WooInvariance, PTL

-----------------------------------------------------------------------------
(* MCFlows: the three side by side.                                        *)

\* A step of the whole is a step of one module, and leaves the others alone.
LEMMA FlowStep ==
  [Next]_<<part, wooVars, hookVars, historyVars>>
    => [WooNext]_wooVars /\ [HookNext]_hookVars /\ [HistoryNext]_historyVars
BY DEF Next

\* Each module sees one of its own behaviours, whichever part was chosen; the
\* history sync one that begins before its full sync, or where that has ended.
THEOREM FlowsAreModules ==
  Spec => /\ WooSpec /\ HookSpec
          /\ (HistoryInit \/ HistoryLater) /\ [][HistoryNext]_historyVars
<1>1. Init => WooInit /\ HookInit /\ (HistoryInit \/ HistoryLater)
  BY DEF Init
<1> QED
  BY <1>1, FlowStep, PTL DEF Spec, WooSpec, HookSpec

\* The inductive invariant of the history sync holds from either beginning; with it
\* the incremental runs miss no change in the instances, either.
THEOREM FlowsHistoryInvariance == Spec => []HistoryInv
BY FlowsAreModules, HistoryInitially, HistoryInductive, PTL

\* The variables of the three modules keep their types.
THEOREM FlowsTypeCorrect == Spec => []TypeOK
<1>1. HistoryInv => HistoryTypeOK
  BY DEF HistoryInv
<1>2. WooTypeOK /\ HookTypeOK /\ HistoryTypeOK => TypeOK
  BY DEF TypeOK
<1> QED
  BY <1>1, <1>2, FlowsAreModules, WooTypeCorrect, HookTypeCorrect, FlowsHistoryInvariance, PTL
=============================================================================
