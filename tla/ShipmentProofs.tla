--------------------------- MODULE ShipmentProofs ---------------------------
(***************************************************************************)
(* Proofs about Shipment, for every set of deciders, requests and          *)
(* processors and every value of the bounds.                               *)
(***************************************************************************)
EXTENDS Shipment, FiniteSetTheorems, TLAPS

-----------------------------------------------------------------------------
(* What the helpers of the actions do.                                     *)

\* The job of a processor is queued or given up; a request has no job.
LEMMA PutBackEffect ==
  ASSUME TypeOK, NEW c \in Callers, PutBack(c)
  PROVE  /\ queued' \in Nat /\ queued' >= queued
         /\ chain' \in {"whole", "broken"}
         /\ chain' = "broken" \/ chain' = chain
         /\ c \in Runners => queued' > 0 \/ chain' = "broken"
<1> USE CallersAssumption DEF TypeOK, Callers
<1>1. CASE c \in Requests /\ UNCHANGED <<queued, chain>>
  BY <1>1
<1>2. CASE c \in Runners /\ queued' = queued + 1 /\ UNCHANGED chain
  BY <1>2
<1>3. CASE c \in Runners /\ chain' = "broken" /\ UNCHANGED queued
  BY <1>3
<1> QED
  BY <1>1, <1>2, <1>3 DEF PutBack

\* A caller whose call throws is idle again as well.
LEMMA RaiseEffect ==
  ASSUME TypeOK, NEW c \in Callers, Raise(c)
  PROVE  /\ Return(c)
         /\ queued' \in Nat /\ queued' >= queued
         /\ chain' \in {"whole", "broken"}
         /\ chain' = "broken" \/ chain' = chain
         /\ c \in Runners => queued' > 0 \/ chain' = "broken"
BY PutBackEffect DEF Raise

\* So is one that dies, and a request that dies before it queues its retry leaves
\* none.
LEMMA CrashEffect ==
  ASSUME TypeOK, NEW c \in Callers, Crash(c)
  PROVE  /\ Return(c) /\ faults' \in 0..MaxFaults
         /\ UNCHANGED <<tables, parcels, intent>>
         /\ causes' \in 0..MaxParcels
         /\ queued' \in Nat /\ queued' >= queued
         /\ chain' \in {"whole", "broken"}
         /\ chain' = "broken" \/ chain' = chain
         /\ c \in Runners => queued' > 0 \/ chain' = "broken"
         /\ c \in Requests /\ phase[c] = "requeueing" => chain' = "broken"
<1>1. /\ Return(c) /\ faults' \in 0..MaxFaults
      /\ UNCHANGED <<tables, parcels, intent>>
      /\ causes' \in 0..MaxParcels
  BY BoundsAssumption DEF Crash, Fault, TypeOK, Cause
<1>2. CASE phase[c] = "requeueing" /\ c \in Requests
  <2>1. chain' = "broken" /\ UNCHANGED queued
    BY <1>2 DEF Crash
  <2> QED
    BY <1>1, <1>2, <2>1, CallersAssumption DEF TypeOK
<1>3. CASE ~(phase[c] = "requeueing" /\ c \in Requests)
  BY <1>1, <1>3, PutBackEffect DEF Crash
<1> QED
  BY <1>2, <1>3

\* An event is counted, or as many as ever matter have been.
LEMMA CauseEffect ==
  ASSUME TypeOK, Cause
  PROVE  /\ causes' \in 0..MaxParcels
         /\ causes' < MaxParcels => causes' = causes + 1
         /\ causes' >= causes
         /\ causes' = 0 => MaxParcels = 0
BY BoundsAssumption DEF TypeOK, Cause

-----------------------------------------------------------------------------
(* Type correctness.                                                       *)

LEMMA GotoType ==
  ASSUME TypeOK, NEW c \in Callers, NEW p \in Phase, Goto(c, p)
  PROVE  phase' \in [Callers -> Phase]
BY DEF TypeOK, Goto

LEMMA ReturnType ==
  ASSUME TypeOK, NEW c \in Callers, Return(c)
  PROVE  phase' \in [Callers -> Phase] /\ mine' \in [Callers -> Nat]
BY DEF TypeOK, Return, Phase

LEMMA PhaseNames ==
  {"checking", "preparing", "calling", "made", "failing", "rejecting",
   "idle", "requeueing", "saved"} \subseteq Phase
BY DEF Phase, Underway

LEMMA TypeStep == TypeOK /\ [Next]_vars => TypeOK'
<1> SUFFICES ASSUME TypeOK, [Next]_vars
             PROVE  TypeOK'
  OBVIOUS
<1> USE BoundsAssumption, PhaseNames
    DEF tables, TypeOK, Decision, ShipmentStatus
<1>1. ASSUME NEW d \in Deciders,
             InsertDecision(d) \/ \E v \in Decision : ReadDecision(d, v)
      PROVE  TypeOK'
  BY <1>1 DEF InsertDecision, ReadDecision
<1>2. ASSUME NEW c \in Callers, ReadRow(c) \/ ReadRowFails(c)
      PROVE  TypeOK'
  <2>1. CASE ReadRow(c)
    <3>1. phase' \in [Callers -> Phase]
      BY <2>1, GotoType DEF ReadRow
    <3>2. queued' \in Nat
      BY <2>1 DEF ReadRow, Begin
    <3>3. causes' \in 0..MaxParcels
      BY <2>1, CauseEffect DEF ReadRow
    <3> QED
      BY <2>1, <3>1, <3>2, <3>3 DEF ReadRow
  <2>2. CASE ReadRowFails(c)
    BY <2>2 DEF ReadRowFails, Begin, Fault
  <2> QED
    BY <1>2, <2>1, <2>2
<1>3. ASSUME NEW c \in Callers, Check(c) \/ Prepare(c)
      PROVE  TypeOK'
  <2>1. CASE Check(c)
    BY <2>1, RaiseEffect, GotoType, ReturnType DEF Check
  <2>2. CASE Prepare(c)
    BY <2>2, RaiseEffect, GotoType, ReturnType DEF Prepare
  <2> QED
    BY <1>3, <2>1, <2>2
<1>4. ASSUME NEW c \in Callers, Accept(c) \/ Reject(c) \/ LoseAnswer(c)
      PROVE  TypeOK'
  <2>1. CASE Accept(c)
    BY <2>1, GotoType DEF Accept
  <2>2. CASE Reject(c)
    BY <2>2, GotoType DEF Reject
  <2>3. CASE LoseAnswer(c)
    BY <2>3, GotoType, CauseEffect DEF LoseAnswer, Fault
  <2> QED
    BY <1>4, <2>1, <2>2, <2>3
<1>5. ASSUME NEW c \in Callers, Save(c) \/ SaveFails(c) \/ Announce(c)
      PROVE  TypeOK'
  <2>1. CASE Save(c)
    BY <2>1, GotoType, CauseEffect DEF Save, Persist, CreateStatus
  <2>2. CASE SaveFails(c)
    BY <2>2, RaiseEffect, ReturnType, CauseEffect DEF SaveFails, Fault
  <2>3. CASE Announce(c)
    BY <2>3, RaiseEffect, ReturnType DEF Announce, Fault
  <2> QED
    BY <1>5, <2>1, <2>2, <2>3
<1>6. ASSUME NEW c \in Callers, SaveRejection(c) \/ SaveFailure(c) \/ EnqueueRetry(c)
      PROVE  TypeOK'
  <2>1. CASE SaveRejection(c)
    BY <2>1, RaiseEffect, ReturnType DEF SaveRejection, Persist, Fault
  <2>2. CASE SaveFailure(c)
    BY <2>2, RaiseEffect, GotoType, ReturnType DEF SaveFailure, Persist, Fault
  <2>3. CASE EnqueueRetry(c)
    <3>1. Return(c) /\ UNCHANGED <<tables, parcels, intent, causes>>
      BY <2>3 DEF EnqueueRetry
    <3>2. CASE queued' = queued + 1 /\ UNCHANGED <<chain, faults>>
      BY <3>1, <3>2, ReturnType
    <3>3. CASE chain' = "broken" /\ Fault /\ UNCHANGED queued
      BY <3>1, <3>3, ReturnType DEF Fault
    <3> QED
      BY <2>3, <3>2, <3>3 DEF EnqueueRetry
  <2> QED
    BY <1>6, <2>1, <2>2, <2>3
<1>7. ASSUME NEW c \in Callers, Crash(c)
      PROVE  TypeOK'
  BY <1>7, CrashEffect DEF Return
<1>8. ASSUME NEW p \in 1..parcels, NEW s \in {"IN_TRANSIT", "DELIVERED", "FAILED"},
             Webhook(p, s)
      PROVE  TypeOK'
  BY <1>8, CauseEffect DEF Webhook, Persist
<1>9. CASE UNCHANGED vars
  BY <1>9 DEF vars
<1> QED
  BY <1>1, <1>2, <1>3, <1>4, <1>5, <1>6, <1>7, <1>8, <1>9 DEF Next, Create

-----------------------------------------------------------------------------
(* The decision and the parcels.                                           *)

LEMMA ConfirmStep ==
  ASSUME TypeOK, ConfirmInv, ParcelNeedsConfirmation, [Next]_vars
  PROVE  ConfirmInv' /\ ParcelNeedsConfirmation'
<1> USE DEF tables, TypeOK, Decision, Underway,
            ConfirmInv, ParcelNeedsConfirmation
<1> DEFINE Goal == ConfirmInv /\ ParcelNeedsConfirmation
<1>1. ASSUME NEW d \in Deciders,
             InsertDecision(d) \/ \E v \in Decision : ReadDecision(d, v)
      PROVE  Goal'
  BY <1>1 DEF InsertDecision, ReadDecision
<1>2. ASSUME NEW c \in Callers, ReadRow(c) \/ ReadRowFails(c)
      PROVE  Goal'
  <2>1. CASE ReadRow(c)
    BY <2>1 DEF ReadRow, Begin, Goto
  <2>2. CASE ReadRowFails(c)
    BY <2>2 DEF ReadRowFails, Begin, Goto, Fault
  <2> QED
    BY <1>2, <2>1, <2>2
<1>3. ASSUME NEW c \in Callers, Check(c) \/ Prepare(c)
      PROVE  Goal'
  <2>1. CASE Check(c)
    BY <2>1, RaiseEffect DEF Check, Goto, Return
  <2>2. CASE Prepare(c)
    BY <2>2, RaiseEffect DEF Prepare, Goto, Return
  <2> QED
    BY <1>3, <2>1, <2>2
<1>4. ASSUME NEW c \in Callers, Accept(c) \/ Reject(c) \/ LoseAnswer(c)
      PROVE  Goal'
  <2>1. CASE Accept(c)
    BY <2>1 DEF Accept, Goto
  <2>2. CASE Reject(c)
    BY <2>2 DEF Reject, Goto
  <2>3. CASE LoseAnswer(c)
    BY <2>3 DEF LoseAnswer, Goto, Fault
  <2> QED
    BY <1>4, <2>1, <2>2, <2>3
<1>5. ASSUME NEW c \in Callers, Save(c) \/ SaveFails(c) \/ Announce(c)
      PROVE  Goal'
  <2>1. CASE Save(c)
    BY <2>1 DEF Save, Goto, Persist
  <2>2. CASE SaveFails(c)
    BY <2>2, RaiseEffect DEF SaveFails, Return, Fault
  <2>3. CASE Announce(c)
    BY <2>3, RaiseEffect DEF Announce, Return, Fault
  <2> QED
    BY <1>5, <2>1, <2>2, <2>3
<1>6. ASSUME NEW c \in Callers, SaveRejection(c) \/ SaveFailure(c) \/ EnqueueRetry(c)
      PROVE  Goal'
  <2>1. CASE SaveRejection(c)
    BY <2>1, RaiseEffect DEF SaveRejection, Persist, Return, Fault
  <2>2. CASE SaveFailure(c)
    BY <2>2, RaiseEffect DEF SaveFailure, Persist, Goto, Return, Fault
  <2>3. CASE EnqueueRetry(c)
    BY <2>3 DEF EnqueueRetry, Return, Fault
  <2> QED
    BY <1>6, <2>1, <2>2, <2>3
<1>7. ASSUME NEW c \in Callers, Crash(c)
      PROVE  Goal'
  BY <1>7, CrashEffect DEF Return
<1>8. ASSUME NEW p \in 1..parcels, NEW s \in {"IN_TRANSIT", "DELIVERED", "FAILED"},
             Webhook(p, s)
      PROVE  Goal'
  BY <1>8 DEF Webhook, Persist
<1>9. CASE UNCHANGED vars
  BY <1>9 DEF vars
<1> QED
  BY <1>1, <1>2, <1>3, <1>4, <1>5, <1>6, <1>7, <1>8, <1>9 DEF Next, Create

\* The calls are finitely many at any time.
LEMMA OpenFinite ==
  /\ IsFiniteSet(Callers)
  /\ IsFiniteSet(Open) /\ Cardinality(Open) \in Nat
<1>1. IsFiniteSet(Callers)
  BY FinitelyMany, FS_Union DEF Callers
<1> QED
  BY <1>1, FS_Subset, FS_CardinalityType DEF Open

\* A step of one call changes how many are open by that call alone.
LEMMA OpenStep ==
  ASSUME TypeOK, NEW c \in Callers, NEW p \in Phase, phase' = [phase EXCEPT ![c] = p]
  PROVE  /\ Cardinality(Open') \in Nat
         /\ phase[c] \in Underway \ {"made"} /\ p \in Underway \ {"made"} =>
              Cardinality(Open') = Cardinality(Open)
         /\ phase[c] \notin Underway \ {"made"} /\ p \notin Underway \ {"made"} =>
              Cardinality(Open') = Cardinality(Open)
         /\ phase[c] \notin Underway \ {"made"} /\ p \in Underway \ {"made"} =>
              Cardinality(Open') = Cardinality(Open) + 1
         /\ phase[c] \in Underway \ {"made"} /\ p \notin Underway \ {"made"} =>
              Cardinality(Open') = Cardinality(Open) - 1
<1> DEFINE busy == Underway \ {"made"}
<1>1. CASE p \in busy
  <2>1. Open' = Open \union {c}
    BY <1>1 DEF Open, TypeOK
  <2>2. c \in Open <=> phase[c] \in busy
    BY DEF Open
  <2>3. Cardinality(Open') = IF c \in Open THEN Cardinality(Open) ELSE Cardinality(Open) + 1
    BY <2>1, OpenFinite, FS_AddElement
  <2> QED
    BY <1>1, <2>2, <2>3, OpenFinite
<1>2. CASE p \notin busy
  <2>1. Open' = Open \ {c}
    BY <1>2 DEF Open, TypeOK
  <2> QED
    BY <1>2, <2>1, OpenFinite, FS_RemoveElement, FS_CardinalityType DEF Open
<1> QED
  BY <1>1, <1>2

LEMMA OpenWithout ==
  ASSUME TypeOK, NEW c \in Callers, phase' = [phase EXCEPT ![c] = "idle"]
  PROVE  /\ phase[c] \in Underway \ {"made"} => Cardinality(Open') = Cardinality(Open) - 1
         /\ phase[c] \notin Underway \ {"made"} => Cardinality(Open') = Cardinality(Open)
<1>1. "idle" \in Phase /\ "idle" \notin Underway \ {"made"}
  BY DEF Phase, Underway
<1> QED
  BY <1>1, OpenStep

\* The row invites at most one call.
LEMMA SpareBound == Spare \in {0, 1} /\ Spare' \in {0, 1}
BY DEF Spare

\* Whatever happens, each parcel keeps its cause.
LEMMA CauseStep ==
  ASSUME TypeOK, CauseInv, [Next]_vars
  PROVE  CauseInv'
<1> USE BoundsAssumption, OpenFinite, SpareBound, PhaseNames DEF tables, TypeOK, CauseInv
<1>1. ASSUME NEW d \in Deciders,
             InsertDecision(d) \/ \E v \in Decision : ReadDecision(d, v)
      PROVE  CauseInv'
  BY <1>1 DEF InsertDecision, ReadDecision, Open, Spare
<1>2. ASSUME NEW c \in Callers, ReadRow(c) \/ ReadRowFails(c)
      PROVE  CauseInv'
  <2>1. CASE ReadRow(c) /\ shipment \in Shipped
    BY <2>1 DEF ReadRow, Open, Spare
  <2>2. CASE ReadRow(c) /\ shipment \notin Shipped
    <3>1. Cardinality(Open') = Cardinality(Open) + 1 /\ Spare' = 0
      BY <2>2, OpenStep DEF ReadRow, Begin, Goto, Underway, Spare
    <3>2. CASE \E b \in Callers : phase[b] \in Underway
      BY <2>2, <3>1, <3>2, CauseEffect DEF ReadRow
    <3>3. CASE \A b \in Callers : phase[b] \notin Underway
      <4>1. Spare = 1 /\ UNCHANGED <<causes, parcels>>
        BY <2>2, <3>3 DEF ReadRow, Spare
      <4> QED
        BY <3>1, <4>1
    <3> QED
      BY <3>2, <3>3
  <2>3. CASE ReadRowFails(c)
    BY <2>3 DEF ReadRowFails, Open, Spare
  <2> QED
    BY <1>2, <2>1, <2>2, <2>3 DEF ReadRow
<1>3. ASSUME NEW c \in Callers, Check(c) \/ Prepare(c)
      PROVE  CauseInv'
  <2>1. UNCHANGED <<parcels, causes, shipment>>
    BY <1>3 DEF Check, Prepare
  <2>2. CASE Return(c)
    <3>1. Cardinality(Open') = Cardinality(Open) - 1
      BY <1>3, <2>2, OpenStep DEF Check, Prepare, Return, Underway
    <3>2. Spare = 0
      BY <1>3 DEF Check, Prepare, Spare, Underway
    <3> QED
      BY <2>1, <3>1, <3>2
  <2>3. CASE \E p \in {"preparing", "calling", "rejecting"} : Goto(c, p)
    <3> PICK p \in {"preparing", "calling", "rejecting"} : Goto(c, p)
      BY <2>3
    <3>1. Cardinality(Open') = Cardinality(Open)
      <4>1. phase[c] \in Underway \ {"made"} /\ p \in Underway \ {"made"} /\ p \in Phase
        BY <1>3 DEF Check, Prepare, Underway
      <4>2. phase' = [phase EXCEPT ![c] = p]
        BY DEF Goto
      <4> QED
        BY <4>1, <4>2, OpenStep
    <3>2. Spare' = 0
      BY DEF Goto, Spare, Underway
    <3> QED
      BY <2>1, <3>1, <3>2
  <2> QED
    BY <1>3, <2>2, <2>3 DEF Check, Prepare, Raise
<1>4. ASSUME NEW c \in Callers, Accept(c) \/ Reject(c) \/ LoseAnswer(c)
      PROVE  CauseInv'
  <2>1. Spare' = 0
    BY <1>4 DEF Accept, Reject, LoseAnswer, Goto, Spare, Underway
  <2>2. CASE Accept(c)
    <3>1. Cardinality(Open') = Cardinality(Open) - 1
      BY <2>2, OpenStep DEF Accept, Goto, Underway
    <3> QED
      BY <2>1, <2>2, <3>1 DEF Accept
  <2>3. CASE Reject(c)
    <3>1. Cardinality(Open') = Cardinality(Open)
      BY <2>3, OpenStep DEF Reject, Goto, Underway
    <3> QED
      BY <2>1, <2>3, <3>1 DEF Reject
  <2>4. CASE LoseAnswer(c)
    <3>1. Cardinality(Open') = Cardinality(Open)
      BY <2>4, OpenStep DEF LoseAnswer, Goto, Underway
    <3> QED
      BY <2>1, <2>4, <3>1, CauseEffect DEF LoseAnswer
  <2> QED
    BY <1>4, <2>2, <2>3, <2>4
<1>5. ASSUME NEW c \in Callers, Save(c) \/ SaveFails(c)
      PROVE  CauseInv'
  <2>1. Cardinality(Open') = Cardinality(Open) /\ Spare = 0
    BY <1>5, OpenStep DEF Save, SaveFails, Goto, Raise, Return, Underway, Spare
  <2>2. UNCHANGED parcels /\ (Cause \/ (UNCHANGED causes /\ Spare' = 0))
    <3>1. CASE SaveFails(c)
      BY <3>1 DEF SaveFails
    <3>2. CASE Save(c)
      <4>1. PICK s \in CreateStatus : /\ shipment' = s
                                     /\ IF s \in Shipped THEN UNCHANGED causes ELSE Cause
        BY <3>2 DEF Save, Persist
      <4>2. s \in Shipped => Spare' = 0
        BY <4>1 DEF Spare
      <4>3. UNCHANGED parcels
        BY <3>2 DEF Save
      <4> QED
        BY <4>1, <4>2, <4>3
    <3> QED
      BY <1>5, <3>1, <3>2
  <2> QED
    BY <2>1, <2>2, CauseEffect
<1>6. ASSUME NEW c \in Callers, SaveRejection(c) \/ SaveFailure(c)
      PROVE  CauseInv'
  <2>1. UNCHANGED <<parcels, causes>> /\ Spare = 0
    BY <1>6 DEF SaveRejection, SaveFailure, Spare, Underway
  <2>2. Cardinality(Open') = Cardinality(Open) - 1
    BY <1>6, OpenStep DEF SaveRejection, SaveFailure, Goto, Raise, Return, Underway
  <2> QED
    BY <2>1, <2>2
<1>7. ASSUME NEW c \in Callers, Announce(c) \/ EnqueueRetry(c)
      PROVE  CauseInv'
  <2>1. UNCHANGED <<parcels, causes, shipment>>
    BY <1>7 DEF Announce, EnqueueRetry
  <2>2. phase[c] \notin Underway /\ phase' = [phase EXCEPT ![c] = "idle"]
    BY <1>7 DEF Announce, EnqueueRetry, Raise, Return, Underway
  <2>3. Cardinality(Open') = Cardinality(Open)
    BY <2>2, OpenStep DEF Underway
  <2>4. Spare' = Spare
    BY <2>1, <2>2 DEF Spare, Underway
  <2> QED
    BY <2>1, <2>3, <2>4
<1>8. ASSUME NEW c \in Callers, Crash(c)
      PROVE  CauseInv'
  <2>1. phase' = [phase EXCEPT ![c] = "idle"] /\ UNCHANGED <<parcels, shipment>>
    BY <1>8 DEF Crash, Return
  <2>5. IF phase[c] = "made" THEN Cause ELSE UNCHANGED causes
    BY <1>8 DEF Crash
  <2>2. CASE phase[c] = "made"
    <3>1. Cardinality(Open') = Cardinality(Open) /\ Cause
      BY <2>1, <2>2, <2>5, OpenWithout
    <3>2. Spare = 0
      BY <2>2 DEF Spare, Underway
    <3> QED
      BY <2>1, <3>1, <3>2, CauseEffect
  <2>3. CASE phase[c] \in Underway \ {"made"}
    <3>1. Cardinality(Open') = Cardinality(Open) - 1 /\ UNCHANGED causes
      BY <2>1, <2>3, <2>5, OpenWithout
    <3>2. Spare = 0
      BY <2>3 DEF Spare
    <3> QED
      BY <2>1, <3>1, <3>2
  <2>4. CASE phase[c] \notin Underway
    <3>1. Cardinality(Open') = Cardinality(Open) /\ UNCHANGED causes
      BY <2>1, <2>4, <2>5, OpenWithout DEF Underway
    <3>2. Spare' = Spare
      BY <2>1, <2>4 DEF Spare, Underway
    <3> QED
      BY <2>1, <3>1, <3>2
  <2> QED
    BY <2>2, <2>3, <2>4
<1>9. ASSUME NEW p \in 1..parcels, NEW s \in {"IN_TRANSIT", "DELIVERED", "FAILED"},
             Webhook(p, s)
      PROVE  CauseInv'
  <2>1. Open' = Open /\ UNCHANGED <<parcels, phase>> /\ shipment' = s
    BY <1>9 DEF Webhook, Persist, Open
  <2>2. CASE s = "FAILED" /\ shipment \in Shipped
    <3>1. Cause /\ Spare = 0
      BY <1>9, <2>2 DEF Webhook, Spare
    <3> QED
      BY <2>1, <3>1, CauseEffect
  <2>3. CASE s # "FAILED" \/ shipment \notin Shipped
    <3>1. UNCHANGED causes
      BY <1>9, <2>3 DEF Webhook
    <3>2. Spare' <= Spare
      BY <2>1, <2>3 DEF Spare, Shipped
    <3> QED
      BY <2>1, <3>1, <3>2
  <2> QED
    BY <2>2, <2>3
<1>10. CASE UNCHANGED vars
  BY <1>10 DEF vars, Open, Spare
<1> QED
  BY <1>1, <1>2, <1>3, <1>4, <1>5, <1>6, <1>7, <1>8, <1>9, <1>10 DEF Next, Create

\* No number is invented.
LEMMA NumberStep ==
  ASSUME TypeOK, NumberInv, [Next]_vars
  PROVE  NumberInv'
<1> USE BoundsAssumption DEF tables, TypeOK, NumberInv
<1>1. ASSUME NEW d \in Deciders,
             InsertDecision(d) \/ \E v \in Decision : ReadDecision(d, v)
      PROVE  NumberInv'
  BY <1>1 DEF InsertDecision, ReadDecision
<1>2. ASSUME NEW c \in Callers,
             \/ ReadRow(c) \/ ReadRowFails(c) \/ Check(c) \/ Prepare(c) \/ Reject(c)
             \/ EnqueueRetry(c) \/ Announce(c) \/ SaveFails(c) \/ Crash(c)
      PROVE  NumberInv'
  <2>1. UNCHANGED <<parcels, tracking>>
    BY <1>2 DEF ReadRow, ReadRowFails, Check, Prepare, Reject, EnqueueRetry, Announce,
                SaveFails, Crash
  <2>2. \/ Return(c)
        \/ UNCHANGED mine /\ (UNCHANGED phase \/ \E p \in Phase \ {"made"} : Goto(c, p))
    BY <1>2 DEF ReadRow, ReadRowFails, Check, Prepare, Reject, EnqueueRetry, Announce,
                SaveFails, Crash, Raise, Phase, Underway
  <2> QED
    BY <2>1, <2>2 DEF Return, Goto
<1>3. ASSUME NEW c \in Callers, Accept(c) \/ LoseAnswer(c)
      PROVE  NumberInv'
  BY <1>3 DEF Accept, LoseAnswer, Goto
<1>4. ASSUME NEW c \in Callers, Save(c)
      PROVE  NumberInv'
  BY <1>4 DEF Save, Persist, Goto
<1>5. ASSUME NEW c \in Callers, SaveRejection(c) \/ SaveFailure(c)
      PROVE  NumberInv'
  BY <1>5 DEF SaveRejection, SaveFailure, Persist, Goto, Raise, Return
<1>6. ASSUME NEW p \in 1..parcels, NEW s \in {"IN_TRANSIT", "DELIVERED", "FAILED"},
             Webhook(p, s)
      PROVE  NumberInv'
  BY <1>6 DEF Webhook, Persist
<1>7. CASE UNCHANGED vars
  BY <1>7 DEF vars
<1> QED
  BY <1>1, <1>2, <1>3, <1>4, <1>5, <1>6, <1>7 DEF Next, Create

-----------------------------------------------------------------------------
(* The retries.                                                            *)

LEMMA RetryStep ==
  ASSUME TypeOK, RefusedInv, NoFailureStranded, [Next]_vars
  PROVE  RefusedInv' /\ NoFailureStranded'
<1> USE CallersAssumption
    DEF tables, TypeOK, Underway, Shipped, Callers, RefusedInv,
        NoFailureStranded, Follows
<1> DEFINE Goal == RefusedInv /\ NoFailureStranded
<1>1. ASSUME NEW d \in Deciders,
             InsertDecision(d) \/ \E v \in Decision : ReadDecision(d, v)
      PROVE  Goal'
  BY <1>1 DEF InsertDecision, ReadDecision
<1>2. ASSUME NEW c \in Callers, ReadRow(c) \/ ReadRowFails(c)
      PROVE  Goal'
  <2>1. CASE ReadRow(c)
    BY <2>1 DEF ReadRow, Begin, Goto
  <2>2. CASE ReadRowFails(c)
    BY <2>2 DEF ReadRowFails, Begin, Goto, Fault
  <2> QED
    BY <1>2, <2>1, <2>2
<1>3. ASSUME NEW c \in Callers, Check(c) \/ Prepare(c)
      PROVE  Goal'
  <2>1. CASE Check(c)
    BY <2>1, RaiseEffect DEF Check, Goto, Return
  <2>2. CASE Prepare(c)
    BY <2>2, RaiseEffect DEF Prepare, Goto, Return
  <2> QED
    BY <1>3, <2>1, <2>2
<1>4. ASSUME NEW c \in Callers, Accept(c) \/ Reject(c) \/ LoseAnswer(c)
      PROVE  Goal'
  <2>1. CASE Accept(c)
    BY <2>1 DEF Accept, Goto
  <2>2. CASE Reject(c)
    BY <2>2 DEF Reject, Goto
  <2>3. CASE LoseAnswer(c)
    BY <2>3 DEF LoseAnswer, Goto, Fault
  <2> QED
    BY <1>4, <2>1, <2>2, <2>3
<1>5. ASSUME NEW c \in Callers, Save(c) \/ SaveFails(c) \/ Announce(c)
      PROVE  Goal'
  <2>1. CASE Save(c)
    BY <2>1 DEF Save, Goto, Persist
  <2>2. CASE SaveFails(c)
    BY <2>2, RaiseEffect DEF SaveFails, Return, Fault
  <2>3. CASE Announce(c)
    BY <2>3, RaiseEffect DEF Announce, Return, Fault
  <2> QED
    BY <1>5, <2>1, <2>2, <2>3
<1>6. ASSUME NEW c \in Callers, SaveRejection(c) \/ SaveFailure(c) \/ EnqueueRetry(c)
      PROVE  Goal'
  <2>1. CASE SaveRejection(c)
    BY <2>1, RaiseEffect DEF SaveRejection, Persist, Return, Fault
  <2>2. CASE SaveFailure(c)
    BY <2>2, RaiseEffect DEF SaveFailure, Persist, Goto, Return, Fault
  <2>3. CASE EnqueueRetry(c)
    BY <2>3 DEF EnqueueRetry, Return, Fault
  <2> QED
    BY <1>6, <2>1, <2>2, <2>3
<1>7. ASSUME NEW c \in Callers, Crash(c)
      PROVE  Goal'
  BY <1>7, CrashEffect DEF Return
<1>8. ASSUME NEW p \in 1..parcels, NEW s \in {"IN_TRANSIT", "DELIVERED", "FAILED"},
             Webhook(p, s)
      PROVE  Goal'
  BY <1>8 DEF Webhook, Persist
<1>9. CASE UNCHANGED vars
  BY <1>9 DEF vars
<1> QED
  BY <1>1, <1>2, <1>3, <1>4, <1>5, <1>6, <1>7, <1>8, <1>9 DEF Next, Create

-----------------------------------------------------------------------------
(* The theorems.                                                           *)

\* No decision, no row, no parcel and no job: everything holds.
LEMMA Initially == Init => IInv
<1> SUFFICES ASSUME Init PROVE IInv
  OBVIOUS
<1>1. TypeOK
  BY BoundsAssumption DEF Init, TypeOK, Decision, ShipmentStatus, Phase
<1>2. ConfirmInv /\ ParcelNeedsConfirmation /\ NumberInv
  BY DEF Init, ConfirmInv, ParcelNeedsConfirmation, NumberInv, Underway
<1>4. CauseInv
  <2>1. Open = {}
    BY DEF Init, Open, Underway
  <2> QED
    BY <2>1, FS_EmptySet, SpareBound DEF Init, CauseInv
<1>3. RefusedInv /\ NoFailureStranded
  BY DEF Init, RefusedInv, NoFailureStranded
<1> QED
  BY <1>1, <1>2, <1>3, <1>4 DEF IInv

LEMMA Inductive == IInv /\ [Next]_vars => IInv'
BY TypeStep, ConfirmStep, CauseStep, NumberStep, RetryStep DEF IInv

\* The invariant holds throughout.
THEOREM Invariance == Spec => []IInv
BY Initially, Inductive, PTL DEF Spec

\* Every variable keeps its type.
THEOREM TypeCorrect == Spec => []TypeOK
<1>1. IInv => TypeOK
  BY DEF IInv
<1> QED
  BY <1>1, Invariance, PTL

\* No parcel is made for an order that is not confirmed, whoever races.
THEOREM ParcelsAreConfirmed == Spec => []ParcelNeedsConfirmation
<1>1. IInv => ParcelNeedsConfirmation
  BY DEF IInv
<1> QED
  BY <1>1, Invariance, PTL

\* The courier makes one parcel, and one more for each event that costs one.
THEOREM ParcelsAreAccounted == Spec => []ParcelsAccounted
<1>1. ASSUME IInv PROVE ParcelsAccounted
  <2> USE <1>1, BoundsAssumption, OpenFinite, SpareBound DEF IInv, TypeOK, CauseInv
  <2>1. parcels <= 1 + causes
    OBVIOUS
  <2>2. ASSUME parcels = 1 + causes, shipment \notin Shipped
        PROVE  \E c \in Callers : phase[c] = "made"
    <3>1. Cardinality(Open) = 0 /\ Spare = 0
      BY <2>2
    <3>2. Open = {}
      BY <3>1, FS_EmptySet
    <3>3. PICK c \in Callers : phase[c] \in Underway
      BY <2>2, <3>1 DEF Spare
    <3> QED
      BY <3>2, <3>3 DEF Open
  <2> QED
    BY <2>1, <2>2 DEF ParcelsAccounted
<1> QED
  BY <1>1, Invariance, PTL

\* A shipment that the courier refused is retried or given up by the queue.
THEOREM FailuresAreFollowed == Spec => []NoFailureStranded
<1>1. IInv => NoFailureStranded
  BY DEF IInv
<1> QED
  BY <1>1, Invariance, PTL

\* A recorded decision is never changed.
THEOREM DecisionStands == Spec => DecisionIsFinal
<1>1. ASSUME [Next]_vars PROVE decision # "none" => decision' = decision
  <2> USE DEF tables
  <2>1. ASSUME NEW c \in Callers, Create(c) PROVE UNCHANGED decision
    BY <2>1 DEF Create, ReadRow, ReadRowFails, Check, Prepare, Accept, Reject,
                LoseAnswer, Save, SaveFails, Announce, SaveRejection, SaveFailure,
                EnqueueRetry, Persist
  <2>2. ASSUME NEW c \in Callers, Crash(c) PROVE UNCHANGED decision
    BY <2>2 DEF Crash
  <2>3. ASSUME NEW p \in 1..parcels, NEW s \in {"IN_TRANSIT", "DELIVERED", "FAILED"},
               Webhook(p, s)
        PROVE  UNCHANGED decision
    BY <2>3 DEF Webhook, Persist
  <2>4. ASSUME NEW d \in Deciders, NEW v \in Decision, ReadDecision(d, v)
        PROVE  UNCHANGED decision
    BY <2>4 DEF ReadDecision
  <2>5. ASSUME NEW d \in Deciders, InsertDecision(d)
        PROVE  decision # "none" => decision' = decision
    BY <2>5 DEF InsertDecision
  <2>6. CASE UNCHANGED vars
    BY <2>6 DEF vars
  <2> QED
    BY <1>1, <2>1, <2>2, <2>3, <2>4, <2>5, <2>6 DEF Next
<1> QED
  BY <1>1, PTL DEF Spec, DecisionIsFinal

\* Before the first such event the row keeps the tracking number that it shows.
THEOREM TrackingStays == Spec => TrackingKept
<1> DEFINE Saving == \E c \in Callers : phase[c] = "made" /\ phase'[c] = "saved"
           Kept == tracking # 0 /\ tracking' # tracking =>
                     \/ causes > 0
                     \/ tracking' = 0 /\ Saving
<1>1. ASSUME IInv, [Next]_vars PROVE Kept
  <2>0. TypeOK
    BY <1>1 DEF IInv
  <2> SUFFICES ASSUME tracking # 0, causes = 0
               PROVE  tracking' = tracking \/ (tracking' = 0 /\ Saving)
    BY <2>0, BoundsAssumption DEF TypeOK
  <2> USE DEF tables
  <2>1. /\ TypeOK /\ NumberInv /\ CauseInv
        /\ parcels \in 1..MaxParcels
    BY <1>1, BoundsAssumption DEF IInv, TypeOK, NumberInv
  <2>2. parcels = 1 /\ Cardinality(Open) = 0
    BY <2>1, BoundsAssumption, OpenFinite, SpareBound DEF CauseInv, TypeOK
  <2>3. Open = {} /\ tracking = 1
    BY <2>1, <2>2, OpenFinite, FS_EmptySet DEF NumberInv, TypeOK
  <2>4. ASSUME NEW c \in Callers, Save(c)
        PROVE  tracking' = tracking \/ (tracking' = 0 /\ Saving)
    <3>1. mine[c] = 1 /\ phase'[c] = "saved"
      BY <2>1, <2>2, <2>4 DEF Save, Goto, NumberInv, TypeOK
    <3> QED
      BY <2>3, <2>4, <3>1 DEF Save, Persist
  <2>5. ASSUME NEW c \in Callers, SaveRejection(c) \/ SaveFailure(c)
        PROVE  tracking' = tracking
    BY <2>3, <2>5 DEF SaveRejection, SaveFailure, Open, Underway
  <2>6. ASSUME NEW c \in Callers,
               \/ ReadRow(c) \/ ReadRowFails(c) \/ Check(c) \/ Prepare(c)
               \/ Accept(c) \/ Reject(c) \/ LoseAnswer(c)
               \/ SaveFails(c) \/ Announce(c) \/ EnqueueRetry(c) \/ Crash(c)
        PROVE  tracking' = tracking
    BY <2>6 DEF ReadRow, ReadRowFails, Check, Prepare, Accept, Reject, LoseAnswer,
                SaveFails, Announce, EnqueueRetry, Crash
  <2>7. ASSUME NEW p \in 1..parcels, NEW s \in {"IN_TRANSIT", "DELIVERED", "FAILED"},
               Webhook(p, s)
        PROVE  tracking' = tracking
    BY <2>2, <2>3, <2>7 DEF Webhook, Persist
  <2>8. ASSUME NEW d \in Deciders,
               InsertDecision(d) \/ \E v \in Decision : ReadDecision(d, v)
        PROVE  tracking' = tracking
    BY <2>8 DEF InsertDecision, ReadDecision
  <2>9. CASE UNCHANGED vars
    BY <2>9 DEF vars
  <2> QED
    BY <1>1, <2>4, <2>5, <2>6, <2>7, <2>8, <2>9 DEF Next, Create
<1> QED
  BY <1>1, Invariance, PTL DEF Spec, TrackingKept
=============================================================================
