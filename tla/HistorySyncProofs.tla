--------------------------- MODULE HistorySyncProofs ---------------------------
(***************************************************************************)
(* Proofs about HistorySync, for every finite set of parcels, every number *)
(* of syncs beside each other, every overlap and every limit of a run.     *)
(***************************************************************************)
EXTENDS HistorySync, TLAPS

-----------------------------------------------------------------------------
(* Types.                                                                  *)

LEMMA NewPageType ==
  ASSUME NEW p \in Trackings \union {NoTracking}, NEW r \in Time, NEW done \in BOOLEAN,
         NewPage(p, r, done)
  PROVE  page' \in Trackings \union {NoTracking} /\ pageSaw' \in Time /\ pageDone' \in BOOLEAN
BY DEF NewPage

LEMMA GoOnType ==
  ASSUME HistoryTypeOK, saved' \in [{"parcels", "histories"} -> SUBSET Trackings],
         NEW s \in {"parcels", "histories"}, GoOn(s)
  PROVE  /\ stage' \in {"parcels", "histories", "done"} /\ left' \subseteq Trackings
         /\ page' \in Trackings \union {NoTracking} /\ pageSaw' \in Time /\ pageDone' \in BOOLEAN
<1>1. stage' \in {"parcels", "histories", "done"}
  BY DEF GoOn
<1>2. left' \subseteq Trackings
  BY <1>1 DEF GoOn
<1>3. page' \in Trackings \union {NoTracking} /\ pageSaw' \in Time /\ pageDone' \in BOOLEAN
  <2>1. 0 \in Time
    BY HistoryBounds DEF Time
  <2> QED
    BY <2>1, NewPageType DEF GoOn
<1> QED
  BY <1>1, <1>2, <1>3

LEMMA MarksType ==
  ASSUME HistoryTypeOK, NEW k \in WindowMark, NEW S \in SUBSET Trackings
  PROVE  Marks(k, S) \subseteq WindowMark \X Trackings \X Time
<1> SUFFICES ASSUME NEW p \in S
             PROVE  <<k, p, changed[p]>> \in WindowMark \X Trackings \X Time
  BY DEF Marks
<1>1. changed[p] \in Time
  BY DEF HistoryTypeOK, Time
<1> QED
  BY <1>1

LEMMA FaultType ==
  ASSUME HistoryTypeOK, NEW bad \in BOOLEAN, HistoryFault(bad)
  PROVE  historyFaults' \in 0..MaxHistoryFaults
BY HistoryBounds DEF HistoryTypeOK, HistoryFault

LEMMA ListedType ==
  ASSUME listedAs \in [Workers -> [Trackings -> Time]],
         NEW w \in Workers, NEW p \in Trackings, NEW t \in Time
  PROVE  [listedAs EXCEPT ![w][p] = t] \in [Workers -> [Trackings -> Time]]
OBVIOUS

LEMMA PassType ==
  ASSUME pass \in [Workers -> {"idle", "start", "list", "write", "history"}],
         NEW w \in Workers, NEW a \in {"idle", "start", "list", "write", "history"}, PassTo(w, a)
  PROVE  pass' \in [Workers -> {"idle", "start", "list", "write", "history"}]
BY DEF PassTo

LEMMA SavedType ==
  ASSUME saved \in [{"parcels", "histories"} -> SUBSET Trackings], NEW S \in SUBSET Trackings
  PROVE  [saved EXCEPT ![stage] = S] \in [{"parcels", "histories"} -> SUBSET Trackings]
OBVIOUS

LEMMA RestType ==
  ASSUME HistoryTypeOK, NEW w \in Workers, Rest(w)
  PROVE  /\ kind' \in [Workers -> {"incremental", "targeted"}]
         /\ pass' \in [Workers -> {"idle", "start", "list", "write", "history"}]
         /\ began' \in [Workers -> Time] /\ anchor' \in [Workers -> Time]
         /\ unlisted' \in [Workers -> SUBSET Trackings]
         /\ batch' \in [Workers -> SUBSET Trackings]
         /\ listedAs' \in [Workers -> [Trackings -> Time]]
         /\ current' \in [Workers -> Trackings \union {NoTracking}]
<1>1. 0 \in Time /\ Unseen \in [Trackings -> Time]
  BY HistoryBounds DEF Time, Unseen
<1>2. /\ kind' \in [Workers -> {"incremental", "targeted"}]
      /\ pass' \in [Workers -> {"idle", "start", "list", "write", "history"}]
  BY DEF HistoryTypeOK, Rest, PassTo
<1>3. began' \in [Workers -> Time] /\ anchor' \in [Workers -> Time]
  BY <1>1 DEF HistoryTypeOK, Rest
<1>4. /\ unlisted' \in [Workers -> SUBSET Trackings]
      /\ batch' \in [Workers -> SUBSET Trackings]
      /\ current' \in [Workers -> Trackings \union {NoTracking}]
  BY DEF HistoryTypeOK, Rest
<1>5. listedAs' \in [Workers -> [Trackings -> Time]]
  BY <1>1 DEF HistoryTypeOK, Rest
<1> QED
  BY <1>2, <1>3, <1>4, <1>5

\* Every step keeps the types.
LEMMA HistoryTypeStep ==
  ASSUME HistoryTypeOK, ClockInv, [HistoryNext]_historyVars
  PROVE  HistoryTypeOK'
<1> USE HistoryBounds DEF HistoryTypeOK, world, full, worker, PassTo, WindowMark
<1>0. 0 \in Time /\ clock \in Time /\ Start \in Nat
  BY DEF Time, Start
<1>1. CASE Tick
  BY <1>1, <1>0 DEF Tick, Start
<1>2. ASSUME NEW p \in Trackings, Move(p)
      PROVE  HistoryTypeOK'
  BY <1>2, <1>0 DEF Move, Start
<1>3. ASSUME NEW p \in Trackings, ReadPage(p)
      PROVE  HistoryTypeOK'
  <2>1. changed[p] \in Time
    BY DEF Time
  <2>2. page' \in Trackings \union {NoTracking} /\ pageSaw' \in Time /\ pageDone' \in BOOLEAN
    BY <1>3, <2>1, NewPageType DEF ReadPage
  <2> QED
    BY <1>3, <2>2 DEF ReadPage
<1>4. CASE WriteParcels \/ WriteHistories
  <2>1. page' \in Trackings \union {NoTracking} /\ pageSaw' \in Time /\ pageDone' \in BOOLEAN
    BY <1>4, NewPageType DEF WriteParcels, WriteHistories
  <2>2. CASE WriteParcels
    BY <2>1, <2>2 DEF WriteParcels
  <2>3. CASE WriteHistories
    BY <2>1, <2>3 DEF WriteHistories
  <2> QED
    BY <1>4, <2>2, <2>3
<1>5. CASE SaveCursor
  <2>1. page' \in Trackings \union {NoTracking} /\ pageSaw' \in Time /\ pageDone' \in BOOLEAN
    BY <1>0, <1>5, NewPageType DEF SaveCursor
  <2>2. left' \subseteq Trackings
    BY <1>5 DEF SaveCursor
  <2>3. saved' \in [{"parcels", "histories"} -> SUBSET Trackings]
    <3>1. saved' \in {saved, [saved EXCEPT ![stage] = left']}
      BY <1>5 DEF SaveCursor
    <3> QED
      BY <2>2, <3>1, SavedType
  <2>4. historyFaults' \in 0..MaxHistoryFaults
    BY <1>5, FaultType DEF SaveCursor
  <2> QED
    BY <1>5, <2>1, <2>2, <2>3, <2>4 DEF SaveCursor
<1>6. CASE CompleteParcels
  <2>1. saved' \in [{"parcels", "histories"} -> SUBSET Trackings]
    BY <1>6 DEF CompleteParcels
  <2>2. /\ stage' \in {"parcels", "histories", "done"} /\ left' \subseteq Trackings
        /\ page' \in Trackings \union {NoTracking} /\ pageSaw' \in Time /\ pageDone' \in BOOLEAN
    BY <1>6, <2>1, GoOnType DEF CompleteParcels
  <2>3. historyFaults' \in 0..MaxHistoryFaults
    BY <1>6, FaultType DEF CompleteParcels
  <2>4. windowMarks' \subseteq WindowMark \X Trackings \X Time
    <3> DEFINE T == {p \in Unread : Lagging(p)}
               S == {p \in Trackings : Lagging(p) /\ clock > Start + Overlap}
    <3>1. T \in SUBSET Trackings /\ S \in SUBSET Trackings
      BY DEF Unread
    <3>2. \/ windowMarks' = windowMarks \union Marks("torn", T) \union Marks("slow", S)
          \/ windowMarks' = windowMarks
      BY <1>6 DEF CompleteParcels
    <3>3. /\ Marks("torn", T) \subseteq WindowMark \X Trackings \X Time
          /\ Marks("slow", S) \subseteq WindowMark \X Trackings \X Time
      BY <3>1, MarksType
    <3> HIDE DEF T, S
    <3> QED
      BY <3>2, <3>3
  <2>5. checkpoint' \in Time
    BY <1>0, <1>6 DEF CompleteParcels
  <2> QED
    BY <1>6, <2>1, <2>2, <2>3, <2>4, <2>5 DEF CompleteParcels
<1>17. CASE CompleteHistories
  <2>1. page' \in Trackings \union {NoTracking} /\ pageSaw' \in Time /\ pageDone' \in BOOLEAN
    BY <1>0, <1>17, NewPageType DEF CompleteHistories
  <2>2. saved' \in [{"parcels", "histories"} -> SUBSET Trackings]
    BY <1>17 DEF CompleteHistories
  <2>3. historyFaults' \in 0..MaxHistoryFaults
    BY <1>17, FaultType DEF CompleteHistories
  <2>4. windowMarks' \subseteq WindowMark \X Trackings \X Time
    <3> DEFINE T == {p \in Unread : events[p] # changed[p]}
    <3>1. T \in SUBSET Trackings
      BY DEF Unread
    <3>2. windowMarks' = windowMarks \union Marks("torn", T)
      BY <1>17 DEF CompleteHistories
    <3>3. Marks("torn", T) \subseteq WindowMark \X Trackings \X Time
      BY <3>1, MarksType
    <3> HIDE DEF T
    <3> QED
      BY <3>2, <3>3
  <2> QED
    BY <1>17, <2>1, <2>2, <2>3, <2>4 DEF CompleteHistories
<1>18. CASE ResumeFull
  <2>1. saved' \in [{"parcels", "histories"} -> SUBSET Trackings]
    BY <1>18 DEF ResumeFull
  <2>2. /\ stage' \in {"parcels", "histories", "done"} /\ left' \subseteq Trackings
        /\ page' \in Trackings \union {NoTracking} /\ pageSaw' \in Time /\ pageDone' \in BOOLEAN
    BY <1>18, <2>1, GoOnType DEF ResumeFull
  <2> QED
    BY <1>18, <2>1, <2>2 DEF ResumeFull
<1>7. ASSUME NEW w \in Workers, NEW p \in Trackings, Aim(w, p)
      PROVE  HistoryTypeOK'
  <2>1. changed[p] \in Time
    BY DEF Time
  <2>2. /\ PassTo(w, "write") \/ PassTo(w, "history")
        /\ listedAs' \in {listedAs, [listedAs EXCEPT ![w][p] = changed[p]]}
        /\ batch' \in {batch, [batch EXCEPT ![w] = {p}]}
        /\ current' \in {current, [current EXCEPT ![w] = p]}
    <3> HIDE DEF HistoryTypeOK, PassTo
    <3> QED
      BY <1>7 DEF Aim
  <2>3. listedAs' \in [Workers -> [Trackings -> Time]]
    <3>1. [listedAs EXCEPT ![w][p] = changed[p]] \in [Workers -> [Trackings -> Time]]
      BY <2>1, ListedType
    <3> QED
      BY <2>2, <3>1
  <2>4. batch' \in [Workers -> SUBSET Trackings]
    <3>1. [batch EXCEPT ![w] = {p}] \in [Workers -> SUBSET Trackings]
      OBVIOUS
    <3> QED
      BY <2>2, <3>1
  <2>5. current' \in [Workers -> Trackings \union {NoTracking}]
    <3>1. [current EXCEPT ![w] = p] \in [Workers -> Trackings \union {NoTracking}]
      OBVIOUS
    <3> QED
      BY <2>2, <3>1
  <2>6. pass' \in [Workers -> {"idle", "start", "list", "write", "history"}]
    <3> HIDE DEF PassTo
    <3> QED
      BY <2>2, PassType
  <2> QED
    BY <1>0, <1>7, <2>3, <2>4, <2>5, <2>6 DEF Aim
<1>8. ASSUME NEW w \in Workers, BeginRun(w)
      PROVE  HistoryTypeOK'
  BY <1>0, <1>8 DEF BeginRun
<1>9. ASSUME NEW w \in Workers, ReadCheckpoint(w)
      PROVE  HistoryTypeOK'
  BY <1>9 DEF ReadCheckpoint
<1>10. ASSUME NEW w \in Workers, NEW p \in Trackings, ListPage(w, p)
       PROVE  HistoryTypeOK'
  <2>1. changed[p] \in Time
    BY DEF Time
  <2>2. listedAs' \in [Workers -> [Trackings -> Time]]
    <3>1. [listedAs EXCEPT ![w][p] = changed[p]] \in [Workers -> [Trackings -> Time]]
      BY <2>1, ListedType
    <3>2. listedAs' \in {listedAs, [listedAs EXCEPT ![w][p] = changed[p]]}
      BY <1>10 DEF ListPage
    <3> QED
      BY <3>1, <3>2
  <2>3. unlisted' \in [Workers -> SUBSET Trackings]
    BY <1>10 DEF ListPage
  <2>4. batch' \in [Workers -> SUBSET Trackings]
    <3>1. [batch EXCEPT ![w] = @ \union {p}] \in [Workers -> SUBSET Trackings]
      OBVIOUS
    <3>2. batch' \in {batch, [batch EXCEPT ![w] = @ \union {p}]}
      BY <1>10 DEF ListPage
    <3> QED
      BY <3>1, <3>2
  <2> QED
    BY <1>10, <2>2, <2>3, <2>4 DEF ListPage
<1>11. ASSUME NEW w \in Workers, CutBatch(w)
       PROVE  HistoryTypeOK'
  <2>1. PICK B \in SUBSET batch[w] :
          /\ batch' = [batch EXCEPT ![w] = B]
          /\ listedAs' =
               [listedAs EXCEPT ![w] = [p \in Trackings |-> IF p \in B THEN @[p] ELSE 0]]
          /\ windowMarks' = windowMarks \union Marks("cut", Dropped(w, batch[w] \ B))
                                        \union Marks("short", Dropped(w, unlisted[w]))
    BY <1>11 DEF CutBatch
  <2>2. listedAs' \in [Workers -> [Trackings -> Time]]
    <3>1. [p \in Trackings |-> IF p \in B THEN listedAs[w][p] ELSE 0] \in [Trackings -> Time]
      BY <1>0
    <3> QED
      BY <2>1, <3>1
  <2>3. batch' \in [Workers -> SUBSET Trackings]
    BY <2>1
  <2>4. windowMarks' \subseteq WindowMark \X Trackings \X Time
    <3>1. /\ Dropped(w, batch[w] \ B) \in SUBSET Trackings
          /\ Dropped(w, unlisted[w]) \in SUBSET Trackings
      BY DEF Dropped
    <3>2. /\ Marks("cut", Dropped(w, batch[w] \ B)) \subseteq WindowMark \X Trackings \X Time
          /\ Marks("short", Dropped(w, unlisted[w])) \subseteq WindowMark \X Trackings \X Time
      BY <3>1, MarksType
    <3> QED
      BY <2>1, <3>2
  <2>5. historyFaults' \in 0..MaxHistoryFaults
    BY <1>11, FaultType DEF CutBatch
  <2> QED
    BY <1>0, <1>11, <2>2, <2>3, <2>4, <2>5 DEF CutBatch
<1>12. ASSUME NEW w \in Workers, NEW p \in Trackings, WriteSnapshot(w, p)
       PROVE  HistoryTypeOK'
  <2>1. listedAs' \in [Workers -> [Trackings -> Time]]
    BY <1>0, <1>12, ListedType DEF WriteSnapshot
  <2>2. Marks("long", {p}) \subseteq WindowMark \X Trackings \X Time
    BY MarksType
  <2>3. windowMarks' \subseteq WindowMark \X Trackings \X Time
    BY <1>12, <2>2 DEF WriteSnapshot
  <2>4. snapshot' \in [Trackings -> Time]
    <3>1. listedAs[w][p] \in Time
      OBVIOUS
    <3> QED
      BY <1>12, <3>1 DEF WriteSnapshot
  <2>5. /\ batch' \in [Workers -> SUBSET Trackings]
        /\ current' \in [Workers -> Trackings \union {NoTracking}]
        /\ pass' \in [Workers -> {"idle", "start", "list", "write", "history"}]
    BY <1>12, PassType DEF WriteSnapshot
  <2> QED
    BY <1>12, <2>1, <2>3, <2>4, <2>5 DEF WriteSnapshot
<1>13. ASSUME NEW w \in Workers, WriteEvents(w)
       PROVE  HistoryTypeOK'
  BY <1>13 DEF WriteEvents, ClockInv, Time
<1>14. ASSUME NEW w \in Workers, MissHistory(w)
       PROVE  HistoryTypeOK'
  <2>1. current[w] \in Trackings
    BY <1>14 DEF MissHistory, ClockInv
  <2>2. Marks("gap", {current[w]}) \subseteq WindowMark \X Trackings \X Time
    BY <2>1, MarksType
  <2>3. windowMarks' \subseteq WindowMark \X Trackings \X Time
    BY <1>14, <2>2 DEF MissHistory
  <2> QED
    BY <1>14, <2>3 DEF MissHistory
<1>15. ASSUME NEW w \in Workers, FinishRun(w) \/ AbortRun(w)
       PROVE  HistoryTypeOK'
  <2>1. Rest(w) /\ checkpoint' \in Time
    BY <1>15 DEF FinishRun, AbortRun
  <2> QED
    BY <2>1, RestType DEF Rest
<1>16. CASE UNCHANGED historyVars
  BY <1>16 DEF historyVars
<1> QED
  BY <1>1, <1>2, <1>3, <1>4, <1>5, <1>6, <1>17, <1>18, <1>7, <1>8, <1>9, <1>10, <1>11, <1>12,
     <1>13, <1>14, <1>15, <1>16 DEF HistoryNext

-----------------------------------------------------------------------------
(* Times.                                                                  *)

\* What is known of the courier is not later than the courier.
ParcelTimes ==
  \A p \in Trackings :
    changed[p] <= clock /\ snapshot[p] <= changed[p] /\ events[p] <= changed[p]

\* The clauses of ClockInv about the run w.
WorkerTimes(w) ==
  /\ anchor[w] <= clock
  /\ pass[w] # "idle" => began[w] \in Start..clock
  /\ pass[w] = "history" <=> current[w] \in Trackings
  /\ pass[w] # "list" => unlisted[w] = {}
  /\ pass[w] \in {"idle", "start"} => batch[w] = {}
  /\ pass[w] \notin {"idle", "start"} /\ kind[w] = "incremental" => checkpoint # 0
  /\ \A p \in batch[w] :
       /\ listedAs[w][p] <= changed[p]
       /\ listedAs[w][p] # changed[p] => changed[p] >= began[w]

\* The steps of the run w.
StepOf(w) ==
  \/ \E p \in Trackings : Aim(w, p) \/ ListPage(w, p) \/ WriteSnapshot(w, p)
  \/ BeginRun(w) \/ ReadCheckpoint(w) \/ CutBatch(w)
  \/ WriteEvents(w) \/ MissHistory(w) \/ FinishRun(w) \/ AbortRun(w)

\* The steps of the full sync.
FullStep ==
  \/ \E p \in Trackings : ReadPage(p)
  \/ WriteParcels \/ WriteHistories \/ SaveCursor
  \/ CompleteParcels \/ CompleteHistories \/ ResumeFull

LEMMA Steps ==
  ASSUME [HistoryNext]_historyVars
  PROVE  \/ UNCHANGED historyVars \/ Tick \/ (\E p \in Trackings : Move(p))
         \/ FullStep \/ (\E w \in Workers : StepOf(w))
BY DEF HistoryNext, FullStep, StepOf

LEMMA CourierFrame ==
  ASSUME UNCHANGED historyVars \/ Tick \/ (\E p \in Trackings : Move(p))
  PROVE  UNCHANGED <<snapshot, events, checkpoint, full, worker, windowMarks>>
<1>1. CASE UNCHANGED historyVars
  BY <1>1 DEF historyVars
<1>2. CASE Tick
  BY <1>2 DEF Tick
<1>3. ASSUME NEW p \in Trackings, Move(p)
      PROVE  UNCHANGED <<snapshot, events, checkpoint, full, worker, windowMarks>>
  BY <1>3 DEF Move
<1> QED
  BY <1>1, <1>2, <1>3

LEMMA FullFrame ==
  ASSUME FullStep
  PROVE  /\ UNCHANGED <<clock, changed, worker>>
         /\ UNCHANGED snapshot \/ WriteParcels
         /\ UNCHANGED events \/ WriteHistories
         /\ UNCHANGED checkpoint \/ CompleteParcels
         /\ UNCHANGED windowMarks \/ CompleteParcels \/ CompleteHistories
<1>1. ASSUME NEW p \in Trackings, ReadPage(p)
      PROVE  UNCHANGED <<clock, changed, worker, snapshot, events, checkpoint, windowMarks>>
  BY <1>1 DEF ReadPage, world
<1>2. CASE WriteParcels
  BY <1>2 DEF WriteParcels, world
<1>3. CASE WriteHistories
  BY <1>3 DEF WriteHistories, world
<1>4. CASE SaveCursor
  BY <1>4 DEF SaveCursor
<1>5. CASE CompleteParcels
  BY <1>5 DEF CompleteParcels
<1>6. CASE CompleteHistories
  BY <1>6 DEF CompleteHistories
<1>7. CASE ResumeFull
  BY <1>7 DEF ResumeFull, world
<1> QED
  BY <1>1, <1>2, <1>3, <1>4, <1>5, <1>6, <1>7 DEF FullStep

LEMMA RunFrame ==
  ASSUME NEW w \in Workers, StepOf(w)
  PROVE  /\ UNCHANGED <<clock, changed, full>>
         /\ UNCHANGED snapshot \/ (\E p \in Trackings : WriteSnapshot(w, p))
         /\ UNCHANGED events \/ WriteEvents(w)
         /\ UNCHANGED checkpoint \/ FinishRun(w)
         /\ \/ UNCHANGED windowMarks \/ CutBatch(w) \/ MissHistory(w)
            \/ \E p \in Trackings : WriteSnapshot(w, p)
<1>1. ASSUME NEW p \in Trackings, Aim(w, p) \/ ListPage(w, p)
      PROVE  UNCHANGED <<clock, changed, full, snapshot, events, checkpoint, windowMarks>>
  BY <1>1 DEF Aim, ListPage, world
<1>2. ASSUME NEW p \in Trackings, WriteSnapshot(w, p)
      PROVE  UNCHANGED <<clock, changed, full, events, checkpoint>>
  BY <1>2 DEF WriteSnapshot, world
<1>3. CASE BeginRun(w) \/ ReadCheckpoint(w)
  BY <1>3 DEF BeginRun, ReadCheckpoint, world
<1>4. CASE CutBatch(w)
  BY <1>4 DEF CutBatch
<1>5. CASE WriteEvents(w)
  BY <1>5 DEF WriteEvents, world
<1>6. CASE MissHistory(w)
  BY <1>6 DEF MissHistory, world
<1>7. CASE FinishRun(w)
  BY <1>7 DEF FinishRun, Rest, world
<1>8. CASE AbortRun(w)
  BY <1>8 DEF AbortRun, Rest, world
<1> QED
  BY <1>1, <1>2, <1>3, <1>4, <1>5, <1>6, <1>7, <1>8 DEF StepOf

\* Only its own steps move the full sync.
LEMMA FullSteps ==
  ASSUME [HistoryNext]_historyVars
  PROVE  UNCHANGED full \/ FullStep
BY Steps, CourierFrame, RunFrame

\* What writes each of the rest.
LEMMA WorldSteps ==
  ASSUME [HistoryNext]_historyVars
  PROVE  UNCHANGED <<clock, changed>> \/ Tick \/ (\E p \in Trackings : Move(p))
BY Steps, FullFrame, RunFrame DEF historyVars, world

LEMMA WorkerSteps ==
  ASSUME [HistoryNext]_historyVars
  PROVE  UNCHANGED worker \/ (\E w \in Workers : StepOf(w))
BY Steps, CourierFrame, FullFrame

LEMMA SnapshotSteps ==
  ASSUME [HistoryNext]_historyVars
  PROVE  \/ UNCHANGED snapshot \/ WriteParcels
         \/ \E w \in Workers, p \in Trackings : WriteSnapshot(w, p)
BY Steps, CourierFrame, FullFrame, RunFrame

LEMMA EventsSteps ==
  ASSUME [HistoryNext]_historyVars
  PROVE  UNCHANGED events \/ WriteHistories \/ (\E w \in Workers : WriteEvents(w))
BY Steps, CourierFrame, FullFrame, RunFrame

LEMMA CheckpointSteps ==
  ASSUME [HistoryNext]_historyVars
  PROVE  UNCHANGED checkpoint \/ CompleteParcels \/ (\E w \in Workers : FinishRun(w))
BY Steps, CourierFrame, FullFrame, RunFrame

LEMMA MarkSteps ==
  ASSUME [HistoryNext]_historyVars
  PROVE  \/ UNCHANGED windowMarks \/ CompleteParcels \/ CompleteHistories
         \/ \E w \in Workers :
              CutBatch(w) \/ MissHistory(w) \/ (\E p \in Trackings : WriteSnapshot(w, p))
BY Steps, CourierFrame, FullFrame, RunFrame

LEMMA ClockSplit ==
  ClockInv <=> /\ checkpoint <= clock
               /\ checkpoint # 0 => saved["parcels"] = {}
               /\ ParcelTimes
               /\ \A w \in Workers : WorkerTimes(w)
BY DEF ClockInv, ParcelTimes, WorkerTimes

\* Time and the changes of a parcel only go forward; only the first phase of the
\* full sync, and runs, write the checkpoint.
LEMMA TimeGrows ==
  ASSUME HistoryTypeOK, ClockInv, [HistoryNext]_historyVars
  PROVE  /\ clock' >= clock
         /\ \A p \in Trackings :
              changed'[p] = changed[p] \/ (changed'[p] = clock' /\ changed'[p] >= changed[p])
         /\ checkpoint # 0 => checkpoint' # 0
<1>1. ASSUME UNCHANGED <<clock, changed>>
      PROVE  clock' >= clock /\ \A q \in Trackings : changed'[q] = changed[q]
  BY <1>1, HistoryBounds DEF HistoryTypeOK, Start
<1>2. CASE Tick
  BY <1>2 DEF Tick, HistoryTypeOK, Start, Time
<1>3. ASSUME NEW p \in Trackings, Move(p)
      PROVE  clock' >= clock /\ \A q \in Trackings :
               changed'[q] = changed[q] \/ (changed'[q] = clock' /\ changed'[q] >= changed[q])
  BY <1>3, HistoryBounds DEF Move, HistoryTypeOK, ClockInv, Start
<1>4. checkpoint # 0 => checkpoint' # 0
  <2>1. CASE UNCHANGED checkpoint
    BY <2>1
  <2>2. CASE CompleteParcels
    <3>1. checkpoint' \in {clock, checkpoint}
      BY <2>2 DEF CompleteParcels
    <3> QED
      BY <3>1, HistoryBounds DEF HistoryTypeOK, Start
  <2>3. ASSUME NEW w \in Workers, FinishRun(w)
        PROVE  checkpoint # 0 => checkpoint' # 0
    BY <2>3, HistoryBounds DEF FinishRun, ClockInv, Start
  <2> QED
    BY <2>1, <2>2, <2>3, CheckpointSteps
<1> QED
  BY <1>1, <1>2, <1>3, <1>4, WorldSteps

LEMMA CheckpointStep ==
  ASSUME HistoryTypeOK, HistoryTypeOK', ClockInv, PageInv, [HistoryNext]_historyVars
  PROVE  checkpoint' <= clock' /\ (checkpoint' # 0 => saved'["parcels"] = {})
<1>1. CASE UNCHANGED checkpoint /\ saved'["parcels"] = saved["parcels"]
  BY <1>1, TimeGrows DEF ClockInv, HistoryTypeOK, Time
<1>2. CASE SaveCursor /\ stage = "parcels"
  BY <1>2 DEF SaveCursor, PageInv, ClockInv, HistoryTypeOK
<1>3. CASE CompleteParcels
  <2>1. CASE UNCHANGED <<checkpoint, saved, clock>>
    BY <2>1 DEF ClockInv
  <2>2. CASE /\ checkpoint' = clock /\ UNCHANGED clock
             /\ saved' = [saved EXCEPT !["parcels"] = {}]
    BY <2>2, HistoryBounds DEF HistoryTypeOK, Start
  <2> QED
    BY <1>3, <2>1, <2>2 DEF CompleteParcels
<1>4. ASSUME NEW w \in Workers, FinishRun(w)
      PROVE  checkpoint' <= clock' /\ (checkpoint' # 0 => saved'["parcels"] = {})
  BY <1>4, HistoryBounds DEF FinishRun, Rest, world, full, ClockInv, Start
<1>5. CASE (SaveCursor /\ stage # "parcels") \/ CompleteHistories
  <2>1. UNCHANGED checkpoint /\ saved'["parcels"] = saved["parcels"]
    BY <1>5 DEF SaveCursor, CompleteHistories, HistoryTypeOK
  <2> QED
    BY <2>1, <1>1
<1>6. \/ UNCHANGED saved
      \/ SaveCursor \/ CompleteParcels \/ CompleteHistories
  <2>1. WriteParcels \/ WriteHistories \/ ResumeFull => UNCHANGED saved
    BY DEF WriteParcels, WriteHistories, ResumeFull
  <2>2. ASSUME NEW p \in Trackings, ReadPage(p)
        PROVE  UNCHANGED saved
    BY <2>2 DEF ReadPage
  <2> QED
    BY <2>1, <2>2, FullSteps DEF FullStep, full
<1> QED
  BY <1>1, <1>2, <1>3, <1>4, <1>5, <1>6, CheckpointSteps

LEMMA ParcelTimesStep ==
  ASSUME HistoryTypeOK, HistoryTypeOK', ClockInv, PageInv, [HistoryNext]_historyVars
  PROVE  ParcelTimes'
<1> USE DEF ParcelTimes, HistoryTypeOK, Time
<1>1. CASE UNCHANGED <<snapshot, events>>
  <2> SUFFICES ASSUME NEW p \in Trackings
               PROVE  /\ changed'[p] <= clock' /\ snapshot'[p] <= changed'[p]
                      /\ events'[p] <= changed'[p]
    OBVIOUS
  <2>1. changed[p] <= clock /\ snapshot[p] <= changed[p] /\ events[p] <= changed[p]
    BY DEF ClockInv
  <2>2. clock' >= clock
    BY TimeGrows
  <2>3. changed'[p] = changed[p] \/ (changed'[p] = clock' /\ changed'[p] >= changed[p])
    BY TimeGrows
  <2> QED
    BY <1>1, <2>1, <2>2, <2>3, HistoryBounds DEF Start
<1>2. CASE WriteParcels
  BY <1>2 DEF WriteParcels, world, ClockInv, PageInv
<1>5. CASE WriteHistories
  BY <1>5 DEF WriteHistories, world, ClockInv, PageInv
<1>3. ASSUME NEW w \in Workers, NEW p \in Trackings, WriteSnapshot(w, p)
      PROVE  ParcelTimes'
  BY <1>3 DEF WriteSnapshot, world, ClockInv
<1>4. ASSUME NEW w \in Workers, WriteEvents(w)
      PROVE  ParcelTimes'
  BY <1>4 DEF WriteEvents, world, ClockInv
<1> QED
  BY <1>1, <1>2, <1>3, <1>4, <1>5, SnapshotSteps, EventsSteps

\* The run w itself does nothing.
Still(w) ==
  UNCHANGED <<kind[w], pass[w], began[w], anchor[w], unlisted[w], batch[w], listedAs[w],
              current[w]>>

LEMMA OthersAreStill ==
  ASSUME HistoryTypeOK, [HistoryNext]_historyVars, NEW w \in Workers, ~StepOf(w)
  PROVE  Still(w)
<1>1. CASE UNCHANGED worker
  BY <1>1 DEF worker, Still
<1>2. ASSUME NEW v \in Workers, v # w, StepOf(v)
      PROVE  Still(w)
  <2> USE <1>2 DEF HistoryTypeOK, Still, PassTo
  <2>1. ASSUME NEW p \in Trackings, Aim(v, p) \/ ListPage(v, p) \/ WriteSnapshot(v, p)
        PROVE  Still(w)
    BY <2>1 DEF Aim, ListPage, WriteSnapshot
  <2>2. CASE BeginRun(v) \/ ReadCheckpoint(v) \/ CutBatch(v)
    BY <2>2 DEF BeginRun, ReadCheckpoint, CutBatch
  <2>3. CASE WriteEvents(v) \/ MissHistory(v)
    BY <2>3 DEF WriteEvents, MissHistory
  <2>4. CASE FinishRun(v) \/ AbortRun(v)
    BY <2>4 DEF FinishRun, AbortRun, Rest
  <2> QED
    BY <2>1, <2>2, <2>3, <2>4 DEF StepOf
<1> QED
  BY <1>1, <1>2, WorkerSteps

LEMMA WorkerTimesStep ==
  ASSUME HistoryTypeOK, HistoryTypeOK', ClockInv, [HistoryNext]_historyVars,
         NEW w \in Workers
  PROVE  WorkerTimes(w)'
<1>0. WorkerTimes(w)
  BY ClockSplit
<1>1. CASE Still(w)
  <2>1. clock' >= clock /\ clock \in Nat /\ clock' \in Nat /\ began[w] \in Nat /\ anchor[w] \in Nat
    BY TimeGrows, HistoryBounds DEF HistoryTypeOK, Start, Time
  <2>2. ASSUME NEW p \in batch[w]
        PROVE  /\ listedAs[w][p] <= changed'[p]
               /\ listedAs[w][p] # changed'[p] => changed'[p] >= began[w]
    <3>1. p \in Trackings /\ batch[w] # {}
      BY <2>2 DEF HistoryTypeOK
    <3>2. pass[w] # "idle" /\ began[w] <= clock
      BY <1>0, <3>1, <2>1 DEF WorkerTimes, Start
    <3>3. changed'[p] = changed[p] \/ (changed'[p] = clock' /\ changed'[p] >= changed[p])
      BY <3>1, TimeGrows
    <3>4. listedAs[w][p] \in Nat /\ changed[p] \in Nat /\ changed'[p] \in Nat
      BY <3>1 DEF HistoryTypeOK, Time
    <3> QED
      BY <1>0, <2>1, <2>2, <3>2, <3>3, <3>4 DEF WorkerTimes
  <2>3. checkpoint # 0 => checkpoint' # 0
    BY TimeGrows
  <2> QED
    BY <1>0, <1>1, <2>1, <2>2, <2>3, HistoryBounds DEF WorkerTimes, Still, Start
<1> USE HistoryBounds DEF HistoryTypeOK, WorkerTimes, world, PassTo, Time, Start
<1>2. ASSUME NEW p \in Trackings, Aim(w, p)
      PROVE  WorkerTimes(w)'
  BY <1>0, <1>2 DEF Aim
<1>3. ASSUME NEW p \in Trackings, ListPage(w, p)
      PROVE  WorkerTimes(w)'
  BY <1>0, <1>3 DEF ListPage, ClockInv
<1>4. ASSUME NEW p \in Trackings, WriteSnapshot(w, p)
      PROVE  WorkerTimes(w)'
  BY <1>0, <1>4 DEF WriteSnapshot
<1>5. CASE BeginRun(w)
  BY <1>0, <1>5 DEF BeginRun
<1>6. CASE ReadCheckpoint(w)
  BY <1>0, <1>6 DEF ReadCheckpoint, ClockInv
<1>7. CASE CutBatch(w)
  BY <1>0, <1>7 DEF CutBatch
<1>8. CASE WriteEvents(w)
  BY <1>0, <1>8 DEF WriteEvents
<1>9. CASE MissHistory(w)
  BY <1>0, <1>9 DEF MissHistory
<1>10. CASE FinishRun(w) \/ AbortRun(w)
  BY <1>0, <1>10 DEF FinishRun, AbortRun, Rest
<1> QED
  BY <1>1, <1>2, <1>3, <1>4, <1>5, <1>6, <1>7, <1>8, <1>9, <1>10, OthersAreStill DEF StepOf

LEMMA ClockStep ==
  ASSUME HistoryTypeOK, HistoryTypeOK', ClockInv, PageInv, [HistoryNext]_historyVars
  PROVE  ClockInv'
<1>1. /\ checkpoint' <= clock'
      /\ checkpoint' # 0 => saved'["parcels"] = {}
      /\ ParcelTimes'
      /\ \A w \in Workers : WorkerTimes(w)'
  BY CheckpointStep, ParcelTimesStep, WorkerTimesStep
<1> QED
  BY <1>1 DEF ClockInv, ParcelTimes, WorkerTimes

-----------------------------------------------------------------------------
(* The full sync.                                                          *)

\* Every step keeps what holds of the page that was read.
LEMMA PageReadStep ==
  ASSUME HistoryTypeOK, HistoryTypeOK', ClockInv, PageInv, [HistoryNext]_historyVars,
         page' # NoTracking
  PROVE  /\ page' \in left' /\ stage' # "done" /\ pageSaw' <= changed'[page']
         /\ pageSaw' # changed'[page'] => changed'[page'] >= Start
         /\ pageDone' /\ stage' = "histories" => events'[page'] >= pageSaw'
<1> USE HistoryBounds DEF HistoryTypeOK, Time, Start
<1>1. CASE UNCHANGED full
  <2>1. page = page' /\ page \in Trackings /\ page # NoTracking
    BY <1>1 DEF full
  <2>2. \/ changed'[page] = changed[page]
        \/ changed'[page] = clock' /\ changed'[page] >= changed[page]
    BY <2>1, TimeGrows
  <2>3. clock' >= Start
    OBVIOUS
  <2>4. /\ page \in left /\ stage # "done" /\ pageSaw <= changed[page]
        /\ pageSaw # changed[page] => changed[page] >= Start
        /\ pageDone /\ stage = "histories" => events[page] >= pageSaw
    BY <2>1 DEF PageInv
  <2>5. events'[page] >= events[page]
    <3>1. CASE UNCHANGED events
      BY <2>1, <3>1
    <3>2. ASSUME NEW w \in Workers, WriteEvents(w)
          PROVE  events'[page] >= events[page]
      BY <2>1, <3>2 DEF WriteEvents, ClockInv
    <3>3. ~WriteHistories
      BY <1>1 DEF WriteHistories, NewPage, full
    <3> QED
      BY <3>1, <3>2, <3>3, EventsSteps
  <2>6. events[page] \in Nat /\ events'[page] \in Nat /\ pageSaw \in Nat /\ changed[page] \in Nat
        /\ changed'[page] \in Nat
    BY <2>1
  <2> QED
    BY <1>1, <2>1, <2>2, <2>3, <2>4, <2>5, <2>6 DEF full
<1>2. ASSUME NEW p \in Trackings, ReadPage(p)
      PROVE  /\ page' \in left' /\ stage' # "done" /\ pageSaw' <= changed'[page']
             /\ pageSaw' = changed'[page'] /\ ~pageDone'
  BY <1>2 DEF ReadPage, NewPage, world, PageInv, ClockInv
<1>3. CASE WriteParcels \/ WriteHistories
  <2>1. page' = page /\ pageSaw' = pageSaw /\ UNCHANGED <<world, stage, left>>
    BY <1>3 DEF WriteParcels, WriteHistories, NewPage
  <2>2. stage = "histories" => events'[page] >= pageSaw
    BY <1>3 DEF WriteParcels, WriteHistories
  <2> QED
    BY <1>3, <2>1, <2>2 DEF WriteParcels, WriteHistories, world, PageInv
<1>4. ~(SaveCursor \/ CompleteParcels \/ CompleteHistories \/ ResumeFull)
  BY DEF SaveCursor, CompleteParcels, CompleteHistories, ResumeFull, GoOn, NewPage
<1> QED
  BY <1>1, <1>2, <1>3, <1>4, FullSteps DEF FullStep

\* Before there is a checkpoint, only writing its page brings the full sync past a
\* parcel.
LEMMA AheadStays ==
  ASSUME HistoryTypeOK, HistoryTypeOK', ClockInv, PageInv, [HistoryNext]_historyVars,
         checkpoint' = 0, NEW p \in Trackings, Ahead(p), ~Ahead(p)'
  PROVE  WriteParcels /\ p = page
<1> USE HistoryBounds DEF HistoryTypeOK, Ahead
<1>1. ~UNCHANGED full
  BY DEF full
<1>2. ASSUME NEW q \in Trackings, ReadPage(q)
      PROVE  FALSE
  BY <1>2 DEF ReadPage, NewPage
<1>3. CASE WriteParcels
  BY <1>3 DEF WriteParcels, NewPage
<1>4. ~WriteHistories
  BY DEF WriteHistories, NewPage
<1>5. ~SaveCursor
  <2> SUFFICES ASSUME SaveCursor PROVE FALSE
    OBVIOUS
  <2>1. /\ page # NoTracking /\ pageDone /\ left' = left \ {page} /\ stage' = stage
        /\ page' = NoTracking
    BY DEF SaveCursor, NewPage
  <2>2. stage # "parcels" => saved'["parcels"] = saved["parcels"]
    BY DEF SaveCursor
  <2> QED
    BY <2>1, <2>2
<1>6. ~CompleteParcels
  <2> SUFFICES ASSUME CompleteParcels PROVE FALSE
    OBVIOUS
  <2>1. clock # 0
    BY DEF Start
  <2>2. UNCHANGED saved
    BY <2>1 DEF CompleteParcels
  <2>3. stage = "parcels" /\ left \subseteq saved["parcels"] /\ stage' # "parcels"
    BY DEF CompleteParcels, GoOn, PageInv
  <2> QED
    BY <2>2, <2>3
<1>7. ~CompleteHistories
  BY DEF CompleteHistories
<1>8. ~ResumeFull
  <2> SUFFICES ASSUME ResumeFull PROVE FALSE
    OBVIOUS
  <2>1. UNCHANGED saved /\ page' = NoTracking
    BY DEF ResumeFull, GoOn, NewPage
  <2>2. stage' = "parcels" => left' = saved["parcels"]
    BY <2>1 DEF ResumeFull, GoOn
  <2>3. stage = "parcels" => left \subseteq saved["parcels"]
    BY DEF PageInv
  <2> QED
    BY <2>1, <2>2, <2>3
<1> QED
  BY <1>1, <1>2, <1>3, <1>4, <1>5, <1>6, <1>7, <1>8, FullSteps DEF FullStep

\* Before there is a checkpoint, a snapshot that lags behind the full sync is of a
\* change made since it began.
LEMMA PagesDoneStep ==
  ASSUME HistoryTypeOK, HistoryTypeOK', ClockInv, PageInv, [HistoryNext]_historyVars,
         checkpoint' = 0, NEW p \in Trackings, Behind(p)', ~Ahead(p)'
  PROVE  changed'[p] >= Start
<1> USE HistoryBounds DEF HistoryTypeOK, Time, Start, Behind
<1>0. checkpoint = 0
  BY TimeGrows
<1>1. CASE changed'[p] # changed[p]
  BY <1>1, TimeGrows
<1>2. CASE changed'[p] = changed[p] /\ Behind(p) /\ ~Ahead(p)
  BY <1>0, <1>2 DEF PageInv
<1>3. CASE WriteParcels
  <2>1. /\ page \in Trackings /\ page # NoTracking /\ UNCHANGED changed
        /\ snapshot' = [snapshot EXCEPT ![page] = pageSaw]
    BY <1>3 DEF WriteParcels, world
  <2>2. CASE p = page
    BY <2>1, <2>2 DEF PageInv
  <2>3. CASE p # page
    BY <1>2, <2>1, <2>3, AheadStays
  <2> QED
    BY <2>2, <2>3
<1>4. ASSUME NEW w \in Workers, NEW q \in Trackings, WriteSnapshot(w, q)
      PROVE  changed'[p] >= Start
  <2>1. /\ snapshot' = [snapshot EXCEPT ![q] = listedAs[w][q]] /\ UNCHANGED <<world, full>>
        /\ q \in batch[w] /\ pass[w] = "write"
    BY <1>4 DEF WriteSnapshot
  <2>2. CASE p = q
    <3>1. listedAs[w][p] # changed[p]
      BY <2>1, <2>2 DEF world
    <3>2. changed[p] >= began[w] /\ began[w] >= Start
      BY <2>1, <2>2, <3>1 DEF ClockInv
    <3> QED
      BY <2>1, <3>2 DEF world
  <2>3. CASE p # q
    BY <1>2, <2>1, <2>3 DEF world, full, Ahead
  <2> QED
    BY <2>2, <2>3
<1>5. CASE UNCHANGED snapshot
  <2>1. ~WriteParcels => ~Ahead(p)
    BY AheadStays
  <2> QED
    BY <1>1, <1>2, <1>3, <1>5, <2>1
<1> QED
  BY <1>3, <1>4, <1>5, SnapshotSteps

\* Every step keeps the pages that are left in the order of the cursors.
LEMMA LeftStep ==
  ASSUME HistoryTypeOK, HistoryTypeOK', ClockInv, ClockInv', PageInv, [HistoryNext]_historyVars
  PROVE  /\ stage' = "done" => left' = {}
         /\ stage' # "done" => left' \subseteq saved'[stage']
         /\ stage' = "parcels" => checkpoint' = 0
<1>1. CASE UNCHANGED <<stage, left, saved>>
  <2>1. checkpoint = 0 => checkpoint' = 0
    <3>1. ASSUME NEW w \in Workers, FinishRun(w), checkpoint = 0
          PROVE  checkpoint' = 0
      BY <3>1 DEF FinishRun, ClockInv
    <3>2. CompleteParcels => stage' # stage
      BY DEF CompleteParcels, GoOn
    <3> QED
      BY <1>1, <3>1, <3>2, CheckpointSteps
  <2> QED
    BY <1>1, <2>1 DEF PageInv
<1>2. CASE SaveCursor
  <2>1. stage # "done" /\ stage' = stage /\ checkpoint' = checkpoint /\ left' \subseteq left
        /\ saved' \in {saved, [saved EXCEPT ![stage] = left']}
    BY <1>2 DEF SaveCursor, PageInv
  <2>2. stage \in {"parcels", "histories"} /\ left \subseteq saved[stage]
    BY <2>1 DEF PageInv, HistoryTypeOK
  <2>3. left' \subseteq saved'[stage]
    BY <2>1, <2>2 DEF HistoryTypeOK
  <2> QED
    BY <2>1, <2>2, <2>3 DEF PageInv
<1>3. CASE CompleteParcels
  BY <1>3 DEF CompleteParcels, GoOn
<1>4. CASE CompleteHistories
  BY <1>4 DEF CompleteHistories
<1>5. CASE ResumeFull
  BY <1>5 DEF ResumeFull, GoOn, ClockInv
<1>6. ASSUME NEW p \in Trackings, ReadPage(p)
      PROVE  UNCHANGED <<stage, left, saved>>
  BY <1>6 DEF ReadPage
<1>7. WriteParcels \/ WriteHistories => UNCHANGED <<stage, left, saved>>
  BY DEF WriteParcels, WriteHistories
<1>8. UNCHANGED full => UNCHANGED <<stage, left, saved>>
  BY DEF full
<1> QED
  BY <1>1, <1>2, <1>3, <1>4, <1>5, <1>6, <1>7, <1>8, FullSteps DEF FullStep

-----------------------------------------------------------------------------
(* The windows of the next runs.                                           *)

LEMMA MarkedStays ==
  ASSUME [HistoryNext]_historyVars, NEW p \in Trackings, changed'[p] = changed[p], Marked(p)
  PROVE  Marked(p)'
<1>1. windowMarks \subseteq windowMarks'
  <2>1. CASE UNCHANGED windowMarks
    BY <2>1
  <2>2. CASE CompleteParcels \/ CompleteHistories
    BY <2>2 DEF CompleteParcels, CompleteHistories
  <2>3. ASSUME NEW w \in Workers, CutBatch(w)
        PROVE  windowMarks \subseteq windowMarks'
    BY <2>3 DEF CutBatch
  <2>4. ASSUME NEW w \in Workers, NEW q \in Trackings, WriteSnapshot(w, q) \/ MissHistory(w)
        PROVE  windowMarks \subseteq windowMarks'
    BY <2>4 DEF WriteSnapshot, MissHistory
  <2> QED
    BY <2>1, <2>2, <2>3, <2>4, MarkSteps
<1> QED
  BY <1>1 DEF Marked

\* A mark is of the revision that the parcel has.
LEMMA MarkIsKept ==
  ASSUME NEW k \in WindowMark, NEW S, NEW p \in S, changed'[p] = changed[p],
         Marks(k, S) \subseteq windowMarks'
  PROVE  Marked(p)'
<1>1. <<k, p, changed[p]>> \in windowMarks'
  BY DEF Marks
<1> QED
  BY <1>1 DEF Marked

\* Once there is a checkpoint, a snapshot that gets out of date has changed at most
\* Overlap ago, or its parcel is marked.
LEMMA NewlyBehind ==
  ASSUME HistoryTypeOK, HistoryTypeOK', ClockInv, PageInv, [HistoryNext]_historyVars,
         checkpoint # 0, NEW p \in Trackings, Behind(p)'
  PROVE  \/ Behind(p) /\ changed'[p] = changed[p]
         \/ changed'[p] + Overlap >= clock' \/ Marked(p)'
<1> USE HistoryBounds DEF HistoryTypeOK, Time, Start, Behind
<1>1. CASE UNCHANGED snapshot
  <2>1. CASE changed'[p] = changed[p]
    BY <1>1, <2>1
  <2>2. CASE changed'[p] # changed[p]
    BY <2>2, TimeGrows
  <2> QED
    BY <2>1, <2>2
<1>2. ASSUME NEW w \in Workers, NEW q \in Trackings, WriteSnapshot(w, q)
      PROVE  \/ Behind(p) /\ changed'[p] = changed[p]
             \/ changed'[p] + Overlap >= clock' \/ Marked(p)'
  <2>1. /\ snapshot' = [snapshot EXCEPT ![q] = listedAs[w][q]] /\ UNCHANGED world
        /\ q \in batch[w]
    BY <1>2 DEF WriteSnapshot
  <2>2. listedAs[w][q] # changed[q] /\ clock > began[w] + Overlap =>
          Marks("long", {q}) \subseteq windowMarks'
    BY <1>2 DEF WriteSnapshot
  <2>3. CASE p # q
    BY <2>1, <2>3 DEF world
  <2>4. CASE p = q
    <3>1. listedAs[w][p] # changed[p]
      BY <2>1, <2>4 DEF world
    <3>2. changed[p] >= began[w]
      BY <2>1, <2>4, <3>1 DEF ClockInv
    <3>3. CASE clock > began[w] + Overlap
      BY <2>1, <2>2, <2>4, <3>1, <3>3, MarkIsKept DEF WindowMark, world
    <3>4. CASE ~(clock > began[w] + Overlap)
      BY <2>1, <3>2, <3>4 DEF world
    <3> QED
      BY <3>3, <3>4
  <2> QED
    BY <2>3, <2>4
<1>3. ~WriteParcels
  BY DEF WriteParcels, PageInv
<1> QED
  BY <1>1, <1>2, <1>3, SnapshotSteps

LEMMA Between ==
  ASSUME NEW s \in Nat, NEW e \in Nat, NEW c \in Nat, s <= e, e <= c, e # c
  PROVE  s # c
OBVIOUS

\* Nothing that the full sync has before it is missing, but for the page it has read.
LEMMA MissingSplit ==
  ASSUME NEW p \in Trackings
  PROVE  /\ stage = "parcels" =>
              (Missing(p) <=> events[p] # changed[p] /\ p \notin saved["histories"])
         /\ stage # "parcels" =>
              (Missing(p) <=> /\ events[p] # changed[p]
                              /\ p \in left => /\ stage = "histories" /\ p = page
                                               /\ pageSaw # changed[p])
BY DEF Missing

\* When the full sync goes on from its cursors, it leaves nothing more behind.
LEMMA MissingAtGoOn ==
  ASSUME HistoryTypeOK, PageInv, saved'["histories"] = saved["histories"],
         UNCHANGED <<changed, events>>, NEW s \in {"parcels", "histories"}, GoOn(s),
         NEW p \in Trackings, Missing(p)'
  PROVE  Missing(p)
<1> USE HistoryBounds DEF HistoryTypeOK
<1>1. page' = NoTracking /\ p # NoTracking
  BY DEF GoOn, NewPage
<1>2. \/ stage' = "parcels"
      \/ stage' = "histories" /\ left' = saved["histories"]
      \/ stage' = "done" /\ saved["histories"] = {}
  BY DEF GoOn
<1>3. p \notin saved["histories"] /\ events[p] # changed[p]
  BY <1>1, <1>2 DEF Missing
<1>4. stage # "parcels" => left \subseteq saved["histories"]
  BY DEF PageInv
<1> QED
  BY <1>3, <1>4 DEF Missing

\* Events that come to be missing are of a change just made, or their parcel is
\* marked.
LEMMA NewlyMissing ==
  ASSUME HistoryTypeOK, HistoryTypeOK', ClockInv, PageInv, [HistoryNext]_historyVars,
         NEW p \in Trackings, Missing(p)'
  PROVE  \/ Missing(p) /\ changed'[p] = changed[p]
         \/ changed'[p] = clock' \/ Marked(p)'
<1> USE HistoryBounds DEF HistoryTypeOK, Time, Start
<1>1. CASE changed'[p] # changed[p]
  BY <1>1, TimeGrows
<1>2. CASE changed'[p] = changed[p]
  <2> SUFFICES Missing(p) \/ Marked(p)'
    BY <1>2
  <2>1. events'[p] # changed[p]
    BY <1>2 DEF Missing
  <2>2. CASE UNCHANGED <<events, full>>
    BY <1>2, <2>2 DEF Missing, full
  <2>3. ASSUME NEW q \in Trackings, ReadPage(q)
        PROVE  Missing(p)
    BY <1>2, <2>3 DEF ReadPage, NewPage, Missing, world
  <2>4. CASE WriteParcels
    BY <1>2, <2>4 DEF WriteParcels, NewPage, Missing
  <2>5. CASE WriteHistories
    <3>1. /\ page' = page /\ pageSaw' = pageSaw /\ UNCHANGED <<left, stage>>
          /\ page \in Trackings /\ stage = "histories" /\ pageSaw <= changed[page]
          /\ events' = [events EXCEPT ![page] = IF pageSaw > @ THEN pageSaw ELSE @]
      BY <2>5 DEF WriteHistories, NewPage, PageInv
    <3>2. events[p] # changed[p]
      <4>1. CASE p # page
        BY <2>1, <3>1, <4>1
      <4>2. CASE p = page
        <5>1. events'[p] = IF pageSaw > events[p] THEN pageSaw ELSE events[p]
          BY <3>1, <4>2
        <5> QED
          BY <2>1, <3>1, <4>2, <5>1
      <4> QED
        BY <4>1, <4>2
    <3> QED
      BY <1>2, <2>1, <3>1, <3>2 DEF Missing
  <2>6. CASE (SaveCursor /\ stage # "parcels") \/ (CompleteHistories /\ page # NoTracking)
    <3>1. /\ page # NoTracking /\ pageDone /\ stage = "histories" /\ UNCHANGED events
      BY <2>6 DEF SaveCursor, CompleteHistories, AtEnd, PageInv
    <3>2. events[page] >= pageSaw /\ page \in Trackings
      BY <3>1 DEF PageInv
    <3>3. p # page => p \notin left
      BY <1>2, <2>1, <2>6, <3>1 DEF SaveCursor, CompleteHistories, AtEnd, NewPage, Missing
    <3>4. p = page => pageSaw # changed[p]
      <4> SUFFICES ASSUME p = page PROVE pageSaw # changed[p]
        OBVIOUS
      <4>1. events[p] <= changed[p] /\ events[p] >= pageSaw
        BY <3>2 DEF ClockInv
      <4>2. events[p] # changed[p]
        BY <2>1, <3>1
      <4>3. events[p] \in Nat /\ changed[p] \in Nat /\ pageSaw \in Nat
        OBVIOUS
      <4> QED
        BY <4>1, <4>2, <4>3, Between
    <3> QED
      BY <2>1, <3>1, <3>3, <3>4 DEF Missing
  <2>7. CASE SaveCursor /\ stage = "parcels"
    <3>1. /\ stage' = "parcels" /\ UNCHANGED <<changed, events>>
          /\ saved'["histories"] = saved["histories"]
      BY <2>7 DEF SaveCursor
    <3> QED
      BY <2>7, <3>1 DEF Missing
  <2>8. CASE CompleteHistories /\ page = NoTracking
    <3> DEFINE T == {q \in left : events[q] # changed[q]}
    <3>1. stage = "histories" /\ UNCHANGED events /\ Marks("torn", T) \subseteq windowMarks'
      BY <2>8 DEF CompleteHistories, Unread
    <3>2. CASE p \in left
      <4>1. p \in T
        BY <2>1, <3>1, <3>2
      <4> QED
        BY <1>2, <3>1, <4>1, MarkIsKept DEF WindowMark
    <3>3. CASE p \notin left
      BY <2>1, <3>1, <3>3 DEF Missing
    <3> QED
      BY <3>2, <3>3
  <2>9. CASE CompleteParcels \/ ResumeFull
    <3>1. /\ saved'["histories"] = saved["histories"] /\ UNCHANGED <<changed, events>>
          /\ GoOn("parcels") \/ GoOn("histories")
      BY <2>9 DEF CompleteParcels, ResumeFull, world
    <3> QED
      BY <3>1, MissingAtGoOn
  <2>10. ASSUME NEW w \in Workers, WriteEvents(w)
         PROVE  Missing(p)
    BY <1>2, <2>1, <2>10 DEF WriteEvents, full, Missing, world
  <2> QED
    BY <2>2, <2>3, <2>4, <2>5, <2>6, <2>7, <2>8, <2>9, <2>10, FullSteps, EventsSteps DEF FullStep
<1> QED
  BY <1>1, <1>2

LEMMA PageStep ==
  ASSUME HistoryTypeOK, HistoryTypeOK', ClockInv, ClockInv', PageInv, [HistoryNext]_historyVars
  PROVE  PageInv'
<1>1. ASSUME checkpoint' = 0, NEW p \in Trackings, Missing(p)'
      PROVE  changed'[p] >= Start \/ Marked(p)'
  <2>1. checkpoint = 0
    BY <1>1, TimeGrows
  <2>2. CASE Missing(p) /\ changed'[p] = changed[p]
    BY <2>1, <2>2, MarkedStays DEF PageInv
  <2>3. CASE changed'[p] = clock'
    BY <2>3, HistoryBounds DEF HistoryTypeOK, Start
  <2> QED
    BY <1>1, <2>2, <2>3, NewlyMissing
<1> QED
  BY <1>1, LeftStep, PageReadStep, PagesDoneStep DEF PageInv

\* A window that covers a parcel goes on doing so, if it starts before now.
LEMMA WindowStays ==
  ASSUME HistoryTypeOK, HistoryTypeOK', ClockInv, PageInv, [HistoryNext]_historyVars,
         checkpoint # 0, NEW p \in Trackings, NEW t \in Time, t <= clock
  PROVE  /\ (Behind(p) => Reaches(p, t) \/ Marked(p))
              => (Behind(p)' => Reaches(p, t)' \/ Marked(p)')
         /\ (Missing(p) => Reaches(p, t) \/ Marked(p))
              => (Missing(p)' => Reaches(p, t)' \/ Marked(p)')
<1>1. clock' >= t
  BY TimeGrows, HistoryBounds DEF HistoryTypeOK, Time, Start
<1>2. changed'[p] + Overlap >= clock' \/ changed'[p] = clock' => Reaches(p, t)'
  BY <1>1, HistoryBounds DEF HistoryTypeOK, Time, Start, Reaches
<1>3. changed'[p] = changed[p] /\ Reaches(p, t) => Reaches(p, t)'
  BY DEF Reaches
<1> QED
  BY <1>2, <1>3, NewlyBehind, NewlyMissing, MarkedStays

\* The clauses of RunInv about the run w and the parcel p.
Covers(w, p) ==
  kind[w] = "incremental" /\ pass[w] \notin {"idle", "start"} =>
    /\ pass[w] = "list" /\ Lagging(p) => Reaches(p, anchor[w]) \/ Marked(p)
    /\ p \notin unlisted[w] \union batch[w] /\ Behind(p) => Reaches(p, began[w]) \/ Marked(p)
    /\ p \notin unlisted[w] \union batch[w] \union {current[w]} /\ Missing(p) =>
         Reaches(p, began[w]) \/ Marked(p)

\* A run goes on covering what it does not touch.
LEMMA StillCovers ==
  ASSUME HistoryTypeOK, HistoryTypeOK', ClockInv, PageInv, RunInv, [HistoryNext]_historyVars,
         checkpoint # 0, NEW w \in Workers, NEW p \in Trackings, Still(w)
  PROVE  Covers(w, p)'
<1> SUFFICES ASSUME kind[w] = "incremental", pass[w] \notin {"idle", "start"}
             PROVE  Covers(w, p)'
  BY DEF Covers, Still
<1>1. anchor[w] \in Time /\ anchor[w] <= clock
  BY DEF HistoryTypeOK, ClockInv
<1>2. began[w] \in Time /\ began[w] <= clock
  BY HistoryBounds DEF HistoryTypeOK, ClockInv, Start
<1>3. PICK a \in Time, b \in Time : a = anchor[w] /\ b = began[w] /\ a <= clock /\ b <= clock
  BY <1>1, <1>2
<1>4. /\ pass[w] = "list" /\ (Behind(p) \/ Missing(p)) => Reaches(p, a) \/ Marked(p)
      /\ p \notin unlisted[w] \union batch[w] /\ Behind(p) => Reaches(p, b) \/ Marked(p)
      /\ p \notin unlisted[w] \union batch[w] \union {current[w]} /\ Missing(p) =>
           Reaches(p, b) \/ Marked(p)
  BY <1>3 DEF RunInv, Lagging
<1>5. pass[w] = "list" /\ (Behind(p)' \/ Missing(p)') => Reaches(p, a)' \/ Marked(p)'
  BY <1>3, <1>4, WindowStays
<1>6. p \notin unlisted[w] \union batch[w] /\ Behind(p)' => Reaches(p, b)' \/ Marked(p)'
  BY <1>3, <1>4, WindowStays
<1>7. p \notin unlisted[w] \union batch[w] \union {current[w]} /\ Missing(p)' =>
        Reaches(p, b)' \/ Marked(p)'
  BY <1>3, <1>4, WindowStays
<1>8. anchor'[w] = a /\ began'[w] = b /\ kind'[w] = kind[w] /\ pass'[w] = pass[w]
      /\ unlisted'[w] = unlisted[w] /\ batch'[w] = batch[w] /\ current'[w] = current[w]
  BY <1>3 DEF Still
<1> QED
  BY <1>5, <1>6, <1>7, <1>8 DEF Covers, Lagging, Reaches

\* A run goes on covering the parcels after a step of its own.
LEMMA StepCovers ==
  ASSUME HistoryTypeOK, HistoryTypeOK', ClockInv, PageInv, RunInv, WindowCovers,
         [HistoryNext]_historyVars,
         checkpoint # 0, NEW w \in Workers, NEW p \in Trackings, StepOf(w)
  PROVE  Covers(w, p)'
<1> USE HistoryBounds DEF HistoryTypeOK, PassTo, world, full
<1>1. ASSUME NEW q \in Trackings, Aim(w, q)
      PROVE  Covers(w, p)'
  BY <1>1 DEF Aim, Covers
<1>2. CASE BeginRun(w) \/ FinishRun(w) \/ AbortRun(w)
  BY <1>2 DEF BeginRun, FinishRun, AbortRun, Rest, Covers
<1>3. CASE ReadCheckpoint(w)
  <2>1. /\ pass'[w] = "list" /\ anchor'[w] = checkpoint /\ unlisted'[w] = Trackings
        /\ checkpoint # 0 /\ UNCHANGED <<world, snapshot, events, full, windowMarks>>
    BY <1>3 DEF ReadCheckpoint
  <2>2. Behind(p) \/ Missing(p) => Reaches(p, checkpoint) \/ Marked(p)
    BY <2>1 DEF WindowCovers, Lagging
  <2> QED
    BY <2>1, <2>2 DEF Covers, Lagging, Behind, Missing, Reaches, Marked
<1>4. ASSUME NEW q \in Trackings, ListPage(w, q)
      PROVE  Covers(w, p)'
  <2>1. /\ pass[w] = "list" /\ unlisted' = [unlisted EXCEPT ![w] = @ \ {q}]
        /\ UNCHANGED <<world, snapshot, events, full, kind, pass, began, anchor, current,
                       windowMarks>>
        /\ \/ batch' = [batch EXCEPT ![w] = @ \union {q}]
           \/ ~Reaches(q, anchor[w]) /\ UNCHANGED batch
    BY <1>4 DEF ListPage
  <2>2. (Behind(p)' <=> Behind(p)) /\ (Missing(p)' <=> Missing(p)) /\ (Marked(p)' <=> Marked(p))
        /\ (Reaches(p, anchor[w])' <=> Reaches(p, anchor[w]))
        /\ (Reaches(p, began[w])' <=> Reaches(p, began[w]))
    BY <2>1 DEF Behind, Missing, Marked, Reaches
  <2> SUFFICES ASSUME kind[w] = "incremental"
               PROVE  Covers(w, p)'
    BY <2>1 DEF Covers
  <2>3. Behind(p) \/ Missing(p) => Reaches(p, anchor[w]) \/ Marked(p)
    BY <2>1 DEF RunInv, Lagging
  <2>4. /\ p \notin unlisted[w] \union batch[w] /\ Behind(p) => Reaches(p, began[w]) \/ Marked(p)
        /\ p \notin unlisted[w] \union batch[w] \union {current[w]} /\ Missing(p) =>
             Reaches(p, began[w]) \/ Marked(p)
    BY <2>1 DEF RunInv
  <2>5. p \notin unlisted'[w] \union batch'[w] =>
          p \notin unlisted[w] \union batch[w] \/ ~Reaches(p, anchor[w])
    BY <2>1
  <2> QED
    BY <2>1, <2>2, <2>3, <2>4, <2>5 DEF Covers, Lagging
<1>5. CASE CutBatch(w)
  <2>1. PICK B \in SUBSET batch[w] :
          /\ batch' = [batch EXCEPT ![w] = B]
          /\ Marks("cut", Dropped(w, batch[w] \ B)) \subseteq windowMarks'
          /\ Marks("short", Dropped(w, unlisted[w])) \subseteq windowMarks'
    BY <1>5 DEF CutBatch
  <2>2. /\ pass[w] = "list" /\ pass'[w] = "write" /\ unlisted' = [unlisted EXCEPT ![w] = {}]
        /\ UNCHANGED <<clock, changed, snapshot, events, full, kind, began, current>>
    BY <1>5 DEF CutBatch
  <2>3. (Behind(p)' <=> Behind(p)) /\ (Missing(p)' <=> Missing(p)) /\ (Marked(p) => Marked(p)')
        /\ (Reaches(p, began[w])' <=> Reaches(p, began[w]))
    BY <2>2, MarkedStays DEF Behind, Missing, Reaches
  <2>4. p \in (batch[w] \ B) \union unlisted[w] /\ Lagging(p) =>
          Reaches(p, began[w]) \/ Marked(p)'
    <3> SUFFICES ASSUME p \in (batch[w] \ B) \union unlisted[w], Lagging(p), ~Reaches(p, began[w])
                 PROVE  Marked(p)'
      OBVIOUS
    <3>1. \/ p \in Dropped(w, batch[w] \ B)
          \/ p \in Dropped(w, unlisted[w])
      BY DEF Dropped
    <3> HIDE DEF HistoryTypeOK, PassTo, world, full
    <3> QED
      BY <2>1, <2>2, <3>1, MarkIsKept DEF WindowMark
  <2> SUFFICES ASSUME kind[w] = "incremental"
               PROVE  Covers(w, p)'
    BY <2>2 DEF Covers
  <2>5. /\ p \notin unlisted[w] \union batch[w] /\ Behind(p) => Reaches(p, began[w]) \/ Marked(p)
        /\ p \notin unlisted[w] \union batch[w] \union {current[w]} /\ Missing(p) =>
             Reaches(p, began[w]) \/ Marked(p)
    BY <2>2 DEF RunInv
  <2> QED
    BY <2>1, <2>2, <2>3, <2>4, <2>5 DEF Covers, Lagging
<1>6. ASSUME NEW q \in Trackings, WriteSnapshot(w, q)
      PROVE  Covers(w, p)'
  <2>1. /\ pass[w] = "write" /\ q \in batch[w] /\ pass'[w] = "history"
        /\ snapshot' = [snapshot EXCEPT ![q] = listedAs[w][q]]
        /\ batch' = [batch EXCEPT ![w] = @ \ {q}] /\ current'[w] = q
        /\ UNCHANGED <<world, events, full, kind, began, unlisted>>
    BY <1>6 DEF WriteSnapshot
  <2>2. (Missing(p)' <=> Missing(p)) /\ (Marked(p) => Marked(p)')
        /\ (Reaches(p, began[w])' <=> Reaches(p, began[w]))
    BY <2>1, MarkedStays DEF Missing, Reaches
  <2> SUFFICES ASSUME kind[w] = "incremental"
               PROVE  Covers(w, p)'
    BY <2>1 DEF Covers
  <2>3. /\ p \notin unlisted[w] \union batch[w] /\ Behind(p) => Reaches(p, began[w]) \/ Marked(p)
        /\ p \notin unlisted[w] \union batch[w] \union {current[w]} /\ Missing(p) =>
             Reaches(p, began[w]) \/ Marked(p)
    BY <2>1 DEF RunInv
  <2>4. current[w] \notin Trackings
    BY <2>1 DEF ClockInv
  <2>5. CASE p # q
    <3>1. Behind(p)' <=> Behind(p)
      BY <2>1, <2>5 DEF Behind
    <3> QED
      BY <2>1, <2>2, <2>3, <2>4, <2>5, <3>1 DEF Covers
  <2>6. CASE p = q
    <3>1. Behind(p)' => Reaches(p, began[w])
      <4>1. Behind(p)' => listedAs[w][p] # changed[p]
        BY <2>1, <2>6 DEF Behind
      <4>2. listedAs[w][p] # changed[p] => changed[p] >= began[w]
        BY <2>1, <2>6 DEF ClockInv
      <4> QED
        BY <4>1, <4>2 DEF Reaches, Time
    <3> QED
      BY <2>1, <2>2, <2>6, <3>1 DEF Covers
  <2> QED
    BY <2>5, <2>6
<1>7. CASE WriteEvents(w)
  <2>1. /\ pass[w] = "history" /\ pass'[w] = "write" /\ current'[w] = NoTracking
        /\ events' = [events EXCEPT ![current[w]] = changed[current[w]]]
        /\ UNCHANGED <<world, snapshot, full, kind, began, unlisted, batch, windowMarks>>
    BY <1>7 DEF WriteEvents
  <2>2. (Behind(p)' <=> Behind(p)) /\ (Marked(p)' <=> Marked(p))
        /\ (Reaches(p, began[w])' <=> Reaches(p, began[w]))
    BY <2>1 DEF Behind, Marked, Reaches
  <2>3. Missing(p)' => Missing(p) /\ p # current[w]
    BY <2>1 DEF Missing
  <2> SUFFICES ASSUME kind[w] = "incremental"
               PROVE  Covers(w, p)'
    BY <2>1 DEF Covers
  <2>4. /\ p \notin unlisted[w] \union batch[w] /\ Behind(p) => Reaches(p, began[w]) \/ Marked(p)
        /\ p \notin unlisted[w] \union batch[w] \union {current[w]} /\ Missing(p) =>
             Reaches(p, began[w]) \/ Marked(p)
    BY <2>1 DEF RunInv
  <2> QED
    BY <2>1, <2>2, <2>3, <2>4 DEF Covers
<1>8. CASE MissHistory(w)
  <2>1. /\ pass[w] = "history" /\ pass'[w] = "write" /\ current'[w] = NoTracking
        /\ kind[w] = "incremental" /\ Missing(current[w]) /\ ~Reaches(current[w], began[w]) =>
             Marks("gap", {current[w]}) \subseteq windowMarks'
        /\ UNCHANGED <<world, snapshot, events, full, kind, began, unlisted, batch>>
    BY <1>8 DEF MissHistory
  <2>2. (Behind(p)' <=> Behind(p)) /\ (Missing(p)' <=> Missing(p)) /\ (Marked(p) => Marked(p)')
        /\ (Reaches(p, began[w])' <=> Reaches(p, began[w]))
    BY <2>1, MarkedStays DEF Behind, Missing, Reaches
  <2> SUFFICES ASSUME kind[w] = "incremental"
               PROVE  Covers(w, p)'
    BY <2>1 DEF Covers
  <2>3. p = current[w] /\ Missing(p) => Reaches(p, began[w]) \/ Marked(p)'
    <3> SUFFICES ASSUME p = current[w], Missing(p), ~Reaches(p, began[w])
                 PROVE  Marked(p)'
      OBVIOUS
    <3>1. Marks("gap", {p}) \subseteq windowMarks' /\ changed'[p] = changed[p]
      BY <2>1
    <3> HIDE DEF HistoryTypeOK, PassTo, world, full
    <3> QED
      BY <3>1, MarkIsKept DEF WindowMark
  <2>4. /\ p \notin unlisted[w] \union batch[w] /\ Behind(p) => Reaches(p, began[w]) \/ Marked(p)
        /\ p \notin unlisted[w] \union batch[w] \union {current[w]} /\ Missing(p) =>
             Reaches(p, began[w]) \/ Marked(p)
    BY <2>1 DEF RunInv
  <2> QED
    BY <2>1, <2>2, <2>3, <2>4 DEF Covers
<1> QED
  BY <1>1, <1>2, <1>3, <1>4, <1>5, <1>6, <1>7, <1>8 DEF StepOf

LEMMA RunStep ==
  ASSUME HistoryTypeOK, HistoryTypeOK', ClockInv, ClockInv', PageInv, RunInv, WindowCovers,
         [HistoryNext]_historyVars
  PROVE  RunInv'
<1>1. SUFFICES ASSUME NEW w \in Workers, NEW p \in Trackings
               PROVE  Covers(w, p)'
  BY DEF RunInv, Covers
<1>2. CASE checkpoint # 0
  <2>1. CASE StepOf(w)
    BY <1>2, <2>1, StepCovers
  <2>2. CASE ~StepOf(w)
    BY <1>2, <2>2, OthersAreStill, StillCovers
  <2> QED
    BY <2>1, <2>2
<1>3. CASE checkpoint = 0
  <2>1. checkpoint = 0
    BY <1>3
  <2>2. kind[w] = "incremental" => pass[w] \in {"idle", "start"}
    BY <2>1 DEF ClockInv, HistoryTypeOK
  <2>3. CASE ~StepOf(w)
    BY <2>2, <2>3, OthersAreStill DEF Still, Covers
  <2>4. CASE StepOf(w)
    <3> USE DEF HistoryTypeOK, PassTo, Covers
    <3>1. ASSUME NEW q \in Trackings, Aim(w, q)
          PROVE  Covers(w, p)'
      BY <3>1 DEF Aim
    <3>2. CASE BeginRun(w) \/ FinishRun(w) \/ AbortRun(w)
      BY <3>2 DEF BeginRun, FinishRun, AbortRun, Rest
    <3>3. ~ReadCheckpoint(w)
      BY <2>1 DEF ReadCheckpoint
    <3>4. ASSUME NEW q \in Trackings, ListPage(w, q) \/ WriteSnapshot(w, q)
          PROVE  Covers(w, p)'
      BY <2>2, <3>4 DEF ListPage, WriteSnapshot
    <3>5. CASE CutBatch(w) \/ WriteEvents(w) \/ MissHistory(w)
      BY <2>2, <3>5 DEF CutBatch, WriteEvents, MissHistory
    <3> QED
      BY <2>4, <3>1, <3>2, <3>3, <3>4, <3>5 DEF StepOf
  <2> QED
    BY <2>3, <2>4
<1> QED
  BY <1>2, <1>3 DEF HistoryTypeOK

\* The checkpoint that the first phase leaves: what it left behind it changed after
\* it began, and what it did not read is marked.
LEMMA FirstWindow ==
  ASSUME HistoryTypeOK, HistoryTypeOK', ClockInv, PageInv, CompleteParcels,
         checkpoint' # checkpoint, NEW p \in Trackings, Lagging(p)'
  PROVE  Reaches(p, checkpoint)' \/ Marked(p)'
<1> USE HistoryBounds DEF HistoryTypeOK, Time, Start
<1> DEFINE Torn == {q \in Unread : Lagging(q)}
           Slow == {q \in Trackings : Lagging(q) /\ clock > Start + Overlap}
<1>1. /\ stage = "parcels" /\ AtEnd /\ checkpoint' = clock
      /\ UNCHANGED <<changed, clock, snapshot, events>>
      /\ Marks("torn", Torn) \subseteq windowMarks' /\ Marks("slow", Slow) \subseteq windowMarks'
  BY DEF CompleteParcels
<1>2. checkpoint = 0
  BY <1>1 DEF PageInv
<1>3. Lagging(p) \/ Marked(p)'
  <2>1. Behind(p)' => Behind(p)
    BY <1>1 DEF Behind
  <2>3. Missing(p)' => Missing(p)
    <3>1. saved'["histories"] = saved["histories"] /\ GoOn("histories")
      BY DEF CompleteParcels
    <3> QED
      BY <1>1, <3>1, MissingAtGoOn
  <2> QED
    BY <2>1, <2>3 DEF Lagging
<1>4. CASE p \in Torn
  BY <1>1, <1>4, MarkIsKept DEF WindowMark
<1>5. CASE p \in Slow
  BY <1>1, <1>5, MarkIsKept DEF WindowMark
<1>6. ASSUME changed[p] >= Start, p \notin Slow, Lagging(p)
      PROVE  Reaches(p, checkpoint)'
  BY <1>1, <1>6 DEF Reaches
<1>7. CASE Marked(p)
  <2>1. [HistoryNext]_historyVars
    BY DEF HistoryNext
  <2> QED
    BY <1>1, <1>7, <2>1, MarkedStays
<1>8. CASE Lagging(p) /\ p \notin Torn
  <2>1. Behind(p) => changed[p] >= Start
    <3>1. p \notin Unread
      BY <1>8
    <3>2. ~Ahead(p)
      BY <1>1, <3>1 DEF Ahead, AtEnd, Unread
    <3> QED
      BY <1>2, <3>2 DEF PageInv
  <2>2. Missing(p) => changed[p] >= Start \/ Marked(p)
    BY <1>2 DEF PageInv
  <2> QED
    BY <1>5, <1>6, <1>7, <1>8, <2>1, <2>2 DEF Lagging
<1> HIDE DEF Torn, Slow
<1> QED
  BY <1>3, <1>4, <1>8

LEMMA WindowStep ==
  ASSUME HistoryTypeOK, HistoryTypeOK', ClockInv, PageInv, RunInv, WindowCovers,
         [HistoryNext]_historyVars
  PROVE  WindowCovers'
<1>1. SUFFICES ASSUME checkpoint' # 0, NEW p \in Trackings, Lagging(p)'
               PROVE  Reaches(p, checkpoint)' \/ Marked(p)'
  BY DEF WindowCovers
<1>2. CASE UNCHANGED checkpoint
  <2>1. checkpoint # 0
    BY <1>1, <1>2
  <2>2. PICK t \in Time : t = checkpoint /\ t <= clock
    BY DEF HistoryTypeOK, ClockInv
  <2>3. (Behind(p) => Reaches(p, t) \/ Marked(p)) /\ (Missing(p) => Reaches(p, t) \/ Marked(p))
    BY <1>1, <1>2, <2>2 DEF WindowCovers, Lagging
  <2>4. Reaches(p, t)' \/ Marked(p)'
    BY <1>1, <2>1, <2>2, <2>3, WindowStays DEF Lagging
  <2> QED
    BY <1>2, <2>2, <2>4 DEF Reaches
<1>3. CASE CompleteParcels
  BY <1>1, <1>2, <1>3, FirstWindow
<1>4. ASSUME NEW w \in Workers, FinishRun(w), checkpoint' # checkpoint
      PROVE  Reaches(p, checkpoint)' \/ Marked(p)'
  <2>1. /\ kind[w] = "incremental" /\ pass[w] = "write" /\ batch[w] = {}
        /\ checkpoint' = began[w]
        /\ UNCHANGED <<changed, snapshot, events, stage, left, page, pageSaw, windowMarks>>
        /\ UNCHANGED saved
    BY <1>4 DEF FinishRun, Rest, world, full
  <2>2. Behind(p) \/ Missing(p)
    BY <1>1, <2>1 DEF Lagging, Behind, Missing
  <2>3. unlisted[w] = {} /\ current[w] \notin Trackings
    BY <2>1 DEF ClockInv
  <2>4. Reaches(p, began[w]) \/ Marked(p)
    BY <2>1, <2>2, <2>3 DEF RunInv
  <2> QED
    BY <2>1, <2>4 DEF Reaches, Marked
<1> QED
  BY <1>2, <1>3, <1>4, CheckpointSteps

-----------------------------------------------------------------------------
(* The theorems.                                                           *)

\* A behaviour begins before the full sync, or where one has left it.
LEMMA HistoryInitially == HistoryInit \/ HistoryLater => HistoryInv
<1> USE HistoryBounds DEF Time, Start, Unseen
<1> SUFFICES ASSUME HistoryInit \/ HistoryLater PROVE HistoryInv
  OBVIOUS
<1>1. HistoryTypeOK
  <2>1. /\ clock \in Start..MaxClock /\ checkpoint \in Time /\ pageSaw \in Time
    BY DEF HistoryInit, HistoryLater, NoPage
  <2>7. changed \in [Trackings -> 1..MaxClock]
    BY DEF HistoryInit, HistoryLater
  <2>8. snapshot \in [Trackings -> Time] /\ events \in [Trackings -> Time]
    BY <2>7 DEF HistoryInit, HistoryLater
  <2>6. saved \in [{"parcels", "histories"} -> SUBSET Trackings]
    BY DEF HistoryInit, HistoryLater
  <2>2. /\ stage \in {"parcels", "histories", "done"} /\ left \subseteq Trackings
        /\ historyFaults \in 0..MaxHistoryFaults
    BY DEF HistoryInit, HistoryLater
  <2>9. page \in Trackings \union {NoTracking} /\ pageDone \in BOOLEAN
    <3>1. NoPage
      BY DEF HistoryInit, HistoryLater
    <3> QED
      BY <3>1 DEF NoPage
  <2>3. NoRuns /\ Unseen \in [Trackings -> Time]
    BY DEF HistoryInit, HistoryLater
  <2>4. /\ kind \in [Workers -> {"incremental", "targeted"}]
        /\ pass \in [Workers -> {"idle", "start", "list", "write", "history"}]
        /\ began \in [Workers -> Time] /\ anchor \in [Workers -> Time]
    BY <2>3 DEF NoRuns
  <2>5. /\ unlisted \in [Workers -> SUBSET Trackings]
        /\ batch \in [Workers -> SUBSET Trackings]
        /\ listedAs \in [Workers -> [Trackings -> Time]]
        /\ current \in [Workers -> Trackings \union {NoTracking}]
        /\ windowMarks \subseteq WindowMark \X Trackings \X Time
    BY <2>3 DEF NoRuns
  <2> QED
    BY <2>1, <2>2, <2>4, <2>5, <2>6, <2>7, <2>8, <2>9 DEF HistoryTypeOK
<1>2. ClockInv
  <2>1. checkpoint <= clock /\ (checkpoint # 0 => saved["parcels"] = {})
    BY DEF HistoryInit, HistoryLater
  <2> QED
    BY <2>1 DEF HistoryInit, HistoryLater, ClockInv, NoRuns
<1>3. PageInv
  BY DEF HistoryInit, HistoryLater, PageInv, Ahead, Missing, NoPage
<1>4. RunInv
  BY DEF HistoryInit, HistoryLater, RunInv, NoRuns
<1>5. WindowCovers
  <2>1. CASE HistoryInit
    BY <2>1 DEF HistoryInit, WindowCovers
  <2>2. CASE HistoryLater
    BY <2>2 DEF HistoryLater, WindowCovers, Lagging, Behind, Missing
  <2> QED
    BY <2>1, <2>2
<1> QED
  BY <1>1, <1>2, <1>3, <1>4, <1>5 DEF HistoryInv

LEMMA HistoryInductive == HistoryInv /\ [HistoryNext]_historyVars => HistoryInv'
<1> SUFFICES ASSUME HistoryInv, [HistoryNext]_historyVars
             PROVE  HistoryInv'
  OBVIOUS
<1>1. HistoryTypeOK /\ ClockInv /\ PageInv /\ RunInv /\ WindowCovers
  BY DEF HistoryInv
<1>2. HistoryTypeOK'
  BY <1>1, HistoryTypeStep
<1>3. ClockInv'
  BY <1>1, <1>2, ClockStep
<1>4. PageInv'
  BY <1>1, <1>2, <1>3, PageStep
<1>5. RunInv'
  BY <1>1, <1>2, <1>3, RunStep
<1>6. WindowCovers'
  BY <1>1, <1>2, WindowStep
<1> QED
  BY <1>2, <1>3, <1>4, <1>5, <1>6 DEF HistoryInv

\* What the checkpoint leaves out: the inductive invariant holds of every sync
\* (yalidine-history-incremental-sync.ts, yalidine-history-full-sync.ts).
THEOREM HistoryInvariance == HistorySpec => []HistoryInv
BY HistoryInitially, HistoryInductive, PTL DEF HistorySpec

\* Variables keep their types, for every number of parcels and syncs.
THEOREM HistoryTypeCorrect == HistorySpec => []HistoryTypeOK
<1>1. HistoryInv => HistoryTypeOK
  BY DEF HistoryInv
<1> QED
  BY <1>1, HistoryInvariance, PTL

\* The next incremental sync will list every parcel whose snapshot or events lag
\* the courier, unless it has not changed since it met what WindowMark lists
\* (yalidine-history-incremental-sync.ts:580).
THEOREM NextRunCovers == HistorySpec => []WindowCovers
<1>1. HistoryInv => WindowCovers
  BY DEF HistoryInv
<1> QED
  BY <1>1, HistoryInvariance, PTL
=============================================================================
