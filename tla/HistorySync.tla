------------------------------ MODULE HistorySync ------------------------------
(***************************************************************************)
(* Parcels and their histories, copied from Yalidine for one merchant.     *)
(*                                                                         *)
(* The full sync reads every page of parcels and then every page of        *)
(* histories, saving a cursor after each, and leaves a checkpoint: the     *)
(* time it was done with the parcels.  An incremental sync lists what has  *)
(* changed since Overlap before the checkpoint, copies that, and moves the *)
(* checkpoint to the time it began.  Targeted syncs copy one parcel and    *)
(* leave the checkpoint.  Syncs run beside each other without              *)
(* coordination, on a snapshot row per parcel, which each overwrites, and  *)
(* on events, which are only added.  The cursors and the checkpoint are    *)
(* written without a look at the error, and an answer that is not JSON is  *)
(* taken for an empty last page.                                           *)
(*                                                                         *)
(* The revision of a parcel is the time of its last change.  A page holds  *)
(* one parcel, and no parcel moves between pages.                          *)
(***************************************************************************)
EXTENDS Naturals, FiniteSets

CONSTANTS
  Trackings,     \* the merchant's parcels
  NoTracking,    \* stands for no parcel
  Workers,       \* incremental and targeted syncs under way at one time
  Overlap,       \* OVERLAP_MS
  MaxPerRun,     \* MAX_PARCELS_PER_RUN
  MaxClock,      \* bound: time
  MaxHistoryFaults  \* bound: writes of the full sync that fail, listings that end early

\* The full sync begins when everything is older than Overlap.
Start == Overlap + 2

ASSUME HistoryBounds ==
  /\ IsFiniteSet(Trackings) /\ NoTracking \notin Trackings
  /\ Overlap \in Nat /\ MaxPerRun \in Nat
  /\ MaxClock \in Nat /\ MaxClock >= Start
  /\ MaxHistoryFaults \in Nat

VARIABLES
  clock,
  changed,       \* changed[p]: when the parcel changed last, at the courier
  historyFaults,
  snapshot,      \* snapshot[p]: the revision in the snapshot row, 0 for no row
  events,        \* events[p]: the last change among the events stored
  checkpoint,    \* last_parcels_synced_at, 0 for NULL
  stage,         \* what the full sync copies
  left,          \* the pages it has still to copy
  saved,         \* saved[s]: the pages from the cursor of s on, none if completed
  page,          \* the page it has read
  pageSaw,       \* the revision on it
  pageDone,      \* whether it is written
  kind,          \* kind[w]: what the sync w is
  pass,          \* pass[w]: what it is about to do
  began,         \* began[w]: syncStartedAt
  anchor,        \* anchor[w]: the checkpoint it found
  unlisted,      \* unlisted[w]: pages it has not read
  batch,         \* batch[w]: parcels listed and not written
  listedAs,      \* listedAs[w]: their revisions
  current,       \* current[w]: the parcel whose history is next
  windowMarks    \* history: <<mark, p, r>>, see WindowMark

world == <<clock, changed, historyFaults>>
full == <<stage, left, saved, page, pageSaw, pageDone>>
worker == <<kind, pass, began, anchor, unlisted, batch, listedAs, current>>
historyVars == <<world, snapshot, events, checkpoint, full, worker, windowMarks>>

\* How the revision r of the parcel p may be in no later window.  slow: the full
\* sync took longer than Overlap and r was made behind it.  torn: the full sync took
\* an earlier page for the last.  A run that began more than Overlap after r, cut:
\* had more than MaxPerRun; short: listed too few pages; gap: could not read the
\* history.  long: a run wrote what was out of date more than Overlap after it began.
WindowMark == {"slow", "torn", "cut", "short", "gap", "long"}

Time == 0..MaxClock

HistoryTypeOK ==
  /\ clock \in Start..MaxClock
  /\ changed \in [Trackings -> 1..MaxClock]
  /\ historyFaults \in 0..MaxHistoryFaults
  /\ snapshot \in [Trackings -> Time]
  /\ events \in [Trackings -> Time]
  /\ checkpoint \in Time
  /\ stage \in {"parcels", "histories", "done"}
  /\ left \subseteq Trackings
  /\ saved \in [{"parcels", "histories"} -> SUBSET Trackings]
  /\ page \in Trackings \union {NoTracking}
  /\ pageSaw \in Time
  /\ pageDone \in BOOLEAN
  /\ kind \in [Workers -> {"incremental", "targeted"}]
  /\ pass \in [Workers -> {"idle", "start", "list", "write", "history"}]
  /\ began \in [Workers -> Time]
  /\ anchor \in [Workers -> Time]
  /\ unlisted \in [Workers -> SUBSET Trackings]
  /\ batch \in [Workers -> SUBSET Trackings]
  /\ listedAs \in [Workers -> [Trackings -> Time]]
  /\ current \in [Workers -> Trackings \union {NoTracking}]
  /\ windowMarks \subseteq WindowMark \X Trackings \X Time

Unseen == [p \in Trackings |-> 0]

NewPage(p, r, done) == page' = p /\ pageSaw' = r /\ pageDone' = done

NoPage == page = NoTracking /\ pageSaw = 0 /\ pageDone = FALSE

NoRuns ==
  /\ kind = [w \in Workers |-> "targeted"]
  /\ pass = [w \in Workers |-> "idle"]
  /\ began = [w \in Workers |-> 0]
  /\ anchor = [w \in Workers |-> 0]
  /\ unlisted = [w \in Workers |-> {}]
  /\ batch = [w \in Workers |-> {}]
  /\ listedAs = [w \in Workers |-> Unseen]
  /\ current = [w \in Workers |-> NoTracking]
  /\ windowMarks = {}

HistoryInit ==
  /\ clock = Start
  /\ changed = [p \in Trackings |-> 1] /\ historyFaults = 0
  /\ snapshot = Unseen /\ events = Unseen
  /\ checkpoint = 0 /\ stage = "parcels" /\ left = Trackings
  /\ saved = [s \in {"parcels", "histories"} |-> Trackings]
  /\ NoPage /\ NoRuns

\* The state that a full sync leaves when nothing changes meanwhile.
HistoryLater ==
  /\ clock = Start
  /\ changed = [p \in Trackings |-> 1] /\ historyFaults = 0
  /\ snapshot = changed /\ events = changed
  /\ checkpoint = Start /\ stage = "done" /\ left = {}
  /\ saved = [s \in {"parcels", "histories"} |-> {}]
  /\ NoPage /\ NoRuns

-----------------------------------------------------------------------------
(* The courier.                                                            *)

Tick ==
  /\ clock < MaxClock
  /\ clock' = clock + 1
  /\ UNCHANGED <<changed, historyFaults, snapshot, events, checkpoint, full, worker, windowMarks>>

Move(p) ==
  /\ clock < MaxClock
  /\ clock' = clock + 1
  /\ changed' = [changed EXCEPT ![p] = clock + 1]
  /\ UNCHANGED <<historyFaults, snapshot, events, checkpoint, full, worker, windowMarks>>

\* The parcel is listed by a run that finds the checkpoint t.
Reaches(p, t) == changed[p] + Overlap >= t

Behind(p) == snapshot[p] # changed[p]

\* Events are missing that the full sync has copied, or has read and will not copy
\* as they are now.
Missing(p) ==
  /\ events[p] # changed[p]
  /\ p \in (IF stage = "parcels" THEN saved["histories"] ELSE left) =>
       stage = "histories" /\ p = page /\ pageSaw # changed[p]

Lagging(p) == Behind(p) \/ Missing(p)

Marks(k, S) == {<<k, p, changed[p]>> : p \in S}

HistoryFault(bad) ==
  /\ historyFaults' = IF bad THEN historyFaults + 1 ELSE historyFaults
  /\ historyFaults' <= MaxHistoryFaults

-----------------------------------------------------------------------------
(* The full sync.                                                          *)

\* The page at the cursor.
ReadPage(p) ==
  /\ page = NoTracking /\ p \in left
  /\ NewPage(p, changed[p], FALSE)
  /\ UNCHANGED <<world, snapshot, events, checkpoint, stage, left, saved, worker, windowMarks>>

\* upsertParcelSnapshot overwrites.
WriteParcels ==
  /\ stage = "parcels" /\ page # NoTracking /\ ~pageDone
  /\ NewPage(page, pageSaw, TRUE)
  /\ snapshot' = [snapshot EXCEPT ![page] = pageSaw]
  /\ UNCHANGED <<world, events, checkpoint, stage, left, saved, worker, windowMarks>>

\* upsertShipmentEvents adds.
WriteHistories ==
  /\ stage = "histories" /\ page # NoTracking /\ ~pageDone
  /\ NewPage(page, pageSaw, TRUE)
  /\ events' = [events EXCEPT ![page] = IF pageSaw > @ THEN pageSaw ELSE @]
  /\ UNCHANGED <<world, snapshot, checkpoint, stage, left, saved, worker, windowMarks>>

\* savePhaseACheckpoint and savePhaseBCheckpoint, before the last page.  When the
\* UPDATE fails the cursor stays.
SaveCursor ==
  /\ page # NoTracking /\ pageDone /\ left # {page}
  /\ left' = left \ {page}
  /\ \/ HistoryFault(FALSE) /\ saved' = [saved EXCEPT ![stage] = left']
     \/ HistoryFault(TRUE) /\ UNCHANGED saved
  /\ NewPage(NoTracking, 0, FALSE)
  /\ UNCHANGED <<clock, changed, snapshot, events, checkpoint, stage, worker, windowMarks>>

\* No page follows: the last one is written, or an answer that is not JSON is taken
\* for one that is empty.
AtEnd == page # NoTracking => pageDone /\ left = {page}

Unread == IF page = NoTracking THEN left ELSE {}

\* Goes on with the stage s, from its cursor, or with the one after.
GoOn(s) ==
  /\ stage' = IF s = "parcels" /\ saved'["parcels"] # {} THEN "parcels"
                ELSE IF saved'["histories"] # {} THEN "histories" ELSE "done"
  /\ left' = IF stage' = "done" THEN {} ELSE saved'[stage']
  /\ NewPage(NoTracking, 0, FALSE)

\* Phase A is done: the checkpoint is the time of this, not of the beginning.  When
\* the UPDATE fails there is none, and phase B runs all the same.
CompleteParcels ==
  /\ stage = "parcels" /\ AtEnd
  /\ \/ /\ HistoryFault(Unread # {})
        /\ checkpoint' = clock
        /\ saved' = [saved EXCEPT !["parcels"] = {}]
        /\ windowMarks' = windowMarks \union Marks("torn", {p \in Unread : Lagging(p)})
             \union Marks("slow", {p \in Trackings : Lagging(p) /\ clock > Start + Overlap})
     \/ HistoryFault(TRUE) /\ UNCHANGED <<checkpoint, saved, windowMarks>>
  /\ GoOn("histories")
  /\ UNCHANGED <<clock, changed, snapshot, events, worker>>

CompleteHistories ==
  /\ stage = "histories" /\ AtEnd
  /\ stage' = "done"
  /\ left' = {}
  /\ \/ HistoryFault(Unread # {}) /\ saved' = [saved EXCEPT !["histories"] = {}]
     \/ HistoryFault(TRUE) /\ UNCHANGED saved
  /\ NewPage(NoTracking, 0, FALSE)
  /\ windowMarks' = windowMarks \union Marks("torn", {p \in Unread : events[p] # changed[p]})
  /\ UNCHANGED <<clock, changed, snapshot, events, checkpoint, worker>>

\* An error or a crash, after which the job is tried again, or the job is queued once
\* more: the full sync resumes from its cursors.
ResumeFull ==
  /\ UNCHANGED <<world, snapshot, events, checkpoint, saved, worker, windowMarks>>
  /\ GoOn("parcels")

-----------------------------------------------------------------------------
(* Incremental and targeted syncs.                                         *)

PassTo(w, s) == pass' = [pass EXCEPT ![w] = s]

\* runYalidineTargetedSync reads the parcel; a 404 leaves the snapshot.
Aim(w, p) ==
  /\ pass[w] = "idle"
  /\ kind' = [kind EXCEPT ![w] = "targeted"]
  /\ began' = [began EXCEPT ![w] = clock]
  /\ \/ /\ PassTo(w, "write")
        /\ batch' = [batch EXCEPT ![w] = {p}]
        /\ listedAs' = [listedAs EXCEPT ![w][p] = changed[p]]
        /\ UNCHANGED current
     \/ /\ PassTo(w, "history")
        /\ current' = [current EXCEPT ![w] = p]
        /\ UNCHANGED <<batch, listedAs>>
  /\ UNCHANGED <<world, snapshot, events, checkpoint, full, anchor, unlisted, windowMarks>>

\* runIncrementalSync: syncStartedAt.  The scheduler keeps runs half an hour and
\* a job apart; nothing here needs it.
BeginRun(w) ==
  /\ pass[w] = "idle"
  /\ kind' = [kind EXCEPT ![w] = "incremental"]
  /\ began' = [began EXCEPT ![w] = clock]
  /\ PassTo(w, "start")
  /\ UNCHANGED <<world, snapshot, events, checkpoint, full, anchor, unlisted, batch,
                 listedAs, current, windowMarks>>

\* Without a checkpoint the run is skipped, which is AbortRun.
ReadCheckpoint(w) ==
  /\ pass[w] = "start" /\ checkpoint # 0
  /\ anchor' = [anchor EXCEPT ![w] = checkpoint]
  /\ unlisted' = [unlisted EXCEPT ![w] = Trackings]
  /\ PassTo(w, "list")
  /\ UNCHANGED <<world, snapshot, events, checkpoint, full, kind, began, batch, listedAs,
                 current, windowMarks>>

\* fetchAllPages reads a page, of which fetchParcelsSince keeps what is late enough.
\* It compares dates: it may keep a parcel that changed earlier, on the day of the
\* anchor or without a date.
ListPage(w, p) ==
  /\ pass[w] = "list" /\ p \in unlisted[w]
  /\ unlisted' = [unlisted EXCEPT ![w] = @ \ {p}]
  /\ \/ /\ batch' = [batch EXCEPT ![w] = @ \union {p}]
        /\ listedAs' = [listedAs EXCEPT ![w][p] = changed[p]]
     \/ ~Reaches(p, anchor[w]) /\ UNCHANGED <<batch, listedAs>>
  /\ UNCHANGED <<world, snapshot, events, checkpoint, full, kind, pass, began, anchor,
                 current, windowMarks>>

\* What the run leaves out is not in the window it leaves.
Dropped(w, S) == {p \in S : Lagging(p) /\ ~Reaches(p, began[w])}

\* The listing ends with the last page, or before it without an error: after 100
\* pages, at a link that was followed before, at an answer that is empty or not JSON.
\* MAX_PARCELS_PER_RUN: the rest is dropped.
CutBatch(w) ==
  /\ pass[w] = "list"
  /\ HistoryFault(unlisted[w] # {})
  /\ PassTo(w, "write")
  /\ \E B \in SUBSET batch[w] :
       /\ B = batch[w] \/ Cardinality(B) = MaxPerRun
       /\ Cardinality(batch[w]) <= MaxPerRun => B = batch[w]
       /\ Cardinality(B) <= MaxPerRun
       /\ batch' = [batch EXCEPT ![w] = B]
       /\ listedAs' = [listedAs EXCEPT ![w] = [p \in Trackings |-> IF p \in B THEN @[p] ELSE 0]]
       /\ windowMarks' = windowMarks \union Marks("cut", Dropped(w, batch[w] \ B))
                                     \union Marks("short", Dropped(w, unlisted[w]))
  /\ anchor' = [anchor EXCEPT ![w] = 0]
  /\ unlisted' = [unlisted EXCEPT ![w] = {}]
  /\ UNCHANGED <<clock, changed, snapshot, events, checkpoint, full, kind, began, current>>

\* The snapshot as it was read, whatever the row says by now.
WriteSnapshot(w, p) ==
  /\ pass[w] = "write" /\ p \in batch[w]
  /\ snapshot' = [snapshot EXCEPT ![p] = listedAs[w][p]]
  /\ batch' = [batch EXCEPT ![w] = @ \ {p}]
  /\ listedAs' = [listedAs EXCEPT ![w][p] = 0]
  /\ current' = [current EXCEPT ![w] = p]
  /\ PassTo(w, "history")
  /\ windowMarks' =
       IF listedAs[w][p] # changed[p] /\ clock > began[w] + Overlap
         THEN windowMarks \union Marks("long", {p}) ELSE windowMarks
  /\ UNCHANGED <<world, events, checkpoint, full, kind, began, anchor, unlisted>>

\* The history is read and its events added; nothing tells when they are added.
WriteEvents(w) ==
  /\ pass[w] = "history"
  /\ events' = [events EXCEPT ![current[w]] = changed[current[w]]]
  /\ PassTo(w, "write")
  /\ current' = [current EXCEPT ![w] = NoTracking]
  /\ UNCHANGED <<world, snapshot, checkpoint, full, kind, began, anchor, unlisted, batch,
                 listedAs, windowMarks>>

\* A sync goes on without a history that is not there (404, or no event), and an
\* incremental one without one that cannot be read.
MissHistory(w) ==
  /\ pass[w] = "history"
  /\ PassTo(w, "write")
  /\ current' = [current EXCEPT ![w] = NoTracking]
  /\ windowMarks' =
       IF kind[w] = "incremental" /\ Missing(current[w]) /\ ~Reaches(current[w], began[w])
         THEN windowMarks \union Marks("gap", {current[w]}) ELSE windowMarks
  /\ UNCHANGED <<world, snapshot, events, checkpoint, full, kind, began, anchor, unlisted,
                 batch, listedAs>>

Rest(w) ==
  /\ PassTo(w, "idle")
  /\ kind' = [kind EXCEPT ![w] = "targeted"]
  /\ began' = [began EXCEPT ![w] = 0]
  /\ anchor' = [anchor EXCEPT ![w] = 0]
  /\ unlisted' = [unlisted EXCEPT ![w] = {}]
  /\ batch' = [batch EXCEPT ![w] = {}]
  /\ listedAs' = [listedAs EXCEPT ![w] = Unseen]
  /\ current' = [current EXCEPT ![w] = NoTracking]
  /\ UNCHANGED <<world, snapshot, events, full, windowMarks>>

\* Slip: the checkpoint is the time at which the run ends.
FinishLate(w) ==
  /\ pass[w] = "write" /\ batch[w] = {}
  /\ checkpoint' = IF kind[w] = "incremental" THEN clock ELSE checkpoint
  /\ Rest(w)

FinishRun(w) ==
  /\ pass[w] = "write" /\ batch[w] = {}
  /\ checkpoint' = IF kind[w] = "incremental" THEN began[w] ELSE checkpoint
  /\ Rest(w)

\* The run throws, or its process dies, or its last UPDATE fails.
AbortRun(w) ==
  /\ pass[w] # "idle"
  /\ Rest(w)
  /\ UNCHANGED checkpoint

HistoryNext ==
  \/ Tick
  \/ \E p \in Trackings : Move(p) \/ ReadPage(p)
  \/ WriteParcels \/ WriteHistories \/ SaveCursor
  \/ CompleteParcels \/ CompleteHistories \/ ResumeFull
  \/ \E w \in Workers :
       \/ \E p \in Trackings : Aim(w, p) \/ ListPage(w, p) \/ WriteSnapshot(w, p)
       \/ BeginRun(w) \/ ReadCheckpoint(w) \/ CutBatch(w)
       \/ WriteEvents(w) \/ MissHistory(w) \/ FinishRun(w) \/ AbortRun(w)

HistorySpec == HistoryInit /\ [][HistoryNext]_historyVars

-----------------------------------------------------------------------------
(* Properties.                                                             *)

\* The parcel is as it was when it was marked.
Marked(p) == \E k \in WindowMark : <<k, p, changed[p]>> \in windowMarks

\* Once there is a checkpoint, a parcel whose snapshot or whose events are not
\* the courier's is in the window of the next run, whatever syncs overlapped,
\* crashed, ended early or overwrote each other; unless it has not changed since
\* it met what WindowMark lists (yalidine-history-incremental-sync.ts:580,
\* yalidine-history-full-sync.ts:412).
WindowCovers ==
  checkpoint # 0 => \A p \in Trackings : Lagging(p) => Reaches(p, checkpoint) \/ Marked(p)

-----------------------------------------------------------------------------
(* The inductive invariant the proofs rest on.                             *)

\* Nothing is known of a later time than it is; and a revision that was read and
\* has changed since has changed after the reading began.
ClockInv ==
  /\ checkpoint <= clock
  /\ checkpoint # 0 => saved["parcels"] = {}
  /\ \A p \in Trackings :
       changed[p] <= clock /\ snapshot[p] <= changed[p] /\ events[p] <= changed[p]
  /\ \A w \in Workers :
       /\ anchor[w] <= clock
       /\ pass[w] # "idle" => began[w] \in Start..clock
       /\ pass[w] = "history" <=> current[w] \in Trackings
       /\ pass[w] # "list" => unlisted[w] = {}
       /\ pass[w] \in {"idle", "start"} => batch[w] = {}
       /\ pass[w] \notin {"idle", "start"} /\ kind[w] = "incremental" => checkpoint # 0
       /\ \A p \in batch[w] :
            /\ listedAs[w][p] <= changed[p]
            /\ listedAs[w][p] # changed[p] => changed[p] >= began[w]

\* The full sync will still write the snapshot.
Ahead(p) ==
  /\ p \in (IF stage = "parcels" THEN left ELSE saved["parcels"])
  /\ ~(stage = "parcels" /\ p = page /\ pageDone)

\* The pages the full sync has read, and what it leaves behind before there is a
\* checkpoint.
PageInv ==
  /\ stage = "done" => left = {}
  /\ stage # "done" => left \subseteq saved[stage]
  /\ stage = "parcels" => checkpoint = 0
  /\ page # NoTracking =>
       /\ page \in left /\ stage # "done" /\ pageSaw <= changed[page]
       /\ pageSaw # changed[page] => changed[page] >= Start
       /\ pageDone /\ stage = "histories" => events[page] >= pageSaw
  /\ checkpoint = 0 => \A p \in Trackings :
       /\ Behind(p) /\ ~Ahead(p) => changed[p] >= Start
       /\ Missing(p) => changed[p] >= Start \/ Marked(p)

\* A parcel that a run has not listed, or has written, is in the window that the
\* run will leave behind.
RunInv ==
  \A w \in Workers, p \in Trackings :
    kind[w] = "incremental" /\ pass[w] \notin {"idle", "start"} =>
      /\ pass[w] = "list" /\ Lagging(p) => Reaches(p, anchor[w]) \/ Marked(p)
      /\ p \notin unlisted[w] \union batch[w] /\ Behind(p) => Reaches(p, began[w]) \/ Marked(p)
      /\ p \notin unlisted[w] \union batch[w] \union {current[w]} /\ Missing(p) =>
           Reaches(p, began[w]) \/ Marked(p)

HistoryInv == HistoryTypeOK /\ ClockInv /\ PageInv /\ RunInv /\ WindowCovers
=============================================================================
