----------------------------- MODULE WebhookIntake -----------------------------
(***************************************************************************)
(* Yalidine's webhooks: a change of a parcel at the courier is announced,  *)
(* any number of times; the handler records the event in webhook_event_log *)
(* under a unique key and hands a targeted sync of the parcel to the job   *)
(* queue, unless one is pending or processing; the job fetches the         *)
(* parcel's history and stores it.                                         *)
(*                                                                         *)
(* The queue is used through its promise (AtLeastOnceQueue): a job that    *)
(* throws or whose process dies is put back, until it is given up; so is   *)
(* one that takes too long, which goes on and writes its row when it ends, *)
(* whoever has the row by then.                                            *)
(***************************************************************************)
EXTENDS Naturals

CONSTANTS
  Parcels,
  NoParcel,       \* stands for no parcel
  Handlers,       \* webhook requests under way at one time
  Syncs,          \* targeted syncs under way at one time
  MaxChanges,     \* bound: changes of one parcel
  MaxHookFaults   \* bound: calls that fail, requests and jobs that die, syncs that
                  \* find nothing to read

ASSUME HookBounds ==
  /\ NoParcel \notin Parcels
  /\ MaxChanges \in Nat /\ MaxHookFaults \in Nat

VARIABLES
  version,     \* version[p]: changes of the parcel at the courier so far
  stamped,     \* whether the courier's events carry the time of the change
  recorded,    \* webhook_event_log: the event ids
  hook,        \* hook[h]: what the request h is about to do
  about,       \* about[h]: the parcel
  news,        \* news[h]: the change it announces
  pending,     \* pending[p]: targeted syncs of the parcel that wait
  run,         \* run[t]: what the targeted sync t is about to do
  target,      \* target[t]: its parcel
  got,         \* got[t]: the history as it was answered
  lapsed,      \* the syncs under way whose row is not processing for them
  fetched,     \* fetched[p]: the events of the parcel that are stored
  hookFaults,
  answered,    \* history: <<p, v>> if a request about change v was answered 200
  hookMarks    \* history: <<mark, p, v>>, see HookMark

request == <<hook, about, news>>
job == <<run, target, got, lapsed>>
hookVars == <<version, stamped, recorded, request, pending, job, fetched,
              hookFaults, answered, hookMarks>>

\* How the change v of the parcel p, and those before it, may never be fetched.
\* busy: the only syncs that the gate of v's request counted were processing and had
\* been answered before v.  cut: v's request died after it had recorded the event.
\* unqueued: the INSERT of the sync that v's request asked for failed.  merged: v's
\* event has no time and was taken for an earlier one.  When v was the last change:
\* unread, a sync completed without anything to read; buried, the queue gave a sync
\* up; usurped, a sync that had lapsed completed the row that waited.
HookMark == {"busy", "cut", "unqueued", "merged", "unread", "buried", "usurped"}

HookTypeOK ==
  /\ version \in [Parcels -> 0..MaxChanges]
  /\ stamped \in BOOLEAN
  /\ recorded \subseteq Parcels \X (0..MaxChanges)
  /\ hook \in [Handlers -> {"idle", "gate", "enqueue", "settle"}]
  /\ about \in [Handlers -> Parcels \union {NoParcel}]
  /\ news \in [Handlers -> 0..MaxChanges]
  /\ pending \in [Parcels -> Nat]
  /\ run \in [Syncs -> {"idle", "fetch", "store", "complete"}]
  /\ target \in [Syncs -> Parcels \union {NoParcel}]
  /\ got \in [Syncs -> 0..MaxChanges]
  /\ lapsed \subseteq Syncs
  /\ fetched \in [Parcels -> 0..MaxChanges]
  /\ hookFaults \in 0..MaxHookFaults
  /\ answered \subseteq Parcels \X (1..MaxChanges)
  /\ hookMarks \subseteq HookMark \X Parcels \X (0..MaxChanges)

HookInit ==
  /\ version = [p \in Parcels |-> 0]
  /\ stamped \in BOOLEAN
  /\ recorded = {}
  /\ hook = [h \in Handlers |-> "idle"]
  /\ about = [h \in Handlers |-> NoParcel]
  /\ news = [h \in Handlers |-> 0]
  /\ pending = [p \in Parcels |-> 0]
  /\ run = [t \in Syncs |-> "idle"]
  /\ target = [t \in Syncs |-> NoParcel]
  /\ got = [t \in Syncs |-> 0]
  /\ lapsed = {}
  /\ fetched = [p \in Parcels |-> 0]
  /\ hookFaults = 0
  /\ answered = {}
  /\ hookMarks = {}

HookFault == hookFaults < MaxHookFaults /\ hookFaults' = hookFaults + 1

Mark(k, p, v) == hookMarks' = hookMarks \union {<<k, p, v>>}

\* The parcel changes at the courier.
Change(p) ==
  /\ version[p] < MaxChanges
  /\ version' = [version EXCEPT ![p] = @ + 1]
  /\ UNCHANGED <<stamped, recorded, request, pending, job, fetched, hookFaults,
                 answered, hookMarks>>

-----------------------------------------------------------------------------
(* handleYalidineWebhook.                                                  *)

\* computeWebhookEventId: the time of the change, or "unknown".
EventId(p, v) == <<p, IF stamped THEN v ELSE 0>>

Respond(h, p, v) ==
  /\ hook' = [hook EXCEPT ![h] = "idle"]
  /\ about' = [about EXCEPT ![h] = NoParcel]
  /\ news' = [news EXCEPT ![h] = 0]
  /\ answered' = answered \union {<<p, v>>}

\* A delivery, the first or a later one: the INSERT tells them apart.
Receive(h, p, v) ==
  /\ hook[h] = "idle"
  /\ v <= version[p]
  /\ EventId(p, v) \notin recorded
  /\ recorded' = recorded \union {EventId(p, v)}
  /\ hook' = [hook EXCEPT ![h] = "gate"]
  /\ about' = [about EXCEPT ![h] = p]
  /\ news' = [news EXCEPT ![h] = v]
  /\ UNCHANGED <<version, stamped, pending, job, fetched, hookFaults, answered, hookMarks>>

AnswerDuplicate(h, p, v) ==
  /\ hook[h] = "idle"
  /\ v <= version[p]
  /\ EventId(p, v) \in recorded
  /\ answered' = answered \union {<<p, v>>}
  /\ IF stamped THEN UNCHANGED hookMarks ELSE Mark("merged", p, v)
  /\ UNCHANGED <<version, stamped, recorded, request, pending, job, fetched, hookFaults>>

\* The rows of the parcel that are processing, each by the sync that has it.
Processing(p) == {t \in Syncs \ lapsed : run[t] # "idle" /\ target[t] = p}

\* Slip: the gate looks for a job of any parcel.
GateAnyParcel(h) ==
  /\ hook[h] = "gate"
  /\ \/ /\ \A p \in Parcels : pending[p] = 0 /\ Processing(p) = {}
        /\ hook' = [hook EXCEPT ![h] = "enqueue"]
        /\ UNCHANGED hookMarks
     \/ /\ \E p \in Parcels : pending[p] > 0 \/ Processing(p) # {}
        /\ hook' = [hook EXCEPT ![h] = "settle"]
        /\ hookMarks' = hookMarks
  /\ UNCHANGED <<version, stamped, recorded, about, news, pending, job, fetched,
                 hookFaults, answered>>

\* enqueueTargetedSyncIfNeeded: the gate counts pending and processing rows, and
\* takes an error for none.
Gate(h) ==
  /\ hook[h] = "gate"
  /\ LET p == about[h] IN
     \/ /\ pending[p] = 0 /\ Processing(p) = {}
        /\ hook' = [hook EXCEPT ![h] = "enqueue"]
        /\ UNCHANGED <<hookFaults, hookMarks>>
     \/ /\ pending[p] > 0 \/ Processing(p) # {}
        /\ hook' = [hook EXCEPT ![h] = "settle"]
        /\ IF pending[p] = 0 /\ \A t \in Processing(p) : run[t] # "fetch" /\ got[t] < news[h]
             THEN Mark("busy", p, news[h]) ELSE UNCHANGED hookMarks
        /\ UNCHANGED hookFaults
     \/ /\ pending[p] > 0 \/ Processing(p) # {}
        /\ HookFault
        /\ hook' = [hook EXCEPT ![h] = "enqueue"]
        /\ UNCHANGED hookMarks
  /\ UNCHANGED <<version, stamped, recorded, about, news, pending, job, fetched, answered>>

\* enqueueBackgroundJob answers null when its INSERT fails, which the gate does not
\* look at.
Enqueue(h) ==
  /\ hook[h] = "enqueue"
  /\ hook' = [hook EXCEPT ![h] = "settle"]
  /\ \/ /\ pending' = [pending EXCEPT ![about[h]] = @ + 1]
        /\ UNCHANGED <<hookFaults, hookMarks>>
     \/ /\ HookFault
        /\ Mark("unqueued", about[h], news[h])
        /\ UNCHANGED pending
  /\ UNCHANGED <<version, stamped, recorded, about, news, job, fetched, answered>>

\* The record is marked processed, which nothing reads, and 200 is answered.
Settle(h) ==
  /\ hook[h] = "settle"
  /\ Respond(h, about[h], news[h])
  /\ UNCHANGED <<version, stamped, recorded, pending, job, fetched, hookFaults, hookMarks>>

\* A call fails or the request dies: no 200, and the record stays.
DieHandler(h) ==
  /\ hook[h] # "idle"
  /\ HookFault
  /\ hook' = [hook EXCEPT ![h] = "idle"]
  /\ about' = [about EXCEPT ![h] = NoParcel]
  /\ news' = [news EXCEPT ![h] = 0]
  /\ IF hook[h] = "settle" THEN UNCHANGED hookMarks ELSE Mark("cut", about[h], news[h])
  /\ UNCHANGED <<version, stamped, recorded, pending, job, fetched, answered>>

-----------------------------------------------------------------------------
(* The queue and runYalidineTargetedSync.                                  *)

TakeJob(t, p) ==
  /\ run[t] = "idle" /\ pending[p] > 0
  /\ pending' = [pending EXCEPT ![p] = @ - 1]
  /\ run' = [run EXCEPT ![t] = "fetch"]
  /\ target' = [target EXCEPT ![t] = p]
  /\ UNCHANGED <<version, stamped, recorded, request, got, lapsed, fetched, hookFaults,
                 answered, hookMarks>>

\* The courier answers the history of the parcel; or the job completes with nothing
\* fetched, for the merchant has no account of the courier that can be synced, or one
\* without credentials, or the courier answers 404 or no event.
FetchHistory(t) ==
  /\ run[t] = "fetch"
  /\ \/ /\ got' = [got EXCEPT ![t] = version[target[t]]]
        /\ run' = [run EXCEPT ![t] = "store"]
        /\ UNCHANGED <<hookFaults, hookMarks>>
     \/ /\ HookFault
        /\ run' = [run EXCEPT ![t] = "complete"]
        /\ Mark("unread", target[t], version[target[t]])
        /\ UNCHANGED got
  /\ UNCHANGED <<version, stamped, recorded, request, pending, target, lapsed, fetched, answered>>

\* upsertShipmentEvents adds what is not stored yet.
StoreHistory(t) ==
  /\ run[t] = "store"
  /\ fetched' = [fetched EXCEPT ![target[t]] = IF got[t] > @ THEN got[t] ELSE @]
  /\ run' = [run EXCEPT ![t] = "complete"]
  /\ UNCHANGED <<version, stamped, recorded, request, pending, target, got, lapsed,
                 hookFaults, answered, hookMarks>>

Release(t) ==
  /\ run' = [run EXCEPT ![t] = "idle"]
  /\ target' = [target EXCEPT ![t] = NoParcel]
  /\ got' = [got EXCEPT ![t] = 0]

\* The recovery of stuck jobs puts the row back or gives it up, and the sync goes
\* on.
Recover(t) ==
  /\ run[t] # "idle" /\ t \notin lapsed
  /\ HookFault
  /\ lapsed' = lapsed \union {t}
  /\ \/ pending' = [pending EXCEPT ![target[t]] = @ + 1] /\ UNCHANGED hookMarks
     \/ Mark("buried", target[t], version[target[t]]) /\ UNCHANGED pending
  /\ UNCHANGED <<version, stamped, recorded, request, run, target, got, fetched, answered>>

\* The sync ends and writes its row by the id alone, to wait once more (1) or not
\* at all (0).  The row of one that has lapsed waits, or another sync has it and
\* lapses, or it is settled; which of the parcel's rows it is is not kept.
End(t, again) ==
  /\ Release(t)
  /\ \/ /\ t \notin lapsed
        /\ pending' = [pending EXCEPT ![target[t]] = @ + again]
        /\ UNCHANGED lapsed
     \/ /\ t \in lapsed /\ pending[target[t]] > 0
        /\ pending' = [pending EXCEPT ![target[t]] = @ - 1 + again]
        /\ lapsed' = lapsed \ {t}
     \/ /\ t \in lapsed
        /\ pending' = [pending EXCEPT ![target[t]] = @ + again]
        /\ \/ lapsed' = lapsed \ {t}
           \/ \E u \in Processing(target[t]) : lapsed' = (lapsed \ {t}) \union {u}

\* completeBackgroundJob
CompleteJob(t) ==
  /\ run[t] = "complete"
  /\ End(t, 0)
  /\ IF pending'[target[t]] < pending[target[t]]
       THEN Mark("usurped", target[t], version[target[t]]) ELSE UNCHANGED hookMarks
  /\ UNCHANGED <<version, stamped, recorded, request, fetched, hookFaults, answered>>

\* failBackgroundJob, or the recovery of one whose process died.
PutBack(t) ==
  /\ run[t] # "idle"
  /\ HookFault
  /\ End(t, 1)
  /\ UNCHANGED <<version, stamped, recorded, request, fetched, answered, hookMarks>>

GiveUp(t) ==
  /\ run[t] # "idle"
  /\ HookFault
  /\ End(t, 0)
  /\ Mark("buried", target[t], version[target[t]])
  /\ UNCHANGED <<version, stamped, recorded, request, fetched, answered>>

HookNext ==
  \/ \E p \in Parcels : Change(p)
  \/ \E h \in Handlers :
       \/ \E p \in Parcels, v \in 1..MaxChanges : Receive(h, p, v) \/ AnswerDuplicate(h, p, v)
       \/ Gate(h) \/ Enqueue(h) \/ Settle(h) \/ DieHandler(h)
  \/ \E t \in Syncs :
       \/ \E p \in Parcels : TakeJob(t, p)
       \/ FetchHistory(t) \/ StoreHistory(t) \/ CompleteJob(t)
       \/ Recover(t) \/ PutBack(t) \/ GiveUp(t)

HookSpec == HookInit /\ [][HookNext]_hookVars

-----------------------------------------------------------------------------
(* Properties.                                                             *)

\* Change v of the parcel is stored, or a sync will read the courier after it.
Covered(p, v) ==
  \/ fetched[p] >= v
  \/ pending[p] > 0
  \/ \E t \in Syncs : target[t] = p /\ (run[t] = "fetch" \/ (run[t] = "store" /\ got[t] >= v))

\* The first delivery is still under way.
UnderWay(p, v) ==
  \E h \in Handlers : about[h] = p /\ news[h] >= v /\ hook[h] \in {"gate", "enqueue"}

Excepted(p, v) == \E k \in HookMark, u \in v..MaxChanges : <<k, p, u>> \in hookMarks

\* A change whose announcement was answered with 200, after which the courier
\* does not repeat it, is stored or will be fetched, although events are
\* deduplicated twice; unless it, or a later one, met what HookMark lists.  What
\* befell a change excuses none of those that follow (webhook-handler.ts:118,278).
NotifiedIsFetched ==
  \A p \in Parcels, v \in 1..MaxChanges :
    <<p, v>> \in answered => Covered(p, v) \/ UnderWay(p, v) \/ Excepted(p, v)

-----------------------------------------------------------------------------
(* The inductive invariant the proofs rest on.                             *)

\* An event that is recorded is taken care of, as one that was answered is.
RecordedInv ==
  \A p \in Parcels, v \in 1..MaxChanges :
    stamped /\ <<p, v>> \in recorded => Covered(p, v) \/ UnderWay(p, v) \/ Excepted(p, v)

\* Nobody knows of a change that has not happened; requests and syncs that are
\* under way have a parcel; a sync that is done has stored its answer.
KnownInv ==
  /\ \A h \in Handlers : hook[h] # "idle" =>
       about[h] \in Parcels /\ news[h] \in 1..version[about[h]]
  /\ \A h \in Handlers : hook[h] = "settle" =>
       Covered(about[h], news[h]) \/ Excepted(about[h], news[h])
  /\ \A t \in Syncs : run[t] # "idle" => target[t] \in Parcels
  /\ \A t \in Syncs : run[t] \in {"idle", "fetch"} => got[t] = 0
  /\ \A t \in Syncs : run[t] = "complete" => got[t] <= fetched[target[t]]
  /\ \A t \in lapsed : run[t] # "idle"
  /\ \A p \in Parcels, v \in 1..MaxChanges :
       <<p, v>> \in answered \union recorded => v <= version[p]

HookInv == HookTypeOK /\ KnownInv /\ RecordedInv /\ NotifiedIsFetched
=============================================================================
