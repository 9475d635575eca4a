----------------------------- MODULE TrialSlots -----------------------------
(***************************************************************************)
(* The early-adopter trials: payment_settings counts how many were given   *)
(* (used_early_adopter_trials), and the first merchants get one, as many   *)
(* as early_adopter_trial_limit says; an administrator may change it.      *)
(*                                                                         *)
(* grantEarlyAdopterTrialIfEligible runs at every login and at every       *)
(* onboarding.  It takes a slot with a compare-and-set of the counter, in  *)
(* three rounds at most, then makes the merchant active with an UPDATE     *)
(* guarded by the status; if that touches no row it gives the slot back,   *)
(* with a read and an UNGUARDED write of the counter.  An administrator's  *)
(* grantMerchantTrial counts with such a write too.  A SELECT of the       *)
(* settings that fails is answered with defaults: trials are enabled, none *)
(* is used and five may be.                                                *)
(***************************************************************************)
EXTENDS Integers, FiniteSets

CONSTANTS
  Merchants,
  Nobody,        \* stands for no merchant
  Grants,        \* calls under way at one time
  DefaultLimit,  \* the limit of DEFAULT_PAYMENT_SETTINGS, 5
  MaxLimit,      \* bound: the greatest limit that an administrator sets
  MaxManual,     \* bound: trials given by an administrator
  MaxSlotFaults  \* bound: reads and answers lost, calls that die

ASSUME SlotBounds ==
  /\ IsFiniteSet(Grants) /\ Nobody \notin Merchants
  /\ DefaultLimit \in Nat \ {0} /\ MaxLimit \in Nat
  /\ MaxManual \in Nat /\ MaxSlotFaults \in Nat

\* The rounds of a compare-and-set.
Rounds == 3

VARIABLES
  counter,     \* used_early_adopter_trials
  limit,       \* early_adopter_trial_limit, 0 also when trials are not enabled
  standing,    \* standing[m]: the merchant is pending, on a trial, or neither
  at,          \* at[g]: what the call g is about to do
  who,         \* who[g]: the merchant it is for
  round,       \* round[g]: the rounds it has begun
  seen,        \* seen[g]: the counter as it read it
  slotFaults,
  \* history
  early,       \* trials that the program gave
  manual,      \* trials that an administrator gave and that were counted
  highest,     \* the highest limit so far
  base,        \* the slots that were used or held at the last mark that Forgets
  slotMarks

slotVars == <<counter, limit, standing, at, who, round, seen, slotFaults, early,
              manual, highest, base, slotMarks>>

\* swap: has read the counter and is to compare and set it.  grant: holds a slot
\* and is to make the merchant active.  release and giveBack: found the merchant
\* changed, and is to read the counter and to write it.  tally and count: an
\* administrator's trial is given and is to be counted.
Holding == {"grant", "release", "giveBack"}
At == {"idle", "look", "swap", "tally", "count"} \union Holding

\* stale: the counter was written from a value that it no longer had.
\* reset: an administrator set it to zero.
\* unseen: a trial was given and the answer did not arrive.
\* leaked: a call died with a slot, or its compare-and-set was not answered.
\* guessed: a call compared with the defaults instead of the settings.
SlotMark == {"stale", "reset", "unseen", "leaked", "guessed"}

\* After these the counter may say that more slots are free than are.
Forgets == {"stale", "reset", "unseen"}

SlotTypeOK ==
  /\ counter \in Nat /\ limit \in 0..MaxLimit
  /\ standing \in [Merchants -> {"pending", "trial", "other"}]
  /\ at \in [Grants -> At]
  /\ who \in [Grants -> Merchants \union {Nobody}]
  /\ round \in [Grants -> 0..Rounds]
  /\ seen \in [Grants -> Nat]
  /\ slotFaults \in 0..MaxSlotFaults
  /\ early \in Nat /\ manual \in Nat
  /\ highest \in 0..MaxLimit /\ base \in Nat
  /\ slotMarks \subseteq SlotMark

SlotInit ==
  /\ counter = 0 /\ limit \in 0..MaxLimit
  /\ standing = [m \in Merchants |-> "pending"]
  /\ at = [g \in Grants |-> "idle"]
  /\ who = [g \in Grants |-> Nobody]
  /\ round = [g \in Grants |-> 0]
  /\ seen = [g \in Grants |-> 0]
  /\ slotFaults = 0
  /\ early = 0 /\ manual = 0
  /\ highest = limit /\ base = 0
  /\ slotMarks = {}

-----------------------------------------------------------------------------
SlotGoto(g, a) == at' = [at EXCEPT ![g] = a]

Finish(g) ==
  /\ at' = [at EXCEPT ![g] = "idle"]
  /\ who' = [who EXCEPT ![g] = Nobody]
  /\ round' = [round EXCEPT ![g] = 0]
  /\ seen' = [seen EXCEPT ![g] = 0]

SlotFault == slotFaults < MaxSlotFaults /\ slotFaults' = slotFaults + 1

\* Slots that are taken and not used up.
Held == {g \in Grants : at[g] \in Holding}

Mark(S) ==
  /\ slotMarks' = slotMarks \union S
  /\ base' = IF S \intersect Forgets = {} THEN base ELSE early' + Cardinality(Held')

\* grantEarlyAdopterTrialIfEligible reads the merchant: only one that is pending
\* goes on.
AskTrial(g, m) ==
  /\ at[g] = "idle"
  /\ standing[m] = "pending"
  /\ SlotGoto(g, "look")
  /\ who' = [who EXCEPT ![g] = m]
  /\ UNCHANGED <<counter, limit, standing, round, seen, slotFaults, early, manual,
                 highest, base, slotMarks>>

\* A round begins with a SELECT of the settings; v is what it answers.
SeeCounter(g, v) ==
  /\ seen' = [seen EXCEPT ![g] = v]
  /\ round' = [round EXCEPT ![g] = @ + 1]
  /\ SlotGoto(g, "swap")
  /\ UNCHANGED who

\* The settings say that used trials were given of at most most.
Compare(g, used, most) ==
  \/ used < most /\ SeeCounter(g, used)
  \/ used >= most /\ Finish(g)

\* Slip: the limit is compared with one less.
LookBelow(g) ==
  /\ at[g] = "look"
  /\ \/ Compare(g, counter, limit + 1) /\ Mark({}) /\ UNCHANGED slotFaults
     \/ Compare(g, 0, DefaultLimit) /\ Mark({"guessed"}) /\ SlotFault
  /\ UNCHANGED <<counter, limit, standing, early, manual, highest>>

Look(g) ==
  /\ at[g] = "look"
  /\ \/ Compare(g, counter, limit) /\ Mark({}) /\ UNCHANGED slotFaults
     \/ Compare(g, 0, DefaultLimit) /\ Mark({"guessed"}) /\ SlotFault
  /\ UNCHANGED <<counter, limit, standing, early, manual, highest>>

NextRound(g) ==
  IF round[g] < Rounds
    THEN SlotGoto(g, "look") /\ UNCHANGED <<who, round, seen>>
    ELSE Finish(g)

\* The compare-and-set.  An error, and an answer that is lost, look like a
\* counter that has changed.
Swap(g) ==
  /\ at[g] = "swap"
  /\ \/ /\ counter = seen[g]
        /\ counter' = seen[g] + 1 /\ SlotGoto(g, "grant")
        /\ UNCHANGED <<who, round, seen, slotFaults, base, slotMarks>>
     \/ /\ counter # seen[g]
        /\ NextRound(g)
        /\ UNCHANGED <<counter, slotFaults, base, slotMarks>>
     \/ /\ counter = seen[g] /\ SlotFault
        /\ counter' = seen[g] + 1 /\ NextRound(g) /\ Mark({"leaked"})
  /\ UNCHANGED <<limit, standing, early, manual, highest>>

\* The merchant is made active if still pending; otherwise, or without an
\* answer, the slot is to be given back.
Grant(g) ==
  /\ at[g] = "grant"
  /\ \/ /\ standing[who[g]] = "pending"
        /\ standing' = [standing EXCEPT ![who[g]] = "trial"]
        /\ early' = early + 1
        /\ \/ Finish(g) /\ UNCHANGED <<slotFaults, base, slotMarks>>
           \/ /\ SlotFault /\ SlotGoto(g, "release") /\ Mark({"unseen"})
              /\ UNCHANGED <<who, round, seen>>
     \/ /\ standing[who[g]] # "pending"
        /\ SlotGoto(g, "release")
        /\ UNCHANGED <<who, round, seen, standing, early, slotFaults, base, slotMarks>>
  /\ UNCHANGED <<counter, limit, manual, highest>>

\* The unguarded writes are prepared: the settings are read.
ReadCounter(g) ==
  /\ \/ at[g] = "release" /\ SlotGoto(g, "giveBack")
     \/ at[g] = "tally" /\ SlotGoto(g, "count")
  /\ \/ seen' = [seen EXCEPT ![g] = counter] /\ UNCHANGED slotFaults
     \/ seen' = [seen EXCEPT ![g] = 0] /\ SlotFault
  /\ UNCHANGED <<counter, limit, standing, who, round, early, manual, highest, base,
                 slotMarks>>

Stale(g) == IF counter = seen[g] THEN {} ELSE {"stale"}

\* Slip: a slot is not given back.
KeepSlot(g) ==
  /\ at[g] = "giveBack"
  /\ Finish(g)
  /\ UNCHANGED <<counter, limit, standing, slotFaults, early, manual, highest>>
  /\ Mark(Stale(g))

GiveBack(g) ==
  /\ at[g] = "giveBack"
  /\ counter' = IF seen[g] = 0 THEN 0 ELSE seen[g] - 1
  /\ Finish(g)
  /\ UNCHANGED <<limit, standing, slotFaults, early, manual, highest>>
  /\ Mark(Stale(g))

\* grantMerchantTrial: the merchant becomes active whatever its status was, and
\* the trial is counted afterwards.
GrantManually(g, m) ==
  /\ at[g] = "idle"
  /\ manual + Cardinality({h \in Grants : at[h] \in {"tally", "count"}}) < MaxManual
  /\ standing' = [standing EXCEPT ![m] = "trial"]
  /\ SlotGoto(g, "tally")
  /\ UNCHANGED <<counter, limit, who, round, seen, slotFaults, early, manual, highest,
                 base, slotMarks>>

Count(g) ==
  /\ at[g] = "count"
  /\ counter' = seen[g] + 1
  /\ manual' = manual + 1
  /\ Finish(g)
  /\ UNCHANGED <<limit, standing, slotFaults, early, highest>>
  /\ Mark(Stale(g))

\* resetEarlyAdopterTrialSlots.
ResetSlots ==
  /\ counter' = 0
  /\ UNCHANGED <<limit, standing, at, who, round, seen, slotFaults, early, manual,
                 highest>>
  /\ Mark({"reset"})

\* updatePaymentSettings: another limit, 0 being one; the counter stays.
SetLimit(n) ==
  /\ limit' = n
  /\ highest' = IF n > highest THEN n ELSE highest
  /\ UNCHANGED <<counter, standing, at, who, round, seen, slotFaults, early, manual,
                 base, slotMarks>>

\* The merchant becomes active otherwise, or is suspended: Subscription.
MoveOn(m) ==
  /\ standing[m] # "other"
  /\ standing' = [standing EXCEPT ![m] = "other"]
  /\ UNCHANGED <<counter, limit, at, who, round, seen, slotFaults, early, manual,
                 highest, base, slotMarks>>

\* A call dies; the next login begins anew.
Die(g) ==
  /\ at[g] # "idle"
  /\ SlotFault
  /\ Finish(g)
  /\ UNCHANGED <<counter, limit, standing, early, manual, highest>>
  /\ Mark(IF at[g] \in Holding THEN {"leaked"} ELSE {})

SlotNext ==
  \/ \E g \in Grants :
       \/ \E m \in Merchants : AskTrial(g, m) \/ GrantManually(g, m)
       \/ Look(g) \/ Swap(g) \/ Grant(g) \/ ReadCounter(g) \/ GiveBack(g) \/ Count(g)
       \/ Die(g)
  \/ \E m \in Merchants : MoveOn(m)
  \/ ResetSlots \/ \E n \in 0..MaxLimit : SetLimit(n)

SlotSpec == SlotInit /\ [][SlotNext]_slotVars

-----------------------------------------------------------------------------
(* Properties.                                                             *)

\* The counter never says that more slots are free than are, unless it was
\* reset, written from an outdated read, or a trial was given unseen
\* (settings.ts:490,530).
SlotsCovered ==
  slotMarks \intersect Forgets = {} =>
    early + manual + Cardinality(Held) <= counter

\* A slot that is taken is used or given back: the counter never says that fewer
\* are free than are, unless a call died with a slot or its answer was lost, or
\* the counter was written from an outdated read.
SlotsReturned ==
  slotMarks \intersect {"stale", "leaked"} = {} =>
    counter <= early + manual + Cardinality(Held)

\* The most that a reservation may have compared with: the highest limit so far,
\* or one slot by the defaults, which find the counter at 0 or not at all.
Most == IF highest = 0 /\ "guessed" \in slotMarks THEN 1 ELSE highest

\* However many logins race for the last slot, whatever administrators add or set
\* and whichever SELECT fails, the program takes no more slots than the limit has
\* ever been, and as many again at most after each reset, outdated write or
\* trial given unseen (settings.ts:486-505, 530-536).  A limit of 0 and a failed
\* SELECT make it one.
LimitHolds == early + Cardinality(Held) <= base + Most

\* Both directions of the count.
SlotsExact == SlotsCovered /\ SlotsReturned

-----------------------------------------------------------------------------
(* The inductive invariant the proofs rest on.                             *)

\* A call that is to take a slot has seen a free one; one that is to look has a
\* round left.
SeenInv ==
  /\ limit <= highest
  /\ \A g \in Grants :
       /\ at[g] = "swap" => seen[g] < Most
       /\ at[g] = "look" => round[g] < Rounds
       /\ at[g] = "idle" => round[g] = 0

\* Slots used or held since the counter last forgot some are in the counter.
BaseInv == early + Cardinality(Held) <= base + counter

SlotInv ==
  SlotTypeOK /\ SeenInv /\ BaseInv /\ LimitHolds /\ SlotsCovered /\ SlotsReturned
=============================================================================
