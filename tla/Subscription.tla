---------------------------- MODULE Subscription ----------------------------
(***************************************************************************)
(* One merchant's access: the row in merchants (subscription_status, the   *)
(* free trial) and the row in merchant_subscriptions (the activation code, *)
(* its status, the end of the paid time).                                  *)
(*                                                                         *)
(* A call is a request: an administrator's action, the redemption of an    *)
(* activation code by the plugin, or the gate that every API request       *)
(* passes.  A call reads, then writes the two rows one after the other, in *)
(* no transaction; step[c] is what c is about to do.  Other calls may come *)
(* between, and a write may fail: administrators' actions and the gate do  *)
(* not look at the error, the redemption stops.                            *)
(*                                                                         *)
(* The code compares the two ends of access with the clock and does no     *)
(* other arithmetic that matters here, so an end is ahead or past.         *)
(***************************************************************************)
EXTENDS Naturals

CONSTANTS
  SubCalls,      \* requests under way at one time
  MaxCodes,      \* bound: activation codes issued in one behaviour
  MaxSubFaults   \* bound: writes that fail and calls that die half-way

ASSUME SubBounds == MaxCodes \in Nat /\ MaxSubFaults \in Nat

VARIABLES
  \* merchants
  access,      \* subscription_status; "barred" is "suspended" or "rejected"
  trial,       \* "off" without free_trial, else trial_expires_at by the clock
  \* merchant_subscriptions
  plan,        \* status, "absent" without a row
  expiry,      \* expires_at by the clock, "none" for null
  lastCode,    \* activation_code: the codes are 1..lastCode, 0 for none
  used,        \* used_at is not null
  aged,        \* created_at is more than ACTIVATION_CODE_TTL_DAYS ago
  \* the memory of each call
  step,
  typed,       \* typed[c]: the code that the redemption c found, 0 for none
  subFaults,
  \* history, read by no guard
  withdrawn,   \* the last word of an administrator was to withdraw access
  uses,        \* uses[k]: how often code k was redeemed
  subMarks     \* which of SubMark have come to pass

merchantRow == <<access, trial>>
planRow == <<plan, expiry, lastCode, used, aged>>
rows == <<merchantRow, planRow>>
history == <<withdrawn, uses, subMarks>>
subVars == <<rows, step, typed, subFaults, history>>

\* Slip for the mutation checks: a status forgotten in the list.
AccessShort == {"pending_payment", "active", "barred"}

Access == {"pending_payment", "active", "expired", "barred"}

Plan == {"absent", "pending", "active", "expired", "revoked"}

\* What the steps of a call may do to the merchant's access: give it, withdraw
\* it, or write down that it is over.
Giving == {"approve", "open", "revive", "extend", "reopen", "grant", "redeem", "admit"}
Withdrawing == {"suspend", "revoke", "cancel", "close"}
Ending == {"lapse", "lapsePlan", "planLapse", "lapseAccess", "endTrial"}
Writing == Giving \union Withdrawing \union Ending \union {"reject", "void"}

\* "asked": the gate has found the merchant active and is to read the plan.
\* "refuse": the redemption is to answer that the code is used already.
Step == {"idle", "asked", "refuse"} \union Writing

\* What c does after the write s.
Then(s) ==
  CASE s = "redeem"    -> "admit"
    [] s = "suspend"   -> "revoke"
    [] s = "open"      -> "revive"
    [] s = "extend"    -> "reopen"
    [] s = "cancel"    -> "close"
    [] s = "lapse"     -> "lapsePlan"
    [] s = "planLapse" -> "lapseAccess"
    [] OTHER           -> "idle"

\* crossed: a call that gives access and one that withdraws or ends it overlapped.
\* twice: two redemptions overlapped.
\* lost: a write failed, or a call died, and the rest of the call was not done.
\* endless: a payment was approved while the merchant was active or was redeeming
\* a code, or an administrator let the merchant in with no end on record.
SubMark == {"crossed", "twice", "lost", "endless"}

SubTypeOK ==
  /\ access \in Access
  /\ trial \in {"off", "ahead", "past"}
  /\ plan \in Plan
  /\ expiry \in {"none", "ahead", "past"}
  /\ lastCode \in 0..MaxCodes
  /\ used \in BOOLEAN /\ aged \in BOOLEAN
  /\ step \in [SubCalls -> Step]
  /\ typed \in [SubCalls -> 0..MaxCodes]
  /\ subFaults \in 0..MaxSubFaults
  /\ withdrawn \in BOOLEAN
  /\ uses \in [1..MaxCodes -> Nat]
  /\ subMarks \subseteq SubMark

SubInit ==
  /\ access = "pending_payment" /\ trial = "off"
  /\ plan = "absent" /\ expiry = "none" /\ lastCode = 0
  /\ used = FALSE /\ aged = FALSE
  /\ step = [c \in SubCalls |-> "idle"]
  /\ typed = [c \in SubCalls |-> 0]
  /\ subFaults = 0
  /\ withdrawn = FALSE
  /\ uses = [k \in 1..MaxCodes |-> 0]
  /\ subMarks = {}

\* A write of subscription_status, and of the trial where the code writes it.
SetAccess(a, t) == access' = a /\ trial' = t /\ UNCHANGED planRow

\* A write of merchant_subscriptions.status, which may find no row.
SetPlan(p) ==
  /\ plan' = IF plan = "absent" THEN "absent" ELSE p
  /\ UNCHANGED <<merchantRow, expiry, lastCode, used, aged>>

-----------------------------------------------------------------------------
(* Calls begin.                                                            *)

Busy(S) == \E c \in SubCalls : step[c] \in S

\* What comes to pass when a call that is to do s begins.
Overlaps(s) ==
  (IF \/ s \in Giving /\ Busy(Withdrawing \union Ending)
      \/ s \in Withdrawing \union Ending /\ Busy(Giving)
     THEN {"crossed"} ELSE {})
  \union (IF s = "redeem" /\ Busy({"redeem"}) THEN {"twice"} ELSE {})
  \union (IF \/ s = "approve" /\ Busy({"redeem", "admit"})
             \/ s = "redeem" /\ Busy({"approve"})
            THEN {"endless"} ELSE {})

Goto(c, s) ==
  /\ step' = [step EXCEPT ![c] = s]
  /\ subMarks' = subMarks \union Overlaps(s)

Begin(c, s) == step[c] = "idle" /\ Goto(c, s)

\* An administrator's action.  runMerchantAdminAction and manageSubscription do
\* the same under different names; "disable" is "suspend", as a suspended and a
\* disabled merchant are treated alike.  An approval reads nothing that it
\* writes, so that one at a time is enough.
Administer(c, s) ==
  /\ s = "approve" => lastCode < MaxCodes /\ ~Busy({"approve"})
  /\ Begin(c, s)
  /\ withdrawn' = (s \in {"suspend", "cancel"} \/ (withdrawn /\ s = "reject"))
  /\ UNCHANGED <<rows, typed, subFaults, uses>>

\* grantEarlyAdopterTrialIfEligible: one UPDATE, guarded by the status it read.
\* The slot that it takes is the matter of TrialSlots.
GrantEarly ==
  /\ access = "pending_payment" /\ trial = "off"
  /\ SetAccess("active", "ahead")
  /\ UNCHANGED <<step, typed, subFaults, history>>

\* Slip: used_at is not looked at.
RedeemAgain(c) ==
  /\ lastCode > 0
  /\ \/ plan = "pending" /\ aged /\ Begin(c, "void")
     \/ plan = "pending" /\ ~aged /\ Begin(c, "redeem")
     \/ plan = "active" /\ Begin(c, "redeem")
  /\ typed' = [typed EXCEPT ![c] = lastCode]
  /\ UNCHANGED <<rows, subFaults, withdrawn, uses>>

\* Slip: the status of the subscription is not looked at.
RedeemRevoked(c) ==
  /\ lastCode > 0
  /\ \/ used /\ Begin(c, "refuse")
     \/ ~used /\ plan = "pending" /\ aged /\ Begin(c, "void")
     \/ ~used /\ ~(plan = "pending" /\ aged) /\ Begin(c, "redeem")
  /\ typed' = [typed EXCEPT ![c] = lastCode]
  /\ UNCHANGED <<rows, subFaults, withdrawn, uses>>

\* The plugin sends the merchant's code.  One that is not in the row, or whose
\* status does not allow it, is refused, which changes nothing.
Redeem(c) ==
  /\ lastCode > 0
  /\ \/ used /\ Begin(c, "refuse")
     \/ ~used /\ plan = "pending" /\ aged /\ Begin(c, "void")
     \/ ~used /\ plan = "pending" /\ ~aged /\ Begin(c, "redeem")
     \/ ~used /\ plan = "active" /\ Begin(c, "redeem")
  /\ typed' = [typed EXCEPT ![c] = lastCode]
  /\ UNCHANGED <<rows, subFaults, withdrawn, uses>>

\* getEffectiveSubscriptionStatus reads merchants: a trial that is over is to be
\* ended, an active merchant is looked up further, any other status is answered.
Gate(c) ==
  /\ access = "active"
  /\ \/ trial = "past" /\ Begin(c, "endTrial")
     \/ trial # "past" /\ Begin(c, "asked")
  /\ UNCHANGED <<rows, typed, subFaults, withdrawn, uses>>

\* Slip: the end of the paid time is not compared with the clock.
GateReadsAnyEnd(c) ==
  /\ step[c] = "asked"
  /\ \/ expiry # "none" /\ \E s \in {"lapse", "planLapse"} : Goto(c, s)
     \/ expiry = "none" /\ Goto(c, "idle")
  /\ UNCHANGED <<rows, typed, subFaults, withdrawn, uses>>

\* It reads merchant_subscriptions: paid time that is over is to be written to
\* both rows, in an order that Promise.all leaves open.
GateReadsPlan(c) ==
  /\ step[c] = "asked"
  /\ \/ expiry = "past" /\ \E s \in {"lapse", "planLapse"} : Goto(c, s)
     \/ expiry # "past" /\ Goto(c, "idle")
  /\ UNCHANGED <<rows, typed, subFaults, withdrawn, uses>>

-----------------------------------------------------------------------------
(* Calls write.                                                            *)

Leave(c, s) ==
  /\ step' = [step EXCEPT ![c] = s]
  /\ typed' = IF s = "idle" THEN [typed EXCEPT ![c] = 0] ELSE typed

Advance(c) == Leave(c, Then(step[c])) /\ UNCHANGED subFaults

\* The writes that change nothing but the merchant's status, and the trial.
WriteAccess(c) ==
  /\ \/ step[c] \in {"suspend", "reject"}    /\ SetAccess("barred", trial)
     \/ step[c] \in {"lapse", "lapseAccess"} /\ SetAccess("expired", trial)
     \/ step[c] \in {"endTrial", "close"}    /\ SetAccess("expired", "off")
     \/ step[c] = "grant"                    /\ SetAccess("active", "ahead")
     \/ step[c] = "admit"                    /\ SetAccess("active", "off")
  /\ Advance(c)
  /\ UNCHANGED history

\* The writes that change nothing but the status of the subscription.
WritePlan(c) ==
  /\ \/ step[c] \in {"revoke", "cancel"}       /\ SetPlan("revoked")
     \/ step[c] \in {"lapsePlan", "planLapse"} /\ SetPlan("expired")
     \/ step[c] = "revive"                     /\ SetPlan("active")
  /\ Advance(c)
  /\ UNCHANGED history

\* An administrator makes the merchant active whatever the plan says.
Open(c) ==
  /\ step[c] \in {"open", "reopen"}
  /\ SetAccess("active", trial)
  /\ Advance(c)
  /\ subMarks' = IF expiry = "none" /\ trial = "off"
                   THEN subMarks \union {"endless"} ELSE subMarks
  /\ UNCHANGED <<withdrawn, uses>>

\* extend_subscription and change_plan make a row where there is none, without a
\* code; the action "extend" updates one and finds none to update.
Extend(c) ==
  /\ step[c] = "extend"
  /\ \/ plan' = "active" /\ expiry' = "ahead"
     \/ plan = "absent" /\ UNCHANGED <<plan, expiry>>
  /\ Advance(c)
  /\ UNCHANGED <<merchantRow, lastCode, used, aged, history>>

\* A payment is approved: an upsert by merchant that leaves used_at and
\* created_at of an earlier code as they are.
Approve(c) ==
  /\ step[c] = "approve"
  /\ lastCode < MaxCodes
  /\ plan' = "pending" /\ expiry' = "none" /\ lastCode' = lastCode + 1
  /\ Advance(c)
  /\ subMarks' = IF access = "active" THEN subMarks \union {"endless"} ELSE subMarks
  /\ UNCHANGED <<merchantRow, used, aged, withdrawn, uses>>

\* Slip: used_at and the end are not written.
WriteUnmarked(c) ==
  /\ step[c] = "redeem"
  /\ \/ /\ typed[c] = lastCode
        /\ plan' = "active" /\ UNCHANGED <<expiry, used>>
        /\ uses' = [uses EXCEPT ![lastCode] = @ + 1]
     \/ typed[c] # lastCode /\ UNCHANGED <<plan, expiry, used, uses>>
  /\ Advance(c)
  /\ UNCHANGED <<merchantRow, lastCode, aged, withdrawn, subMarks>>

\* The row is found by the code: if an approval has replaced it, the UPDATE
\* touches nothing and is no error.
WriteRedeemed(c) ==
  /\ step[c] = "redeem"
  /\ \/ /\ typed[c] = lastCode
        /\ plan' = "active" /\ expiry' = "ahead" /\ used' = TRUE
        /\ uses' = [uses EXCEPT ![lastCode] = @ + 1]
     \/ typed[c] # lastCode /\ UNCHANGED <<plan, expiry, used, uses>>
  /\ Advance(c)
  /\ UNCHANGED <<merchantRow, lastCode, aged, withdrawn, subMarks>>

\* A code that was not redeemed in time is voided, if it is not used by now.
Void(c) ==
  /\ step[c] = "void"
  /\ IF typed[c] = lastCode /\ ~used
       THEN plan' = "revoked" /\ used' = TRUE
       ELSE UNCHANGED <<plan, used>>
  /\ Advance(c)
  /\ UNCHANGED <<merchantRow, expiry, lastCode, aged, history>>

\* A redemption that refuses the code answers.
Refuse(c) ==
  /\ step[c] = "refuse"
  /\ Advance(c)
  /\ UNCHANGED <<rows, history>>

\* A write fails, or the process dies before it.  Administrators' actions and
\* the gate go on as if nothing had happened; the redemption stops.
LoseWrite(c) ==
  /\ step[c] \in Writing
  /\ subFaults < MaxSubFaults /\ subFaults' = subFaults + 1
  /\ \/ Leave(c, "idle")
     \/ step[c] # "redeem" /\ Leave(c, Then(step[c]))
  /\ subMarks' = subMarks \union {"lost"}
  /\ UNCHANGED <<rows, withdrawn, uses>>

-----------------------------------------------------------------------------
(* Time.                                                                   *)

TrialLapses ==
  /\ trial = "ahead" /\ trial' = "past"
  /\ UNCHANGED <<access, planRow, step, typed, subFaults, history>>

PlanLapses ==
  /\ expiry = "ahead" /\ expiry' = "past"
  /\ UNCHANGED <<merchantRow, plan, lastCode, used, aged, step, typed, subFaults, history>>

CodeAges ==
  /\ plan = "pending" /\ ~aged /\ aged' = TRUE
  /\ UNCHANGED <<merchantRow, plan, expiry, lastCode, used, step, typed, subFaults, history>>

Ask(c) ==
  \/ \E s \in {"approve", "reject", "open", "extend", "grant", "suspend", "cancel"} :
       Administer(c, s)
  \/ Redeem(c) \/ Gate(c)

Proceed(c) ==
  \/ GateReadsPlan(c) \/ WriteAccess(c) \/ WritePlan(c) \/ Open(c) \/ Extend(c)
  \/ Approve(c) \/ WriteRedeemed(c) \/ Void(c) \/ Refuse(c) \/ LoseWrite(c)

SubNext ==
  \/ \E c \in SubCalls : Ask(c) \/ Proceed(c)
  \/ GrantEarly \/ TrialLapses \/ PlanLapses \/ CodeAges

SubSpec == SubInit /\ [][SubNext]_subVars

-----------------------------------------------------------------------------
(* Properties.                                                             *)

\* Once an administrator has suspended, disabled or cancelled a merchant, no
\* code that was issued before brings the access back, redeemed or not, and no
\* late write of the gate does; unless the withdrawal raced with a call that
\* gives access, or lost a write (settings.ts:680, merchants.ts:443).
WithdrawalHolds ==
  /\ withdrawn /\ ~Busy(Withdrawing)
  /\ subMarks \intersect {"crossed", "lost"} = {}
  => access # "active"

\* A code buys one period: its second redemption, which would extend the paid
\* time, is refused whatever administrators do in between, unless two
\* redemptions overlap (activate/route.ts:69).
OneRedemption == "twice" \notin subMarks => \A k \in 1..MaxCodes : uses[k] <= 1

\* Access has an end on record, which the gate enforces: a trial, or paid time;
\* unless a renewal was approved early, which wipes the running end, or an
\* administrator let the merchant in by hand (settings.ts:390, subscription.ts:75).
AccessEnds ==
  access = "active" =>
    trial # "off" \/ expiry # "none" \/ "endless" \in subMarks

\* Paid time is served: while it runs the merchant is not marked expired, unless
\* there is a trial as well, whose end the gate takes for the end of all access
\* (subscription.ts:51), or calls that give and that end access overlap.
PaidTimeServed ==
  [][ /\ access = "active" /\ access' = "expired"
      /\ plan = "active" /\ expiry = "ahead"
      => trial # "off" \/ subMarks \intersect {"crossed", "lost"} # {} ]_subVars

\* "This activation code has already been used" (activate/route.ts:82) is said
\* of codes that were redeemed.
RefusalIsTrue == \A c \in SubCalls : step[c] = "refuse" => uses[typed[c]] > 0

-----------------------------------------------------------------------------
(* The inductive invariant the proofs rest on.                             *)

\* Calls that give access and calls that withdraw or end it exclude each other
\* until they cross.
CrossInv ==
  "crossed" \in subMarks \/ ~Busy(Giving) \/ ~Busy(Withdrawing \union Ending)

\* used_at is never cleared: before the first redemption has been written no code
\* has a use, and a second redemption has to be under way by then.
UseInv ==
  "twice" \in subMarks \/
    /\ \A b, c \in SubCalls : step[b] = "redeem" /\ step[c] = "redeem" => b = c
    /\ \A j, k \in 1..MaxCodes : uses[j] > 0 /\ uses[k] > 0 => j = k
    /\ \A k \in 1..MaxCodes : uses[k] \in {0, 1} /\ (uses[k] > 0 => used)
    /\ Busy({"redeem"}) => \A k \in 1..MaxCodes : uses[k] = 0

\* A redemption that is not disturbed by an approval finds its row again, and
\* leaves an end behind for the access it is to give.
AdmitInv ==
  "endless" \in subMarks \/
    /\ ~Busy({"approve"}) \/ ~Busy({"redeem", "admit"})
    /\ \A c \in SubCalls : step[c] = "redeem" => typed[c] = lastCode
    /\ Busy({"admit"}) => expiry # "none"

\* What a withdrawal has done so far; no code can be redeemed afterwards.
Dead == {"absent", "revoked", "expired"}

WithdrawInv ==
  subMarks \intersect {"crossed", "lost"} = {} =>
    /\ Busy(Withdrawing) => withdrawn
    /\ Busy({"revoke"}) => access \in {"barred", "expired"}
    /\ Busy({"close"}) => plan \in Dead
    /\ withdrawn /\ ~Busy(Withdrawing) =>
         /\ access \in {"barred", "expired"}
         /\ plan \in Dead
         /\ ~Busy(Giving)

\* What the gate is about to write down is still so.
GateInv ==
  "crossed" \notin subMarks =>
    /\ Busy(Ending \ {"endTrial"}) => expiry # "ahead"
    /\ Busy({"endTrial"}) => trial # "off" \/ access # "active"

SubInv ==
  /\ SubTypeOK
  /\ CrossInv /\ UseInv /\ AdmitInv /\ AccessEnds /\ WithdrawInv /\ GateInv
=============================================================================
