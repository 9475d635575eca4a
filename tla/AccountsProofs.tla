----------------------------- MODULE AccountsProofs -----------------------------
(***************************************************************************)
(* Proofs about the accounts of a merchant.  Subscription, for every set   *)
(* of calls and every value of the bounds; TrialSlots, for every finite    *)
(* set of concurrent calls, every set of merchants and every limit; and    *)
(* that a behaviour of MCAccounts is one of each of its three modules, so  *)
(* that what is proved of these holds in the instances that TLC checks.    *)
(***************************************************************************)
EXTENDS MCAccounts, OrderSyncProofs, FiniteSetTheorems

-----------------------------------------------------------------------------
(* Subscription: the steps of a call.                                      *)

\* What follows a write.
LEMMA ThenValues ==
  /\ Then("redeem") = "admit" /\ Then("suspend") = "revoke"
  /\ Then("open") = "revive" /\ Then("extend") = "reopen"
  /\ Then("cancel") = "close" /\ Then("lapse") = "lapsePlan"
  /\ Then("planLapse") = "lapseAccess"
  /\ \A s \in {"admit", "revoke", "revive", "reopen", "close", "lapsePlan", "lapseAccess",
               "approve", "reject", "grant", "endTrial", "void", "refuse"} :
        Then(s) = "idle"
BY DEF Then

\* A call that gives access goes on giving it or is done, and so do the others.
LEMMA ThenKinds ==
  /\ \A s \in Step \ {"idle", "asked"} : Then(s) \in Step
  /\ \A s \in Giving : Then(s) \in Giving \union {"idle"}
  /\ \A s \in Withdrawing : Then(s) \in Withdrawing \union {"idle"}
  /\ \A s \in Ending : Then(s) \in Ending \union {"idle"}
  /\ \A s \in {"reject", "void", "refuse"} : Then(s) = "idle"
BY ThenValues DEF Step, Writing, Giving, Withdrawing, Ending

\* The redemptions of a code are counted.
LEMMA UseCounted ==
  ASSUME SubTypeOK, uses' = [uses EXCEPT ![lastCode] = @ + 1]
  PROVE  uses' \in [1..MaxCodes -> Nat]
<1>1. uses \in [1..MaxCodes -> Nat]
  BY DEF SubTypeOK
<1>2. uses' = [k \in 1..MaxCodes |-> IF k = lastCode THEN uses[k] + 1 ELSE uses[k]]
  BY <1>1
<1>3. \A k \in 1..MaxCodes : uses[k] \in Nat /\ uses[k] + 1 \in Nat
  BY <1>1
<1> QED
  BY <1>2, <1>3

\* A call that loses a write goes on with a second write or not at all; a
\* redemption does not go on.
Second == {"revoke", "revive", "reopen", "close", "lapsePlan", "lapseAccess", "idle"}

LEMMA LoseEffect ==
  ASSUME NEW c \in SubCalls, LoseWrite(c)
  PROVE  \E s \in Second :
           /\ Leave(c, s)
           /\ s \in {"lapsePlan", "lapseAccess"} => step[c] \in {"lapse", "planLapse"}
<1>1. CASE Leave(c, "idle")
  BY <1>1 DEF Second
<1>2. CASE step[c] # "redeem" /\ Leave(c, Then(step[c]))
  <2>1. step[c] \in Writing \ {"redeem"}
    BY <1>2 DEF LoseWrite
  <2>2. /\ Then(step[c]) \in Second
        /\ Then(step[c]) \in {"lapsePlan", "lapseAccess"} => step[c] \in {"lapse", "planLapse"}
    BY <2>1, ThenValues DEF Second, Writing, Giving, Withdrawing, Ending
  <2> QED
    BY <1>2, <2>2
<1> QED
  BY <1>1, <1>2 DEF LoseWrite

\* What comes to pass is a mark, and none is forgotten.
LEMMA OverlapMarks ==
  ASSUME NEW s
  PROVE  Overlaps(s) \subseteq SubMark
BY DEF Overlaps, SubMark

LEMMA GotoType ==
  ASSUME SubTypeOK, NEW c \in SubCalls, NEW s \in Step, Goto(c, s)
  PROVE  /\ step' \in [SubCalls -> Step]
         /\ subMarks' \subseteq SubMark /\ subMarks \subseteq subMarks'
BY OverlapMarks DEF SubTypeOK, Goto

-----------------------------------------------------------------------------
(* Type correctness.                                                       *)

\* Every step keeps the types.
LEMMA SubTypeStep ==
  ASSUME SubTypeOK, [SubNext]_subVars
  PROVE  SubTypeOK'
<1> USE DEF rows, merchantRow, planRow, history, SubTypeOK, SubMark, Access, Plan, Step,
            Writing, Giving, Withdrawing, Ending
<1>1. ASSUME NEW c \in SubCalls,
             NEW s \in {"approve", "reject", "open", "extend", "grant", "suspend", "cancel"},
             Administer(c, s)
      PROVE  SubTypeOK'
  BY <1>1, SubBounds, ThenKinds DEF Administer, Begin, Goto, Overlaps
<1>2. ASSUME NEW c \in SubCalls, Redeem(c)
      PROVE  SubTypeOK'
  <2>1. \E s \in {"refuse", "void", "redeem"} : Goto(c, s)
    BY <1>2 DEF Redeem, Begin
  <2>2. typed' = [typed EXCEPT ![c] = lastCode]
    BY <1>2 DEF Redeem
  <2> QED
    BY <1>2, <2>1, <2>2, GotoType DEF Redeem
<1>3. ASSUME NEW c \in SubCalls, Gate(c)
      PROVE  SubTypeOK'
  BY <1>3, SubBounds, ThenKinds DEF Gate, Begin, Goto, Overlaps
<1>4. ASSUME NEW c \in SubCalls, GateReadsPlan(c)
      PROVE  SubTypeOK'
  <2>1. \E s \in {"idle", "lapse", "planLapse"} : Goto(c, s)
    BY <1>4 DEF GateReadsPlan
  <2> QED
    BY <1>4, <2>1, GotoType DEF GateReadsPlan
<1>5. ASSUME NEW c \in SubCalls, WriteAccess(c)
      PROVE  SubTypeOK'
  BY <1>5, SubBounds, ThenKinds DEF WriteAccess, Advance, Leave, SetAccess
<1>6. ASSUME NEW c \in SubCalls, WritePlan(c)
      PROVE  SubTypeOK'
  BY <1>6, SubBounds, ThenKinds DEF WritePlan, Advance, Leave, SetPlan
<1>7. ASSUME NEW c \in SubCalls, Open(c)
      PROVE  SubTypeOK'
  BY <1>7, SubBounds, ThenKinds DEF Open, Advance, Leave, SetAccess
<1>8. ASSUME NEW c \in SubCalls, Extend(c)
      PROVE  SubTypeOK'
  BY <1>8, SubBounds, ThenKinds DEF Extend, Advance, Leave
<1>9. ASSUME NEW c \in SubCalls, Approve(c)
      PROVE  SubTypeOK'
  BY <1>9, SubBounds, ThenKinds DEF Approve, Advance, Leave
<1>10. ASSUME NEW c \in SubCalls, WriteRedeemed(c)
      PROVE  SubTypeOK'
  <2>1. step[c] = "redeem" /\ Then(step[c]) = "admit"
    BY <1>10, ThenValues DEF WriteRedeemed
  <2>2. uses' \in [1..MaxCodes -> Nat]
    <3>1. CASE UNCHANGED uses
      BY <3>1
    <3>2. CASE uses' = [uses EXCEPT ![lastCode] = @ + 1]
      BY <3>2, UseCounted
    <3> QED
      BY <1>10, <3>1, <3>2 DEF WriteRedeemed
  <2> QED
    BY <1>10, <2>1, <2>2 DEF WriteRedeemed, Advance, Leave
<1>11. ASSUME NEW c \in SubCalls, Void(c)
      PROVE  SubTypeOK'
  <2>1. step[c] = "void" /\ Then(step[c]) = "idle"
    BY <1>11, ThenValues DEF Void
  <2>2. used' \in BOOLEAN /\ plan' \in Plan
    BY <1>11 DEF Void
  <2> QED
    BY <1>11, <2>1, <2>2, SubBounds DEF Void, Advance, Leave
<1>12. ASSUME NEW c \in SubCalls, Refuse(c)
      PROVE  SubTypeOK'
  BY <1>12, SubBounds, ThenKinds DEF Refuse, Advance, Leave
<1>13. ASSUME NEW c \in SubCalls, LoseWrite(c)
      PROVE  SubTypeOK'
  <2>1. Then(step[c]) \in Step
    BY <1>13, ThenKinds DEF LoseWrite
  <2>2. \E s \in Step : Leave(c, s)
    BY <1>13, <2>1 DEF LoseWrite
  <2>3. step' \in [SubCalls -> Step] /\ typed' \in [SubCalls -> 0..MaxCodes]
    BY <2>2, SubBounds DEF Leave
  <2> QED
    BY <1>13, <2>3, SubBounds DEF LoseWrite
<1>14. CASE GrantEarly
  BY <1>14 DEF GrantEarly, SetAccess
<1>15. CASE TrialLapses
  BY <1>15 DEF TrialLapses
<1>16. CASE PlanLapses
  BY <1>16 DEF PlanLapses
<1>17. CASE CodeAges
  BY <1>17 DEF CodeAges
<1>18. CASE UNCHANGED subVars
  BY <1>18 DEF subVars
<1> QED
  BY <1>1, <1>2, <1>3, <1>4, <1>5, <1>6, <1>7, <1>8, <1>9,
     <1>10, <1>11, <1>12, <1>13, <1>14, <1>15, <1>16, <1>17, <1>18
     DEF SubNext, Ask, Proceed

-----------------------------------------------------------------------------
(* The parts of the inductive invariant.                                   *)

\* A call that begins while one of the other kind is under way crosses it.
LEMMA CrossStep ==
  ASSUME SubTypeOK, CrossInv, [SubNext]_subVars
  PROVE  CrossInv'
<1> USE DEF rows, merchantRow, planRow, history, SubTypeOK, SubMark, CrossInv, Busy, Step,
            Writing, Giving, Withdrawing, Ending
<1>1. ASSUME NEW c \in SubCalls,
             NEW s \in {"approve", "reject", "open", "extend", "grant", "suspend", "cancel"},
             Administer(c, s)
      PROVE  CrossInv'
  BY <1>1, ThenKinds DEF Administer, Begin, Goto, Overlaps
<1>2. ASSUME NEW c \in SubCalls, Redeem(c)
      PROVE  CrossInv'
  BY <1>2, ThenKinds DEF Redeem, Begin, Goto, Overlaps
<1>3. ASSUME NEW c \in SubCalls, Gate(c)
      PROVE  CrossInv'
  BY <1>3, ThenKinds DEF Gate, Begin, Goto, Overlaps
<1>4. ASSUME NEW c \in SubCalls, GateReadsPlan(c)
      PROVE  CrossInv'
  BY <1>4, ThenKinds DEF GateReadsPlan, Goto, Overlaps
<1>5. ASSUME NEW c \in SubCalls, WriteAccess(c)
      PROVE  CrossInv'
  BY <1>5, ThenKinds DEF WriteAccess, Advance, Leave, SetAccess
<1>6. ASSUME NEW c \in SubCalls, WritePlan(c)
      PROVE  CrossInv'
  BY <1>6, ThenKinds DEF WritePlan, Advance, Leave, SetPlan
<1>7. ASSUME NEW c \in SubCalls, Open(c)
      PROVE  CrossInv'
  BY <1>7, ThenKinds DEF Open, Advance, Leave, SetAccess
<1>8. ASSUME NEW c \in SubCalls, Extend(c)
      PROVE  CrossInv'
  BY <1>8, ThenKinds DEF Extend, Advance, Leave
<1>9. ASSUME NEW c \in SubCalls, Approve(c)
      PROVE  CrossInv'
  BY <1>9, ThenKinds DEF Approve, Advance, Leave
<1>10. ASSUME NEW c \in SubCalls, WriteRedeemed(c)
      PROVE  CrossInv'
  BY <1>10, ThenKinds DEF WriteRedeemed, Advance, Leave
<1>11. ASSUME NEW c \in SubCalls, Void(c)
      PROVE  CrossInv'
  BY <1>11, ThenKinds DEF Void, Advance, Leave
<1>12. ASSUME NEW c \in SubCalls, Refuse(c)
      PROVE  CrossInv'
  BY <1>12, ThenKinds DEF Refuse, Advance, Leave
<1>13. ASSUME NEW c \in SubCalls, LoseWrite(c)
      PROVE  CrossInv'
  BY <1>13, ThenKinds DEF LoseWrite, Leave
<1>14. CASE GrantEarly
  BY <1>14 DEF GrantEarly, SetAccess
<1>15. CASE TrialLapses
  BY <1>15 DEF TrialLapses
<1>16. CASE PlanLapses
  BY <1>16 DEF PlanLapses
<1>17. CASE CodeAges
  BY <1>17 DEF CodeAges
<1>18. CASE UNCHANGED subVars
  BY <1>18 DEF subVars
<1> QED
  BY <1>1, <1>2, <1>3, <1>4, <1>5, <1>6, <1>7, <1>8, <1>9,
     <1>10, <1>11, <1>12, <1>13, <1>14, <1>15, <1>16, <1>17, <1>18
     DEF SubNext, Ask, Proceed

\* A code is redeemed once unless two redemptions overlap.
LEMMA UseStep ==
  ASSUME SubTypeOK, UseInv, [SubNext]_subVars
  PROVE  UseInv'
<1> USE DEF rows, merchantRow, planRow, history, SubTypeOK, SubMark, UseInv, Busy
<1>1. ASSUME NEW c \in SubCalls,
             NEW s \in {"approve", "reject", "open", "extend", "grant", "suspend", "cancel"},
             Administer(c, s)
      PROVE  UseInv'
  BY <1>1, ThenValues, SubBounds DEF Administer, Begin, Goto, Overlaps
<1>2. ASSUME NEW c \in SubCalls, Redeem(c)
      PROVE  UseInv'
  BY <1>2, ThenValues, SubBounds DEF Redeem, Begin, Goto, Overlaps
<1>3. ASSUME NEW c \in SubCalls, Gate(c)
      PROVE  UseInv'
  BY <1>3, ThenValues, SubBounds DEF Gate, Begin, Goto, Overlaps
<1>4. ASSUME NEW c \in SubCalls, GateReadsPlan(c)
      PROVE  UseInv'
  BY <1>4, ThenValues, SubBounds DEF GateReadsPlan, Goto, Overlaps
<1>5. ASSUME NEW c \in SubCalls, WriteAccess(c)
      PROVE  UseInv'
  BY <1>5, ThenValues, SubBounds DEF WriteAccess, Advance, Leave, SetAccess
<1>6. ASSUME NEW c \in SubCalls, WritePlan(c)
      PROVE  UseInv'
  BY <1>6, ThenValues, SubBounds DEF WritePlan, Advance, Leave, SetPlan
<1>7. ASSUME NEW c \in SubCalls, Open(c)
      PROVE  UseInv'
  BY <1>7, ThenValues, SubBounds DEF Open, Advance, Leave, SetAccess
<1>8. ASSUME NEW c \in SubCalls, Extend(c)
      PROVE  UseInv'
  BY <1>8, ThenValues, SubBounds DEF Extend, Advance, Leave
<1>9. ASSUME NEW c \in SubCalls, Approve(c)
      PROVE  UseInv'
  BY <1>9, ThenValues, SubBounds DEF Approve, Advance, Leave
<1>10. ASSUME NEW c \in SubCalls, WriteRedeemed(c)
      PROVE  UseInv'
  BY <1>10, ThenValues, SubBounds DEF WriteRedeemed, Advance, Leave
<1>11. ASSUME NEW c \in SubCalls, Void(c)
      PROVE  UseInv'
  BY <1>11, ThenValues, SubBounds DEF Void, Advance, Leave
<1>12. ASSUME NEW c \in SubCalls, Refuse(c)
      PROVE  UseInv'
  BY <1>12, ThenValues, SubBounds DEF Refuse, Advance, Leave
<1>13. ASSUME NEW c \in SubCalls, LoseWrite(c)
      PROVE  UseInv'
  <2>1. PICK s \in Second :
          /\ Leave(c, s)
          /\ s \in {"lapsePlan", "lapseAccess"} => step[c] \in {"lapse", "planLapse"}
    BY <1>13, LoseEffect
  <2> QED
    BY <1>13, <2>1 DEF LoseWrite, Leave, Second
<1>14. CASE GrantEarly
  BY <1>14 DEF GrantEarly, SetAccess
<1>15. CASE TrialLapses
  BY <1>15 DEF TrialLapses
<1>16. CASE PlanLapses
  BY <1>16 DEF PlanLapses
<1>17. CASE CodeAges
  BY <1>17 DEF CodeAges
<1>18. CASE UNCHANGED subVars
  BY <1>18 DEF subVars
<1> QED
  BY <1>1, <1>2, <1>3, <1>4, <1>5, <1>6, <1>7, <1>8, <1>9,
     <1>10, <1>11, <1>12, <1>13, <1>14, <1>15, <1>16, <1>17, <1>18
     DEF SubNext, Ask, Proceed

\* A redemption finds its row and leaves an end behind.
LEMMA AdmitStep ==
  ASSUME SubTypeOK, AdmitInv, AccessEnds, [SubNext]_subVars
  PROVE  (AdmitInv /\ AccessEnds)'
<1> USE DEF rows, merchantRow, planRow, history, SubTypeOK, SubMark, AdmitInv, AccessEnds, Busy
<1>1. ASSUME NEW c \in SubCalls,
             NEW s \in {"approve", "reject", "open", "extend", "grant", "suspend", "cancel"},
             Administer(c, s)
      PROVE  (AdmitInv /\ AccessEnds)'
  BY <1>1, ThenValues DEF Administer, Begin, Goto, Overlaps
<1>2. ASSUME NEW c \in SubCalls, Redeem(c)
      PROVE  (AdmitInv /\ AccessEnds)'
  BY <1>2, ThenValues DEF Redeem, Begin, Goto, Overlaps
<1>3. ASSUME NEW c \in SubCalls, Gate(c)
      PROVE  (AdmitInv /\ AccessEnds)'
  BY <1>3, ThenValues DEF Gate, Begin, Goto, Overlaps
<1>4. ASSUME NEW c \in SubCalls, GateReadsPlan(c)
      PROVE  (AdmitInv /\ AccessEnds)'
  BY <1>4, ThenValues DEF GateReadsPlan, Goto, Overlaps
<1>5. ASSUME NEW c \in SubCalls, WriteAccess(c)
      PROVE  (AdmitInv /\ AccessEnds)'
  BY <1>5, ThenValues DEF WriteAccess, Advance, Leave, SetAccess
<1>6. ASSUME NEW c \in SubCalls, WritePlan(c)
      PROVE  (AdmitInv /\ AccessEnds)'
  BY <1>6, ThenValues DEF WritePlan, Advance, Leave, SetPlan
<1>7. ASSUME NEW c \in SubCalls, Open(c)
      PROVE  (AdmitInv /\ AccessEnds)'
  BY <1>7, ThenValues DEF Open, Advance, Leave, SetAccess
<1>8. ASSUME NEW c \in SubCalls, Extend(c)
      PROVE  (AdmitInv /\ AccessEnds)'
  BY <1>8, ThenValues DEF Extend, Advance, Leave
<1>9. ASSUME NEW c \in SubCalls, Approve(c)
      PROVE  (AdmitInv /\ AccessEnds)'
  BY <1>9, ThenValues DEF Approve, Advance, Leave
<1>10. ASSUME NEW c \in SubCalls, WriteRedeemed(c)
      PROVE  (AdmitInv /\ AccessEnds)'
  BY <1>10, ThenValues DEF WriteRedeemed, Advance, Leave
<1>11. ASSUME NEW c \in SubCalls, Void(c)
      PROVE  (AdmitInv /\ AccessEnds)'
  BY <1>11, ThenValues DEF Void, Advance, Leave
<1>12. ASSUME NEW c \in SubCalls, Refuse(c)
      PROVE  (AdmitInv /\ AccessEnds)'
  BY <1>12, ThenValues DEF Refuse, Advance, Leave
<1>13. ASSUME NEW c \in SubCalls, LoseWrite(c)
      PROVE  (AdmitInv /\ AccessEnds)'
  <2>1. PICK s \in Second :
          /\ Leave(c, s)
          /\ s \in {"lapsePlan", "lapseAccess"} => step[c] \in {"lapse", "planLapse"}
    BY <1>13, LoseEffect
  <2> QED
    BY <1>13, <2>1 DEF LoseWrite, Leave, Second
<1>14. CASE GrantEarly
  BY <1>14 DEF GrantEarly, SetAccess
<1>15. CASE TrialLapses
  BY <1>15 DEF TrialLapses
<1>16. CASE PlanLapses
  BY <1>16 DEF PlanLapses
<1>17. CASE CodeAges
  BY <1>17 DEF CodeAges
<1>18. CASE UNCHANGED subVars
  BY <1>18 DEF subVars
<1> QED
  BY <1>1, <1>2, <1>3, <1>4, <1>5, <1>6, <1>7, <1>8, <1>9,
     <1>10, <1>11, <1>12, <1>13, <1>14, <1>15, <1>16, <1>17, <1>18
     DEF SubNext, Ask, Proceed

\* A withdrawal that nothing crosses leaves no way back.
LEMMA WithdrawStep ==
  ASSUME SubTypeOK, CrossInv, WithdrawInv, [SubNext]_subVars
  PROVE  WithdrawInv'
<1> USE DEF rows, merchantRow, planRow, history, SubTypeOK, SubMark, CrossInv, WithdrawInv,
            Dead, Busy, Giving, Withdrawing, Ending
<1>1. ASSUME NEW c \in SubCalls,
             NEW s \in {"approve", "reject", "open", "extend", "grant", "suspend", "cancel"},
             Administer(c, s)
      PROVE  WithdrawInv'
  <2>1. CASE s \in {"suspend", "cancel"}
    BY <1>1, <2>1 DEF Administer, Begin, Goto, Overlaps
  <2>2. CASE s = "reject"
    BY <1>1, <2>2 DEF Administer, Begin, Goto, Overlaps
  <2>3. CASE s \in {"approve", "open", "extend", "grant"}
    BY <1>1, <2>3 DEF Administer, Begin, Goto, Overlaps
  <2> QED
    BY <2>1, <2>2, <2>3
<1>2. ASSUME NEW c \in SubCalls, Redeem(c)
      PROVE  WithdrawInv'
  BY <1>2, ThenValues DEF Redeem, Begin, Goto, Overlaps
<1>3. ASSUME NEW c \in SubCalls, Gate(c)
      PROVE  WithdrawInv'
  BY <1>3, ThenValues DEF Gate, Begin, Goto, Overlaps
<1>4. ASSUME NEW c \in SubCalls, GateReadsPlan(c)
      PROVE  WithdrawInv'
  BY <1>4, ThenValues DEF GateReadsPlan, Goto, Overlaps
<1>5. ASSUME NEW c \in SubCalls, WriteAccess(c)
      PROVE  WithdrawInv'
  BY <1>5, ThenValues DEF WriteAccess, Advance, Leave, SetAccess
<1>6. ASSUME NEW c \in SubCalls, WritePlan(c)
      PROVE  WithdrawInv'
  BY <1>6, ThenValues DEF WritePlan, Advance, Leave, SetPlan
<1>7. ASSUME NEW c \in SubCalls, Open(c)
      PROVE  WithdrawInv'
  BY <1>7, ThenValues DEF Open, Advance, Leave, SetAccess
<1>8. ASSUME NEW c \in SubCalls, Extend(c)
      PROVE  WithdrawInv'
  BY <1>8, ThenValues DEF Extend, Advance, Leave
<1>9. ASSUME NEW c \in SubCalls, Approve(c)
      PROVE  WithdrawInv'
  BY <1>9, ThenValues DEF Approve, Advance, Leave
<1>10. ASSUME NEW c \in SubCalls, WriteRedeemed(c)
      PROVE  WithdrawInv'
  BY <1>10, ThenValues DEF WriteRedeemed, Advance, Leave
<1>11. ASSUME NEW c \in SubCalls, Void(c)
      PROVE  WithdrawInv'
  BY <1>11, ThenValues DEF Void, Advance, Leave
<1>12. ASSUME NEW c \in SubCalls, Refuse(c)
      PROVE  WithdrawInv'
  BY <1>12, ThenValues DEF Refuse, Advance, Leave
<1>13. ASSUME NEW c \in SubCalls, LoseWrite(c)
      PROVE  WithdrawInv'
  BY <1>13, ThenValues DEF LoseWrite, Leave
<1>14. CASE GrantEarly
  BY <1>14 DEF GrantEarly, SetAccess
<1>15. CASE TrialLapses
  BY <1>15 DEF TrialLapses
<1>16. CASE PlanLapses
  BY <1>16 DEF PlanLapses
<1>17. CASE CodeAges
  BY <1>17 DEF CodeAges
<1>18. CASE UNCHANGED subVars
  BY <1>18 DEF subVars
<1> QED
  BY <1>1, <1>2, <1>3, <1>4, <1>5, <1>6, <1>7, <1>8, <1>9,
     <1>10, <1>11, <1>12, <1>13, <1>14, <1>15, <1>16, <1>17, <1>18
     DEF SubNext, Ask, Proceed

\* The gate writes what it read, if nothing crosses it.
LEMMA GateStep ==
  ASSUME SubTypeOK, CrossInv, GateInv, [SubNext]_subVars
  PROVE  GateInv'
<1> USE DEF rows, merchantRow, planRow, history, SubTypeOK, SubMark, CrossInv, GateInv, Busy,
            Giving, Withdrawing, Ending
<1>1. ASSUME NEW c \in SubCalls,
             NEW s \in {"approve", "reject", "open", "extend", "grant", "suspend", "cancel"},
             Administer(c, s)
      PROVE  GateInv'
  BY <1>1, ThenValues DEF Administer, Begin, Goto, Overlaps
<1>2. ASSUME NEW c \in SubCalls, Redeem(c)
      PROVE  GateInv'
  BY <1>2, ThenValues DEF Redeem, Begin, Goto, Overlaps
<1>3. ASSUME NEW c \in SubCalls, Gate(c)
      PROVE  GateInv'
  BY <1>3, ThenValues DEF Gate, Begin, Goto, Overlaps
<1>4. ASSUME NEW c \in SubCalls, GateReadsPlan(c)
      PROVE  GateInv'
  BY <1>4, ThenValues DEF GateReadsPlan, Goto, Overlaps
<1>5. ASSUME NEW c \in SubCalls, WriteAccess(c)
      PROVE  GateInv'
  BY <1>5, ThenValues DEF WriteAccess, Advance, Leave, SetAccess
<1>6. ASSUME NEW c \in SubCalls, WritePlan(c)
      PROVE  GateInv'
  BY <1>6, ThenValues DEF WritePlan, Advance, Leave, SetPlan
<1>7. ASSUME NEW c \in SubCalls, Open(c)
      PROVE  GateInv'
  BY <1>7, ThenValues DEF Open, Advance, Leave, SetAccess
<1>8. ASSUME NEW c \in SubCalls, Extend(c)
      PROVE  GateInv'
  BY <1>8, ThenValues DEF Extend, Advance, Leave
<1>9. ASSUME NEW c \in SubCalls, Approve(c)
      PROVE  GateInv'
  BY <1>9, ThenValues DEF Approve, Advance, Leave
<1>10. ASSUME NEW c \in SubCalls, WriteRedeemed(c)
      PROVE  GateInv'
  BY <1>10, ThenValues DEF WriteRedeemed, Advance, Leave
<1>11. ASSUME NEW c \in SubCalls, Void(c)
      PROVE  GateInv'
  BY <1>11, ThenValues DEF Void, Advance, Leave
<1>12. ASSUME NEW c \in SubCalls, Refuse(c)
      PROVE  GateInv'
  BY <1>12, ThenValues DEF Refuse, Advance, Leave
<1>13. ASSUME NEW c \in SubCalls, LoseWrite(c)
      PROVE  GateInv'
  <2>1. PICK s \in Second :
          /\ Leave(c, s)
          /\ s \in {"lapsePlan", "lapseAccess"} => step[c] \in {"lapse", "planLapse"}
    BY <1>13, LoseEffect
  <2> QED
    BY <1>13, <2>1 DEF LoseWrite, Leave, Second
<1>14. CASE GrantEarly
  BY <1>14 DEF GrantEarly, SetAccess
<1>15. CASE TrialLapses
  BY <1>15 DEF TrialLapses
<1>16. CASE PlanLapses
  BY <1>16 DEF PlanLapses
<1>17. CASE CodeAges
  BY <1>17 DEF CodeAges
<1>18. CASE UNCHANGED subVars
  BY <1>18 DEF subVars
<1> QED
  BY <1>1, <1>2, <1>3, <1>4, <1>5, <1>6, <1>7, <1>8, <1>9,
     <1>10, <1>11, <1>12, <1>13, <1>14, <1>15, <1>16, <1>17, <1>18
     DEF SubNext, Ask, Proceed

-----------------------------------------------------------------------------
(* The theorems.                                                           *)

LEMMA SubInitially == SubInit => SubInv
<1> SUFFICES ASSUME SubInit PROVE SubInv
  OBVIOUS
<1> USE DEF SubInit
<1>1. SubTypeOK
  <2>1. /\ access \in Access /\ trial \in {"off", "ahead", "past"}
        /\ plan \in Plan /\ expiry \in {"none", "ahead", "past"}
        /\ used \in BOOLEAN /\ aged \in BOOLEAN /\ withdrawn \in BOOLEAN
        /\ subMarks \subseteq SubMark
    BY DEF Access, Plan
  <2>2. lastCode \in 0..MaxCodes /\ subFaults \in 0..MaxSubFaults
    BY SubBounds
  <2>3. step \in [SubCalls -> Step] /\ typed \in [SubCalls -> 0..MaxCodes]
    BY SubBounds DEF Step
  <2>4. uses \in [1..MaxCodes -> Nat]
    OBVIOUS
  <2> QED
    BY <2>1, <2>2, <2>3, <2>4 DEF SubTypeOK
<1>2. CrossInv /\ AdmitInv /\ AccessEnds /\ WithdrawInv /\ GateInv
  BY DEF CrossInv, AdmitInv, AccessEnds, WithdrawInv, GateInv, Busy, Giving, Withdrawing, Ending
<1>3. UseInv
  BY DEF UseInv, Busy
<1> QED
  BY <1>1, <1>2, <1>3 DEF SubInv

LEMMA SubInductive == SubInv /\ [SubNext]_subVars => SubInv'
BY SubTypeStep, CrossStep, UseStep, AdmitStep, WithdrawStep, GateStep DEF SubInv

\* The inductive invariant holds in every reachable state.
THEOREM SubInvariance == SubSpec => []SubInv
BY SubInitially, SubInductive, PTL DEF SubSpec

\* Every variable of the two rows and of the calls keeps its type.
THEOREM SubTypeCorrect == SubSpec => []SubTypeOK
<1>1. SubInv => SubTypeOK
  BY DEF SubInv
<1> QED
  BY <1>1, SubInvariance, PTL

\* A withdrawal that nothing crosses and whose writes succeed is final until an
\* administrator gives access again.
THEOREM WithdrawalIsFinal == SubSpec => []WithdrawalHolds
<1>1. SubInv => WithdrawalHolds
  BY DEF SubInv, WithdrawInv, WithdrawalHolds
<1> QED
  BY <1>1, SubInvariance, PTL

\* A code buys one period unless two redemptions overlap.
THEOREM CodeBuysOnce == SubSpec => []OneRedemption
<1>1. SubInv => OneRedemption
  <2> SUFFICES ASSUME SubInv, "twice" \notin subMarks, NEW k \in 1..MaxCodes
               PROVE  uses[k] <= 1
    BY DEF OneRedemption
  <2>1. uses[k] \in {0, 1}
    BY DEF SubInv, UseInv
  <2> QED
    BY <2>1
<1> QED
  BY <1>1, SubInvariance, PTL

\* Access has an end on record, but for early renewals and merchants let in by
\* hand.
THEOREM AccessHasEnd == SubSpec => []AccessEnds
<1>1. SubInv => AccessEnds
  BY DEF SubInv
<1> QED
  BY <1>1, SubInvariance, PTL

\* Paid time is not cut short by the gate.
THEOREM PaidTimeIsServed == SubSpec => PaidTimeServed
<1> DEFINE Cut == /\ access = "active" /\ access' = "expired"
                  /\ plan = "active" /\ expiry = "ahead"
           Excused == trial # "off" \/ subMarks \intersect {"crossed", "lost"} # {}
<1>1. ASSUME SubInv, [SubNext]_subVars PROVE Cut => Excused
  <2> SUFFICES ASSUME Cut, ~Excused PROVE FALSE
    OBVIOUS
  <2> USE DEF rows, merchantRow, planRow, history
  <2>1. \A c \in SubCalls : step[c] \notin {"lapse", "lapseAccess", "endTrial", "close"}
    BY <1>1 DEF SubInv, GateInv, WithdrawInv, Busy, Ending, Dead
  <2>2. ASSUME NEW c \in SubCalls, WriteAccess(c) PROVE FALSE
    BY <2>1, <2>2 DEF WriteAccess, SetAccess
  <2>3. ASSUME NEW c \in SubCalls, WritePlan(c) PROVE FALSE
    BY <2>3 DEF WritePlan, SetPlan
  <2>4. ASSUME NEW c \in SubCalls, Open(c) PROVE FALSE
    BY <2>4 DEF Open, SetAccess
  <2>5. ASSUME NEW c \in SubCalls, \/ GateReadsPlan(c) \/ Extend(c) \/ Approve(c)
                                   \/ WriteRedeemed(c) \/ Void(c) \/ Refuse(c) \/ LoseWrite(c)
        PROVE  FALSE
    BY <2>5 DEF GateReadsPlan, Extend, Approve, WriteRedeemed, Void, Refuse, LoseWrite
  <2>6. ASSUME NEW c \in SubCalls, Ask(c) PROVE FALSE
    BY <2>6 DEF Ask, Administer, Redeem, Gate
  <2>7. CASE GrantEarly \/ TrialLapses \/ PlanLapses \/ CodeAges
    BY <2>7 DEF GrantEarly, SetAccess, TrialLapses, PlanLapses, CodeAges
  <2>8. CASE UNCHANGED subVars
    BY <2>8 DEF subVars
  <2> QED
    BY <1>1, <2>2, <2>3, <2>4, <2>5, <2>6, <2>7, <2>8 DEF SubNext, Proceed
<1> QED
  BY <1>1, SubInvariance, PTL DEF SubSpec, PaidTimeServed

-----------------------------------------------------------------------------
(* TrialSlots: the slots that are held.                                    *)

LEMMA HeldFinite ==
  IsFiniteSet(Held) /\ Cardinality(Held) \in Nat
BY SlotBounds, FS_Subset, FS_CardinalityType DEF Held

LEMMA HeldFiniteNext == Cardinality(Held') \in Nat
<1>1. IsFiniteSet(Held')
  BY SlotBounds, FS_Subset DEF Held
<1> QED
  BY <1>1, FS_CardinalityType

\* A call that goes from one point to another takes a slot, gives one up, or
\* neither.
LEMMA HeldChange ==
  ASSUME at \in [Grants -> At], NEW g \in Grants, NEW a \in At, SlotGoto(g, a)
  PROVE  Cardinality(Held') =
           Cardinality(Held) + (IF a \in Holding THEN 1 ELSE 0)
                             - (IF at[g] \in Holding THEN 1 ELSE 0)
<1>1. CASE a \in Holding /\ at[g] \notin Holding
  <2>1. Held' = Held \union {g} /\ g \notin Held
    BY <1>1 DEF SlotGoto, Held
  <2> QED
    BY <1>1, <2>1, HeldFinite, FS_AddElement
<1>2. CASE a \notin Holding /\ at[g] \in Holding
  <2>1. Held' = Held \ {g} /\ g \in Held
    BY <1>2 DEF SlotGoto, Held
  <2>2. Cardinality(Held \ {g}) = Cardinality(Held) - 1
    BY <2>1, HeldFinite, FS_RemoveElement
  <2> QED
    BY <1>2, <2>1, <2>2, HeldFinite
<1>3. CASE a \in Holding <=> at[g] \in Holding
  <2>1. Held' = Held
    BY <1>3 DEF SlotGoto, Held
  <2> QED
    BY <1>3, <2>1, HeldFinite
<1> QED
  BY <1>1, <1>2, <1>3

\* Nothing else changes the slots that are held.
LEMMA HeldSame == UNCHANGED at => Cardinality(Held') = Cardinality(Held)
<1> SUFFICES ASSUME UNCHANGED at PROVE Held' = Held
  OBVIOUS
<1> QED
  BY DEF Held

-----------------------------------------------------------------------------
(* Type correctness and the sight of a free slot.                          *)

\* Every step keeps the marks and the highest limit, or adds to them.
LEMMA MarkType ==
  ASSUME SlotTypeOK, early' \in Nat, NEW S \in SUBSET SlotMark, Mark(S)
  PROVE  base' \in Nat /\ slotMarks' \in SUBSET SlotMark /\ slotMarks \subseteq slotMarks'
BY HeldFiniteNext DEF SlotTypeOK, Mark

LEMMA MarksGrow ==
  ASSUME SlotTypeOK, [SlotNext]_slotVars
  PROVE  /\ early' \in Nat /\ base' \in Nat /\ limit' \in 0..MaxLimit /\ highest' \in 0..MaxLimit
         /\ slotMarks' \in SUBSET SlotMark /\ slotMarks \subseteq slotMarks'
         /\ highest <= highest'
<1> DEFINE Grows == /\ base' \in Nat /\ slotMarks' \in SUBSET SlotMark
                    /\ slotMarks \subseteq slotMarks'
           Limits == UNCHANGED <<limit, highest>>
           Goal == Grows /\ early' \in Nat /\ limit' \in 0..MaxLimit
                   /\ highest' \in 0..MaxLimit /\ highest <= highest'
<1>0. early \in Nat /\ limit \in 0..MaxLimit /\ highest \in 0..MaxLimit
  BY DEF SlotTypeOK
<1>m. \A S \in SUBSET SlotMark : early' \in Nat /\ Mark(S) => Grows
  BY MarkType
<1>u. UNCHANGED <<base, slotMarks>> => Grows
  BY DEF SlotTypeOK
<1>l. MaxLimit \in Nat
  BY SlotBounds
<1>s. Grows /\ early' \in Nat /\ Limits => Goal
  BY <1>0, <1>l
<1> HIDE DEF Grows
<1>1. ASSUME NEW g \in Grants, NEW m \in Merchants, AskTrial(g, m) \/ GrantManually(g, m)
      PROVE  Goal
  BY <1>0, <1>1, <1>u, <1>l DEF AskTrial, GrantManually
<1>2. ASSUME NEW g \in Grants, Look(g) PROVE Goal
  <2>1. UNCHANGED early /\ Limits
    BY <1>2 DEF Look
  <2>2. Mark({}) \/ Mark({"guessed"})
    BY <1>2 DEF Look
  <2>3. {} \in SUBSET SlotMark /\ {"guessed"} \in SUBSET SlotMark
    BY DEF SlotMark
  <2>4. Grows
    BY <1>0, <1>m, <2>1, <2>2, <2>3
  <2> QED
    BY <1>0, <1>s, <2>1, <2>4
<1>3. ASSUME NEW g \in Grants, Swap(g) PROVE Goal
  <2>1. UNCHANGED early /\ Limits
    BY <1>3 DEF Swap
  <2>2. UNCHANGED <<base, slotMarks>> \/ Mark({"leaked"})
    BY <1>3 DEF Swap
  <2>3. {"leaked"} \in SUBSET SlotMark
    BY DEF SlotMark
  <2>4. Grows
    BY <1>0, <1>m, <1>u, <2>1, <2>2, <2>3
  <2> QED
    BY <1>0, <1>s, <2>1, <2>4
<1>4. ASSUME NEW g \in Grants, Grant(g) PROVE Goal
  <2>1. early' \in Nat /\ Limits
    BY <1>0, <1>4 DEF Grant
  <2>2. UNCHANGED <<base, slotMarks>> \/ Mark({"unseen"})
    BY <1>4 DEF Grant
  <2>3. {"unseen"} \in SUBSET SlotMark
    BY DEF SlotMark
  <2>4. Grows
    BY <1>0, <1>m, <1>u, <2>1, <2>2, <2>3
  <2> QED
    BY <1>0, <1>s, <2>1, <2>4
<1>5. ASSUME NEW g \in Grants, ReadCounter(g) PROVE Goal
  BY <1>0, <1>5, <1>u, <1>l DEF ReadCounter
<1>6. ASSUME NEW g \in Grants, GiveBack(g) \/ Count(g) PROVE Goal
  <2>1. UNCHANGED early /\ Limits /\ Mark(Stale(g))
    BY <1>6 DEF GiveBack, Count
  <2>2. Stale(g) \in SUBSET SlotMark
    BY DEF Stale, SlotMark
  <2>3. Grows
    BY <1>0, <1>m, <2>1, <2>2
  <2> QED
    BY <1>0, <1>s, <2>1, <2>3
<1>7. ASSUME NEW g \in Grants, Die(g) PROVE Goal
  <2>1. UNCHANGED early /\ Limits /\ (Mark({}) \/ Mark({"leaked"}))
    BY <1>7 DEF Die
  <2>2. {} \in SUBSET SlotMark /\ {"leaked"} \in SUBSET SlotMark
    BY DEF SlotMark
  <2>3. Grows
    BY <1>0, <1>m, <2>1, <2>2
  <2> QED
    BY <1>0, <1>s, <2>1, <2>3
<1>8. ASSUME NEW m \in Merchants, MoveOn(m) PROVE Goal
  BY <1>0, <1>8, <1>u, <1>l DEF MoveOn
<1>9. ASSUME ResetSlots PROVE Goal
  <2>1. UNCHANGED early /\ Limits /\ Mark({"reset"})
    BY <1>9 DEF ResetSlots
  <2>2. {"reset"} \in SUBSET SlotMark
    BY DEF SlotMark
  <2>3. Grows
    BY <1>0, <1>m, <2>1, <2>2
  <2> QED
    BY <1>0, <1>s, <2>1, <2>3
<1>10. ASSUME NEW n \in 0..MaxLimit, SetLimit(n) PROVE Goal
  BY <1>0, <1>10, <1>u, <1>l DEF SetLimit
<1>11. ASSUME UNCHANGED slotVars PROVE Goal
  <2>1. UNCHANGED <<early, base, slotMarks>> /\ Limits
    BY <1>11 DEF slotVars
  <2> QED
    BY <1>0, <1>s, <1>u, <2>1
<1>12. Goal
  <2> HIDE DEF Goal
  <2> QED
    BY <1>1, <1>2, <1>3, <1>4, <1>5, <1>6, <1>7, <1>8, <1>9, <1>10, <1>11 DEF SlotNext
<1> QED
  BY <1>12 DEF Grows

\* So what may be taken never shrinks.
LEMMA MostGrows ==
  ASSUME SlotTypeOK, [SlotNext]_slotVars
  PROVE  Most \in Nat /\ Most' \in Nat /\ Most <= Most'
<1>1. highest \in Nat /\ highest' \in Nat /\ highest <= highest' /\ slotMarks \subseteq slotMarks'
  BY MarksGrow, SlotBounds DEF SlotTypeOK
<1> QED
  BY <1>1 DEF Most

Sights == \A g \in Grants : /\ at[g] = "swap" => seen[g] < Most
                            /\ at[g] = "look" => round[g] < Rounds
                            /\ at[g] = "idle" => round[g] = 0

LEMMA FinishType ==
  ASSUME SlotTypeOK, Sights, [SlotNext]_slotVars, NEW g \in Grants, Finish(g)
  PROVE  /\ at' \in [Grants -> At] /\ who' \in [Grants -> Merchants \union {Nobody}]
         /\ round' \in [Grants -> 0..Rounds] /\ seen' \in [Grants -> Nat]
         /\ Sights'
BY MostGrows DEF SlotTypeOK, Sights, Finish, At, Rounds

LEMMA SeeType ==
  ASSUME SlotTypeOK, Sights, [SlotNext]_slotVars, NEW g \in Grants, NEW v \in Nat,
         v < Most', at[g] = "look", SeeCounter(g, v)
  PROVE  /\ at' \in [Grants -> At] /\ who' \in [Grants -> Merchants \union {Nobody}]
         /\ round' \in [Grants -> 0..Rounds] /\ seen' \in [Grants -> Nat]
         /\ Sights'
BY MostGrows DEF SlotTypeOK, Sights, SeeCounter, SlotGoto, At, Rounds

LEMMA NextRoundType ==
  ASSUME SlotTypeOK, Sights, [SlotNext]_slotVars, NEW g \in Grants, NextRound(g)
  PROVE  /\ at' \in [Grants -> At] /\ who' \in [Grants -> Merchants \union {Nobody}]
         /\ round' \in [Grants -> 0..Rounds] /\ seen' \in [Grants -> Nat]
         /\ Sights'
<1>1. CASE round[g] < Rounds
  BY <1>1, MostGrows DEF SlotTypeOK, Sights, NextRound, SlotGoto, At
<1>2. CASE ~(round[g] < Rounds)
  BY <1>2, FinishType DEF NextRound
<1> QED
  BY <1>1, <1>2

\* A call that goes elsewhere than to swap, look or idle sees nothing new.
LEMMA GoneType ==
  ASSUME SlotTypeOK, Sights, [SlotNext]_slotVars, NEW g \in Grants,
         NEW a \in At \ {"swap", "look", "idle"}, SlotGoto(g, a), UNCHANGED <<who, round>>,
         NEW v \in Nat, seen' = seen \/ seen' = [seen EXCEPT ![g] = v]
  PROVE  /\ at' \in [Grants -> At] /\ who' \in [Grants -> Merchants \union {Nobody}]
         /\ round' \in [Grants -> 0..Rounds] /\ seen' \in [Grants -> Nat]
         /\ Sights'
BY MostGrows DEF SlotTypeOK, Sights, SlotGoto

\* Every step keeps the types, and a call takes a slot only when it saw one.
LEMMA SlotTypeStep ==
  ASSUME SlotTypeOK, SeenInv, [SlotNext]_slotVars
  PROVE  SlotTypeOK' /\ SeenInv'
<1> DEFINE CallTypes == /\ at \in [Grants -> At]
                        /\ who \in [Grants -> Merchants \union {Nobody}]
                        /\ round \in [Grants -> 0..Rounds] /\ seen \in [Grants -> Nat]
           Rest == /\ counter \in Nat
                   /\ standing \in [Merchants -> {"pending", "trial", "other"}]
                   /\ slotFaults \in 0..MaxSlotFaults /\ manual \in Nat
           Goal == CallTypes /\ Rest /\ Sights
<1>0. CallTypes /\ Rest /\ Sights /\ limit <= highest /\ limit \in Nat /\ highest \in Nat
  BY SlotBounds DEF SlotTypeOK, SeenInv, Sights
<1>1. ASSUME NEW g \in Grants, NEW m \in Merchants, AskTrial(g, m)
      PROVE  Goal'
  <2>1. at[g] = "idle" /\ at' = [at EXCEPT ![g] = "look"]
    BY <1>1 DEF AskTrial, SlotGoto
  <2>2. CallTypes'
    BY <1>0, <1>1, <2>1 DEF AskTrial, At
  <2>3. Sights'
    BY <1>0, <1>1, <2>1, MostGrows DEF AskTrial, Rounds, Sights
  <2> QED
    BY <1>0, <1>1, <2>2, <2>3 DEF AskTrial
<1>2. ASSUME NEW g \in Grants, NEW m \in Merchants, GrantManually(g, m)
      PROVE  Goal'
  <2>1. "tally" \in At \ {"swap", "look", "idle"} /\ 0 \in Nat
    BY DEF At
  <2>2. CallTypes' /\ Sights'
    BY <1>0, <1>2, <2>1, GoneType DEF GrantManually
  <2> QED
    BY <1>0, <1>2, <2>2 DEF GrantManually
<1>3. ASSUME NEW g \in Grants, Look(g)
      PROVE  Goal'
  <2>0. Rest' /\ at[g] = "look" /\ UNCHANGED <<counter, limit, highest>>
    BY <1>0, <1>3, SlotBounds DEF Look, SlotFault
  <2>1. CASE Finish(g)
    BY <1>0, <2>0, <2>1, FinishType
  <2>2. CASE counter < limit /\ SeeCounter(g, counter)
    <3>1. counter < Most /\ counter \in Nat
      BY <1>0, <2>2 DEF Most
    <3>2. counter < Most'
      BY <3>1, MostGrows
    <3> QED
      BY <1>0, <2>0, <2>2, <3>1, <3>2, SeeType
  <2>3. CASE Mark({"guessed"}) /\ SeeCounter(g, 0)
    <3>1. "guessed" \in slotMarks'
      BY <2>3 DEF Mark
    <3>2. 0 < Most'
      BY <1>0, <2>0, <3>1 DEF Most
    <3> QED
      BY <1>0, <2>0, <2>3, <3>2, SeeType
  <2> QED
    BY <1>3, <2>1, <2>2, <2>3 DEF Look, Compare
<1>4. ASSUME NEW g \in Grants, Swap(g)
      PROVE  Goal'
  <2>0. Rest'
    BY <1>0, <1>4, SlotBounds DEF Swap, SlotFault
  <2>1. CASE SlotGoto(g, "grant") /\ UNCHANGED <<who, round, seen>>
    <3>1. "grant" \in At \ {"swap", "look", "idle"} /\ 0 \in Nat
      BY DEF At, Holding
    <3> QED
      BY <1>0, <2>0, <2>1, <3>1, GoneType
  <2>2. CASE NextRound(g)
    BY <1>0, <2>0, <2>2, NextRoundType
  <2> QED
    BY <1>4, <2>1, <2>2 DEF Swap
<1>5. ASSUME NEW g \in Grants, Grant(g)
      PROVE  Goal'
  <2>0. Rest'
    BY <1>0, <1>5, SlotBounds DEF Grant, SlotFault
  <2>1. CASE Finish(g)
    BY <1>0, <2>0, <2>1, FinishType
  <2>2. CASE SlotGoto(g, "release") /\ UNCHANGED <<who, round, seen>>
    <3>1. "release" \in At \ {"swap", "look", "idle"} /\ 0 \in Nat
      BY DEF At, Holding
    <3> QED
      BY <1>0, <2>0, <2>2, <3>1, GoneType
  <2> QED
    BY <1>5, <2>1, <2>2 DEF Grant
<1>6. ASSUME NEW g \in Grants, ReadCounter(g)
      PROVE  Goal'
  <2>0. Rest' /\ UNCHANGED <<who, round>>
    BY <1>0, <1>6, SlotBounds DEF ReadCounter, SlotFault
  <2>1. PICK a \in {"giveBack", "count"} : SlotGoto(g, a)
    BY <1>6 DEF ReadCounter
  <2>2. a \in At \ {"swap", "look", "idle"}
    BY <2>1 DEF At, Holding
  <2>3. PICK v \in Nat : seen' = [seen EXCEPT ![g] = v]
    BY <1>0, <1>6 DEF ReadCounter
  <2> QED
    BY <1>0, <2>0, <2>1, <2>2, <2>3, GoneType
<1>7. ASSUME NEW g \in Grants, GiveBack(g) \/ Count(g)
      PROVE  Goal'
  <2>1. counter' \in Nat /\ manual' \in Nat
    BY <1>0, <1>7 DEF GiveBack, Count
  <2>2. Finish(g) /\ UNCHANGED <<standing, slotFaults>>
    BY <1>7 DEF GiveBack, Count
  <2> QED
    BY <1>0, <2>1, <2>2, FinishType
<1>8. ASSUME NEW g \in Grants, Die(g)
      PROVE  Goal'
  <2>1. Rest' /\ Finish(g)
    BY <1>0, <1>8, SlotBounds DEF Die, SlotFault
  <2> QED
    BY <1>0, <2>1, FinishType
<1>9. ASSUME UNCHANGED <<at, who, round, seen, slotFaults, manual>>, counter' \in Nat,
             standing' \in [Merchants -> {"pending", "trial", "other"}]
      PROVE  Goal'
  BY <1>0, <1>9, MostGrows DEF Sights
<1>10. ASSUME NEW m \in Merchants, MoveOn(m)
       PROVE  Goal'
  BY <1>0, <1>9, <1>10 DEF MoveOn
<1>11. ASSUME ResetSlots PROVE Goal'
  <2>1. /\ UNCHANGED <<at, who, round, seen, slotFaults, manual, standing>>
        /\ counter' = 0
    BY <1>11 DEF ResetSlots
  <2> QED
    BY <1>0, <1>9, <2>1
<1>12. ASSUME NEW n \in 0..MaxLimit, SetLimit(n)
       PROVE  Goal'
  BY <1>0, <1>9, <1>12 DEF SetLimit
<1>13. ASSUME UNCHANGED slotVars PROVE Goal'
  <2>1. UNCHANGED <<at, who, round, seen, slotFaults, manual, standing, counter>>
    BY <1>13 DEF slotVars
  <2> QED
    BY <1>0, <1>9, <2>1
<1>14. Goal'
  <2> HIDE DEF Goal
  <2> QED
    BY <1>1, <1>2, <1>3, <1>4, <1>5, <1>6, <1>7, <1>8, <1>10, <1>11, <1>12, <1>13 DEF SlotNext
<1>15. limit' <= highest'
  <2>1. UNCHANGED <<limit, highest>> \/ \E n \in 0..MaxLimit : SetLimit(n)
    BY DEF SlotNext, slotVars, AskTrial, GrantManually, Look, Swap, Grant, ReadCounter, GiveBack,
           Count, Die, MoveOn, ResetSlots
  <2> QED
    BY <1>0, <2>1, SlotBounds DEF SetLimit
<1>16. SeenInv'
  BY <1>14, <1>15 DEF SeenInv, Sights
<1>17. SlotTypeOK'
  BY <1>14, MarksGrow DEF SlotTypeOK
<1> QED
  BY <1>16, <1>17

-----------------------------------------------------------------------------
(* The count of the slots.                                                 *)

\* What a call leaves behind that finishes, or goes on.
LEMMA FinishHeld ==
  ASSUME SlotTypeOK, NEW g \in Grants, Finish(g)
  PROVE  Cardinality(Held') = Cardinality(Held) - (IF at[g] \in Holding THEN 1 ELSE 0)
<1>1. SlotGoto(g, "idle")
  BY DEF Finish, SlotGoto
<1>2. "idle" \in At \ Holding
  BY DEF At, Holding
<1> QED
  BY <1>1, <1>2, HeldChange, HeldFinite DEF SlotTypeOK

LEMMA NextRoundHeld ==
  ASSUME SlotTypeOK, NEW g \in Grants, at[g] = "swap", NextRound(g)
  PROVE  Cardinality(Held') = Cardinality(Held)
<1>1. at[g] \notin Holding /\ "look" \in At \ Holding
  BY DEF At, Holding
<1>2. CASE SlotGoto(g, "look")
  BY <1>1, <1>2, HeldChange, HeldFinite DEF SlotTypeOK
<1>3. CASE Finish(g)
  BY <1>1, <1>3, FinishHeld, HeldFinite
<1> QED
  BY <1>2, <1>3 DEF NextRound

\* After a mark that Forgets, what is used or held is the new base.
LEMMA ForgetEffect ==
  ASSUME SlotTypeOK, SlotTypeOK', NEW S, Mark(S), S \intersect Forgets # {}
  PROVE  BaseInv' /\ LimitHolds' /\ SlotsCovered'
<1>1. base' = early' + Cardinality(Held') /\ slotMarks' = slotMarks \union S
  BY DEF Mark
<1>2. Cardinality(Held') \in Nat /\ counter' \in Nat /\ early' \in Nat /\ Most' \in Nat
  BY HeldFiniteNext, SlotBounds DEF SlotTypeOK, Most
<1>3. BaseInv' /\ LimitHolds'
  BY <1>1, <1>2 DEF BaseInv, LimitHolds
<1>4. slotMarks' \intersect Forgets # {}
  BY <1>1
<1>5. SlotsCovered'
  BY <1>4 DEF SlotsCovered, Forgets
<1> QED
  BY <1>3, <1>5

\* Every step keeps both directions of the count and the limit.
LEMMA CountStep ==
  ASSUME SlotInv, [SlotNext]_slotVars
  PROVE  BaseInv' /\ LimitHolds' /\ SlotsCovered' /\ SlotsReturned'
<1> DEFINE Goal == BaseInv /\ LimitHolds /\ SlotsCovered /\ SlotsReturned
           n == Cardinality(Held)
<1>a. SlotTypeOK /\ SeenInv /\ SlotTypeOK'
  BY SlotTypeStep DEF SlotInv
<1>n. n \in Nat /\ n' \in Nat
  BY HeldFinite, HeldFiniteNext
<1>c. counter \in Nat /\ early \in Nat /\ manual \in Nat /\ base \in Nat
  BY <1>a DEF SlotTypeOK
<1>m. slotMarks \subseteq slotMarks'
  BY <1>a, MarksGrow
<1>p. PICK top \in Nat : Most \in Nat /\ Most' = top /\ Most <= top
  BY <1>a, MostGrows
<1>b. /\ early + n <= base + counter
      /\ early + n <= base + Most
      /\ slotMarks \intersect Forgets = {} => early + manual + n <= counter
      /\ slotMarks \intersect {"stale", "leaked"} = {} => counter <= early + manual + n
  BY DEF SlotInv, BaseInv, LimitHolds, SlotsCovered, SlotsReturned
<1> HIDE DEF n
<1>r. early + n <= base + top
  BY <1>b, <1>n, <1>c, <1>p
<1>d. /\ early + n - 1 <= base + counter
      /\ early + n - 1 <= base + top
  BY <1>b, <1>r, <1>n, <1>c, <1>p
<1>g. ASSUME /\ early' + n' <= base' + counter'
             /\ early' + n' <= base' + top
             /\ slotMarks' \intersect Forgets = {} => early' + manual' + n' <= counter'
             /\ slotMarks' \intersect {"stale", "leaked"} = {} => counter' <= early' + manual' + n'
      PROVE  Goal'
  BY <1>g, <1>p DEF n, BaseInv, LimitHolds, SlotsCovered, SlotsReturned
<1>1. ASSUME n' = n, counter' = counter, early' = early, manual' = manual, base' = base
      PROVE  Goal'
  <2>1. slotMarks' \intersect Forgets = {} => early' + manual' + n' <= counter'
    BY <1>1, <1>b, <1>m
  <2>2. slotMarks' \intersect {"stale", "leaked"} = {} => counter' <= early' + manual' + n'
    BY <1>1, <1>b, <1>m
  <2>3. early' + n' <= base' + counter'
    BY <1>1, <1>b
  <2>4. early' + n' <= base' + top
    BY <1>1, <1>r
  <2> QED
    BY <1>g, <2>1, <2>2, <2>3, <2>4
<1>2. ASSUME NEW S, Mark(S), S \intersect Forgets # {},
             slotMarks' \intersect {"stale", "leaked"} = {} => counter' <= early' + manual' + n'
      PROVE  Goal'
  BY <1>2, <1>a, ForgetEffect DEF n, SlotsReturned
<1>3. ASSUME NEW g \in Grants, NEW m \in Merchants, AskTrial(g, m) \/ GrantManually(g, m)
      PROVE  Goal'
  <2>1. /\ \E a \in {"look", "tally"} : SlotGoto(g, a)
        /\ at[g] = "idle" /\ UNCHANGED <<counter, early, manual, base>>
    BY <1>3 DEF AskTrial, GrantManually
  <2>2. {"look", "tally"} \subseteq At \ Holding /\ at[g] \notin Holding
    BY <2>1 DEF At, Holding
  <2>3. n' = n
    BY <1>a, <1>n, <2>1, <2>2, HeldChange DEF n, SlotTypeOK
  <2> QED
    BY <1>1, <2>1, <2>3
<1>4. ASSUME NEW g \in Grants, Look(g)
      PROVE  Goal'
  <2>1. SlotGoto(g, "swap") \/ Finish(g)
    BY <1>4 DEF Look, Compare, SeeCounter
  <2>2. at[g] = "look" /\ UNCHANGED <<counter, early, manual>>
    BY <1>4 DEF Look
  <2>3. base' = base
    BY <1>4 DEF Look, Mark, Forgets
  <2>4. "swap" \in At \ Holding /\ at[g] \notin Holding
    BY <2>2 DEF At, Holding
  <2>5. n' = n
    BY <1>a, <1>n, <2>1, <2>4, HeldChange, FinishHeld DEF n, SlotTypeOK
  <2> QED
    BY <1>1, <2>2, <2>3, <2>5
<1>5. ASSUME NEW g \in Grants, Swap(g)
      PROVE  Goal'
  <2>1. at[g] = "swap" /\ seen[g] < Most /\ seen[g] \in Nat /\ UNCHANGED <<early, manual>>
    BY <1>5, <1>a DEF Swap, SeenInv, SlotTypeOK
  <2>2. CASE /\ counter = seen[g] /\ counter' = seen[g] + 1
             /\ SlotGoto(g, "grant") /\ UNCHANGED <<base, slotMarks>>
    <3>1. "grant" \in At /\ "grant" \in Holding /\ at[g] \notin Holding
      BY <2>1 DEF At, Holding
    <3>2. n' = n + 1
      BY <1>a, <1>n, <2>2, <3>1, HeldChange DEF n, SlotTypeOK
    <3>3. early' + n' <= base' + counter' /\ early' + n' <= base' + top
      BY <1>b, <1>n, <1>c, <1>p, <2>1, <2>2, <3>2
    <3>4. slotMarks' \intersect Forgets = {} => early' + manual' + n' <= counter'
      BY <1>b, <1>n, <1>c, <2>1, <2>2, <3>2
    <3>5. slotMarks' \intersect {"stale", "leaked"} = {} => counter' <= early' + manual' + n'
      BY <1>b, <1>n, <1>c, <2>1, <2>2, <3>2
    <3> QED
      BY <1>g, <3>3, <3>4, <3>5
  <2>3. CASE counter # seen[g] /\ NextRound(g) /\ UNCHANGED <<counter, base>>
    BY <1>1, <1>a, <2>1, <2>3, NextRoundHeld DEF n
  <2>4. CASE counter = seen[g] /\ counter' = seen[g] + 1 /\ NextRound(g) /\ Mark({"leaked"})
    <3>1. n' = n
      BY <1>a, <2>1, <2>4, NextRoundHeld DEF n
    <3>2. "leaked" \in slotMarks' /\ counter' = counter + 1 /\ base' = base
      BY <2>4 DEF Mark, Forgets
    <3>3. early' + n' <= base' + counter' /\ early' + n' <= base' + top
      BY <1>b, <1>n, <1>c, <1>p, <2>1, <3>1, <3>2
    <3>4. slotMarks' \intersect Forgets = {} => early' + manual' + n' <= counter'
      BY <1>b, <1>n, <1>c, <1>m, <2>1, <3>1, <3>2
    <3> QED
      BY <1>g, <3>2, <3>3, <3>4
  <2> QED
    BY <1>5, <2>2, <2>3, <2>4 DEF Swap
<1>6. ASSUME NEW g \in Grants, Grant(g)
      PROVE  Goal'
  <2>1. at[g] = "grant" /\ UNCHANGED <<counter, manual>>
    BY <1>6 DEF Grant
  <2>2. at[g] \in Holding /\ "release" \in At \intersect Holding
    BY <2>1 DEF At, Holding
  <2>3. CASE early' = early + 1 /\ Finish(g) /\ UNCHANGED <<base, slotMarks>>
    <3>1. n' = n - 1
      BY <1>a, <1>n, <2>2, <2>3, FinishHeld DEF n
    <3>2. early' + n' = early + n
      BY <1>n, <1>c, <2>3, <3>1
    <3>3. early' + manual' + n' = early + manual + n
      BY <1>n, <1>c, <2>1, <2>3, <3>1
    <3>4. early' + n' <= base' + counter' /\ early' + n' <= base' + top
      BY <1>b, <1>r, <2>1, <2>3, <3>2
    <3>5. slotMarks' \intersect Forgets = {} => early' + manual' + n' <= counter'
      BY <1>b, <2>1, <2>3, <3>3
    <3>6. slotMarks' \intersect {"stale", "leaked"} = {} => counter' <= early' + manual' + n'
      BY <1>b, <2>1, <2>3, <3>3
    <3> QED
      BY <1>g, <3>4, <3>5, <3>6
  <2>4. CASE early' = early + 1 /\ SlotGoto(g, "release") /\ Mark({"unseen"})
    <3>1. n' = n
      BY <1>a, <1>n, <2>2, <2>4, HeldChange DEF n, SlotTypeOK
    <3>2. slotMarks' \intersect {"stale", "leaked"} = {} => counter' <= early' + manual' + n'
      BY <1>b, <1>n, <1>c, <1>m, <2>1, <2>4, <3>1
    <3>3. {"unseen"} \intersect Forgets # {}
      BY DEF Forgets
    <3> QED
      BY <1>2, <2>4, <3>2, <3>3
  <2>5. CASE UNCHANGED early /\ SlotGoto(g, "release") /\ UNCHANGED base
    <3>1. n' = n
      BY <1>a, <1>n, <2>2, <2>5, HeldChange DEF n, SlotTypeOK
    <3> QED
      BY <1>1, <2>1, <2>5, <3>1
  <2> QED
    BY <1>6, <2>3, <2>4, <2>5 DEF Grant
<1>7. ASSUME NEW g \in Grants, ReadCounter(g)
      PROVE  Goal'
  <2>1. UNCHANGED <<counter, early, manual, base>>
    BY <1>7 DEF ReadCounter
  <2>2. CASE at[g] = "release" /\ SlotGoto(g, "giveBack")
    <3>1. at[g] \in Holding /\ "giveBack" \in At \intersect Holding
      BY <2>2 DEF At, Holding
    <3>2. n' = n
      BY <1>a, <1>n, <2>2, <3>1, HeldChange DEF n, SlotTypeOK
    <3> QED
      BY <1>1, <2>1, <3>2
  <2>3. CASE at[g] = "tally" /\ SlotGoto(g, "count")
    <3>1. at[g] \notin Holding /\ "count" \in At \ Holding
      BY <2>3 DEF At, Holding
    <3>2. n' = n
      BY <1>a, <1>n, <2>3, <3>1, HeldChange DEF n, SlotTypeOK
    <3> QED
      BY <1>1, <2>1, <3>2
  <2> QED
    BY <1>7, <2>2, <2>3 DEF ReadCounter
<1>8. ASSUME NEW g \in Grants, GiveBack(g)
      PROVE  Goal'
  <2>1. at[g] \in Holding /\ Mark(Stale(g)) /\ Finish(g) /\ UNCHANGED <<early, manual>>
    BY <1>8 DEF GiveBack, Holding
  <2>2. n' = n - 1
    BY <1>a, <1>n, <2>1, FinishHeld DEF n
  <2>3. CASE counter # seen[g]
    <3>1. Stale(g) = {"stale"} /\ Stale(g) \intersect Forgets # {}
      BY <2>3 DEF Stale, Forgets
    <3>2. "stale" \in slotMarks'
      BY <2>1, <3>1 DEF Mark
    <3> QED
      BY <1>2, <2>1, <3>1, <3>2
  <2>4. CASE counter = seen[g]
    <3>1. slotMarks' = slotMarks /\ base' = base
      BY <2>1, <2>4 DEF Stale, Mark
    <3>2. counter' = IF counter = 0 THEN 0 ELSE counter - 1
      BY <1>8, <2>4 DEF GiveBack
    <3>3. n >= 1
      BY <2>1, <1>n, HeldFinite, FS_EmptySet DEF n, Held
    <3>4. early' + n' <= base' + counter' /\ early' + n' <= base' + top
      <4>2. early' + n' = early + n - 1 /\ base' = base
        BY <1>n, <1>c, <2>1, <2>2, <3>1
      <4>3. early + n - 1 <= base + counter'
        BY <1>b, <1>n, <1>c, <3>2, <3>3
      <4> QED
        BY <1>d, <4>2, <4>3
    <3>5. slotMarks' \intersect Forgets = {} => early' + manual' + n' <= counter'
      BY <1>b, <1>n, <1>c, <2>1, <2>2, <3>1, <3>2, <3>3
    <3>6. slotMarks' \intersect {"stale", "leaked"} = {} => counter' <= early' + manual' + n'
      BY <1>b, <1>n, <1>c, <2>1, <2>2, <3>1, <3>2, <3>3
    <3> QED
      BY <1>g, <3>4, <3>5, <3>6
  <2> QED
    BY <2>3, <2>4
<1>9. ASSUME NEW g \in Grants, Count(g)
      PROVE  Goal'
  <2>1. /\ at[g] = "count" /\ Mark(Stale(g)) /\ Finish(g)
        /\ UNCHANGED early /\ manual' = manual + 1 /\ counter' = seen[g] + 1
    BY <1>9 DEF Count
  <2>2. at[g] \notin Holding
    BY <2>1 DEF Holding
  <2>3. n' = n
    BY <1>a, <1>n, <2>1, <2>2, FinishHeld DEF n
  <2>4. CASE counter # seen[g]
    <3>1. Stale(g) = {"stale"} /\ Stale(g) \intersect Forgets # {}
      BY <2>4 DEF Stale, Forgets
    <3>2. "stale" \in slotMarks'
      BY <2>1, <3>1 DEF Mark
    <3> QED
      BY <1>2, <2>1, <3>1, <3>2
  <2>5. CASE counter = seen[g]
    <3>1. slotMarks' = slotMarks /\ base' = base /\ counter' = counter + 1
      BY <2>1, <2>5 DEF Stale, Mark
    <3>2. early' + n' <= base' + counter' /\ early' + n' <= base' + top
      <4>1. early + n <= base + (counter + 1)
        BY <1>b, <1>n, <1>c
      <4> QED
        BY <1>r, <2>1, <2>3, <3>1, <4>1
    <3>3. slotMarks' \intersect Forgets = {} => early' + manual' + n' <= counter'
      BY <1>b, <1>n, <1>c, <2>1, <2>3, <3>1
    <3>4. slotMarks' \intersect {"stale", "leaked"} = {} => counter' <= early' + manual' + n'
      BY <1>b, <1>n, <1>c, <2>1, <2>3, <3>1
    <3> QED
      BY <1>g, <3>2, <3>3, <3>4
  <2> QED
    BY <2>4, <2>5
<1>10. ASSUME NEW g \in Grants, Die(g)
       PROVE  Goal'
  <2>1. Finish(g) /\ UNCHANGED <<counter, early, manual>>
    BY <1>10 DEF Die
  <2>2. CASE at[g] \in Holding
    <3>1. Mark({"leaked"})
      BY <1>10, <2>2 DEF Die
    <3>2. n' = n - 1 /\ "leaked" \in slotMarks' /\ base' = base
      BY <1>a, <1>n, <2>1, <2>2, <3>1, FinishHeld DEF n, Mark, Forgets
    <3>3. early' + n' <= base' + counter' /\ early' + n' <= base' + top
      <4>2. early' + n' = early + n - 1
        BY <1>n, <1>c, <2>1, <3>2
      <4> QED
        BY <1>d, <2>1, <3>2, <4>2
    <3>4. slotMarks' \intersect Forgets = {} => early' + manual' + n' <= counter'
      BY <1>b, <1>n, <1>c, <1>m, <2>1, <3>2
    <3> QED
      BY <1>g, <3>2, <3>3, <3>4
  <2>3. CASE at[g] \notin Holding
    <3>1. Mark({})
      BY <1>10, <2>3 DEF Die
    <3>2. n' = n /\ base' = base
      BY <1>a, <1>n, <2>1, <2>3, <3>1, FinishHeld DEF n, Mark
    <3> QED
      BY <1>1, <2>1, <3>2
  <2> QED
    BY <2>2, <2>3
<1>11. ASSUME NEW m \in Merchants, MoveOn(m)
       PROVE  Goal'
  <2>1. n' = n
    BY <1>11, HeldSame DEF MoveOn, n
  <2> QED
    BY <1>1, <1>11, <2>1 DEF MoveOn
<1>12. CASE ResetSlots
  <2>1. n' = n
    BY <1>12, HeldSame DEF ResetSlots, n
  <2>2. counter' = 0 /\ UNCHANGED <<early, manual>> /\ Mark({"reset"})
    BY <1>12 DEF ResetSlots
  <2>3. {"reset"} \intersect Forgets # {}
    BY DEF Forgets
  <2> QED
    BY <1>2, <1>n, <1>c, <2>1, <2>2, <2>3
<1>13. ASSUME NEW k \in 0..MaxLimit, SetLimit(k)
       PROVE  Goal'
  <2>1. n' = n
    BY <1>13, HeldSame DEF SetLimit, n
  <2> QED
    BY <1>1, <1>13, <2>1 DEF SetLimit
<1>14. CASE UNCHANGED slotVars
  <2>1. n' = n
    BY <1>14, HeldSame DEF slotVars, n
  <2> QED
    BY <1>1, <1>14, <2>1 DEF slotVars
<1> QED
  BY <1>3, <1>4, <1>5, <1>6, <1>7, <1>8, <1>9, <1>10, <1>11, <1>12, <1>13, <1>14 DEF SlotNext

-----------------------------------------------------------------------------
(* The theorems.                                                           *)

LEMMA SlotInitially == SlotInit => SlotInv
<1> SUFFICES ASSUME SlotInit PROVE SlotInv
  OBVIOUS
<1>1. Held = {}
  BY DEF SlotInit, Held, Holding
<1>2. Cardinality(Held) = 0
  BY <1>1, FS_EmptySet
<1>3. SlotTypeOK /\ SeenInv
  BY SlotBounds DEF SlotInit, SlotTypeOK, SeenInv, At, Rounds, SlotMark
<1>4. BaseInv /\ SlotsCovered /\ SlotsReturned
  BY <1>2, SlotBounds DEF SlotInit, BaseInv, SlotsCovered, SlotsReturned
<1>5. LimitHolds
  <2>1. Most \in Nat
    BY <1>3, SlotBounds DEF SlotTypeOK, Most
  <2> QED
    BY <1>2, <2>1 DEF SlotInit, LimitHolds
<1> QED
  BY <1>3, <1>4, <1>5 DEF SlotInv

LEMMA SlotInductive == SlotInv /\ [SlotNext]_slotVars => SlotInv'
BY SlotTypeStep, CountStep DEF SlotInv

\* The inductive invariant holds in every reachable state.
THEOREM SlotInvariance == SlotSpec => []SlotInv
BY SlotInitially, SlotInductive, PTL DEF SlotSpec

\* Every variable of the counter, the merchants and the calls keeps its type.
THEOREM SlotTypeCorrect == SlotSpec => []SlotTypeOK
<1>1. SlotInv => SlotTypeOK
  BY DEF SlotInv
<1> QED
  BY <1>1, SlotInvariance, PTL

\* The counter is exact in each direction, with the exceptions named there.
THEOREM SlotsAreExact == SlotSpec => []SlotsExact
<1>1. SlotInv => SlotsExact
  BY DEF SlotInv, SlotsExact
<1> QED
  BY <1>1, SlotInvariance, PTL

\* The program takes no more slots than the limit has ever been, and as many
\* again after each reset, outdated write or trial given unseen, however many
\* calls race and whatever administrators do.
THEOREM LimitIsKept == SlotSpec => []LimitHolds
<1>1. SlotInv => LimitHolds
  BY DEF SlotInv
<1> QED
  BY <1>1, SlotInvariance, PTL

-----------------------------------------------------------------------------
(* MCAccounts: the three side by side.                                     *)

\* A step of the whole is a step of one module, and leaves the others alone.
LEMMA AccountStep ==
  [Next]_<<part, subVars, slotVars, orderVars>>
    => [SubNext]_subVars /\ [SlotNext]_slotVars /\ [OrderNext]_orderVars
BY DEF Next

\* Each module sees one of its own behaviours, whichever part was chosen.
THEOREM AccountsAreModules == Spec => SubSpec /\ SlotSpec /\ OrderSpec
<1>1. Init => SubInit /\ SlotInit /\ OrderInit
  BY DEF Init
<1> QED
  BY <1>1, AccountStep, PTL DEF Spec, SubSpec, SlotSpec, OrderSpec

\* The variables of the three modules keep their types.
THEOREM AccountsTypeCorrect == Spec => []TypeOK
<1>1. SubTypeOK /\ SlotTypeOK /\ OrderTypeOK => TypeOK
  BY DEF TypeOK
<1> QED
  BY <1>1, AccountsAreModules, SubTypeCorrect, SlotTypeCorrect, OrderTypeCorrect, PTL
=============================================================================
