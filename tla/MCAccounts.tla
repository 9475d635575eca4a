------------------------------ MODULE MCAccounts ------------------------------
(***************************************************************************)
(* The instances of Subscription, TrialSlots and OrderSync that TLC        *)
(* checks: a merchant's account here, and one at a courier.  The modules   *)
(* share no variable, so that a behaviour is one of one module: part is    *)
(* chosen at the beginning, and the others stay in their initial states.   *)
(***************************************************************************)
EXTENDS Subscription, TrialSlots, OrderSync, TLC

CONSTANTS c1, c2, m1, m2, p1, p2, r1, r2

VARIABLE part

Init ==
  /\ part \in {"subscription", "slots", "orders", "streak"}
  /\ SubInit /\ SlotInit /\ OrderInit
  /\ part # "slots" => limit = 0

\* What a part leaves out.  In orders no run fails for good; r2 is a full sync,
\* which is not tried again; the page of p1 comes first; rows are lost of p1 only,
\* which concern no other, and no run is then tried again.
Within ==
  /\ part = "orders" =>
       /\ streak' = 0
       /\ attempt'[r2] <= 1 /\ sinceUpdated'[r2] = 0 /\ sinceCreated'[r2] = 0
       /\ \A r \in Runs : unread'[r] # {p1}
       /\ <<"dropped", p2>> \notin slips'
       /\ <<"dropped", p1>> \in slips' => \A r \in Runs : attempt'[r] <= 1
  /\ part = "streak" => moment' = 0

Next ==
  /\ UNCHANGED part
  /\ \/ part = "subscription" /\ SubNext /\ UNCHANGED <<slotVars, orderVars>>
     \/ part = "slots" /\ SlotNext /\ UNCHANGED <<subVars, orderVars>>
     \/ part \in {"orders", "streak"} /\ OrderNext /\ UNCHANGED <<subVars, slotVars>>
  /\ Within

Spec == Init /\ [][Next]_<<part, subVars, slotVars, orderVars>>

\* The three type invariants (Subscription, TrialSlots, OrderSync).
TypeOK == SubTypeOK /\ SlotTypeOK /\ OrderTypeOK

\* Calls are interchangeable, and so are merchants.
Symmetry == Permutations(SubCalls) \union Permutations(Merchants)

\* Bound: a behaviour is followed until the third of the four marks of Subscription,
\* when few properties are left that no mark excuses.
FewMarks == Cardinality(subMarks) <= 2
=============================================================================
