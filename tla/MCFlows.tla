-------------------------------- MODULE MCFlows --------------------------------
(***************************************************************************)
(* The instances of WooSync, WebhookIntake and HistorySync that TLC        *)
(* checks.  The modules share no variable, so that a behaviour is one of   *)
(* one module: part is chosen at the beginning, and the others stay in     *)
(* their initial states.  Where two of everything is more than TLC needs   *)
(* for a question, a part has two of one kind and one of the other.        *)
(***************************************************************************)
EXTENDS WooSync, WebhookIntake, HistorySync, TLC

CONSTANTS o1, o2, q1, q2, p1, p2, h1, h2, t1, t2, w1, w2

VARIABLE part

Init ==
  /\ part \in {"polls", "limit", "hooks", "full", "beside"}
  /\ WooInit /\ HookInit
  /\ IF part = "beside" THEN HistoryLater ELSE HistoryInit

\* What a part leaves out.
Within ==
  /\ part = "polls" => sync'[o2] = "none"
  /\ part = "hooks" => version'[p2] <= 1
  /\ part = "limit" => poll'[q2] = "idle"
  /\ part \in {"full", "beside"} => changed'[p2] = 1
  /\ part = "full" =>
       /\ pass'[w2] = "idle"
       /\ clock' < MaxClock - 1 \/ stage = "done" \/ pass'[w1] = "idle"
       /\ historyFaults' > 0 =>
            \/ clock' < MaxClock - 1 /\ stage' = "done"
            \/ clock' < MaxClock /\ pass'[w1] = "idle"
  /\ part = "beside" =>
       /\ clock' < MaxClock \/ (kind'[w2] = "targeted" /\ began'[w2] <= Start)
       /\ historyFaults' > 0 => pass'[w2] = "idle"
       /\ \A w \in Workers : p2 \notin batch'[w] /\ p2 # current'[w]

Next ==
  /\ UNCHANGED part
  /\ \/ part \in {"polls", "limit"} /\ WooNext /\ UNCHANGED <<hookVars, historyVars>>
     \/ part = "hooks" /\ HookNext /\ UNCHANGED <<wooVars, historyVars>>
     \/ part \in {"full", "beside"} /\ HistoryNext /\ UNCHANGED <<wooVars, hookVars>>
  /\ Within

\* The plugin polls periodically, and a run of it goes on unless it dies.
Poll(p) ==
  /\ part \in {"polls", "limit"} /\ PollStep(p)
  /\ UNCHANGED <<part, hookVars, historyVars>>
  /\ Within

Fairness == \A p \in Polls : WF_wooVars(Poll(p))

Spec == Init /\ [][Next]_<<part, wooVars, hookVars, historyVars>> /\ Fairness

\* The three type invariants (WooSync, WebhookIntake, HistorySync).
TypeOK == WooTypeOK /\ HookTypeOK /\ HistoryTypeOK
=============================================================================
