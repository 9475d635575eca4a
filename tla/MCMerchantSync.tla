--------------------------- MODULE MCMerchantSync ---------------------------
(* The instances of MerchantSync that TLC checks.                          *)
EXTENDS MerchantSync, TLC

CONSTANTS p1, p2, o1, o2

\* Only for the runs without a liveness property.
Symmetry == Permutations(Processes) \union Permutations(Origins)

\* One process has not run and is not asked to.
Alone == \E p \in Processes : asked[p] = {} /\ ~stopping[p] /\ retry[p] = "none"

\* Two requests with or without a fault, of two processes that run the same single
\* origin after it, or of one; three requests and a crash of one process; or three
\* requests of two processes that run the same single origin.  The geography is
\* skipped when there is a fault or a third request.
Few ==
  /\ faults > 0 \/ asks = 3 => \A p \in Processes : ~geo[p]
  /\ faults > 0 => Alone \/ \E o \in Origins : \A p \in Processes : asked[p] \subseteq {o}
  /\ asks = 3 =>
       \/ Alone /\ (faults = 0 \/ "crash" \in marks)
       \/ faults = 0 /\ \E o \in Origins : \A p \in Processes : asked[p] = {o}
=============================================================================
