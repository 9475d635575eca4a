----------------------------- MODULE MCShipment -----------------------------
(* The instance of Shipment that TLC checks.                               *)
EXTENDS Shipment, TLC

CONSTANTS d1, d2, q1, q2, r1

\* Requests are interchangeable, and so are the deciders.
Symmetry == Permutations(Deciders) \union Permutations(Requests)
=============================================================================
