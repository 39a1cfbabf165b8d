------------------------------ MODULE MCPayments ------------------------------
(* Two payments of one order and two handlers beside the webhook.           *)
EXTENDS PaymentsProps, TLC

CONSTANTS p1, p2, h1, h2

\* Payments are interchangeable, and so are handlers.
Symmetry == Permutations({p1, p2}) \cup Permutations({h1, h2})
===============================================================================
