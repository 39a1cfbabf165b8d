----------------------------- MODULE OrderNumbers -----------------------------
(***************************************************************************)
(* What order numbering promises, with no database in sight.               *)
(*                                                                         *)
(* Each counter (one location on one business date) hands out 1, 2, 3, ... *)
(* to the orders that are really stored: no number twice, none skipped.    *)
(* `issued[k]` is the set of numbers stored orders of counter k carry.     *)
(* OrderNumbering is shown to implement this specification.                *)
(***************************************************************************)
EXTENDS Naturals

CONSTANT Key        \* one element per (locationId, businessDate)

VARIABLE issued

Init == issued = [k \in Key |-> {}]

\* One more order of counter k is stored, under the next number: n follows
\* the numbers 1..n-1 that are already out.
Issue(k) ==
    \E n \in {1} \cup {i + 1 : i \in issued[k]} :
        /\ issued[k] = 1..(n - 1)
        /\ issued' = [issued EXCEPT ![k] = 1..n]

Next == \E k \in Key : Issue(k)

Spec == Init /\ [][Next]_issued

===============================================================================
