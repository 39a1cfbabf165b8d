--------------------------- MODULE MCOrderNumbering ---------------------------
(* Four diners order at once, three of them at one location. The third is    *)
(* needed: the first two are kept apart by the row one of them inserts.      *)
EXTENDS OrderNumberingProps, TLC

CONSTANTS r1, r2, r3, r4, k1, k2

MCKeyOf == (r1 :> k1) @@ (r2 :> k1) @@ (r3 :> k1) @@ (r4 :> k2)
===============================================================================
