--------------------------- MODULE MCOrderLifecycle ---------------------------
(* Overlapping calls on one order: no step looks at two of them.            *)
EXTENDS OrderLifecycleProps, TLC

CONSTANTS c1, c2, c3

\* The calls are interchangeable.
Symmetry == Permutations({c1, c2, c3})
===============================================================================
