------------------------------ MODULE MCBilling ------------------------------
EXTENDS BillingProps, TLC

const_Grant == {<<"PRO", "ACTIVE">>, <<"FREE", "ACTIVE">>}

\* Calls, and deliveries, are interchangeable; no liveness is checked.
const_Symmetry == Permutations(Call) \cup Permutations(Hook)
=============================================================================
