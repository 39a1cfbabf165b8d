-------------------------------- MODULE Plans --------------------------------
(***************************************************************************)
(* What each plan grants: modules/billing/plans.ts and the check of        *)
(* modules/billing/entitlements.ts. Feature flags are left out: can() has  *)
(* no caller in src/.                                                      *)
(* A definition marked "mutant" is a wrong variant of the next one.        *)
(***************************************************************************)
EXTENDS Integers

PLAN_IDS == {"FREE", "SMART", "PRO"}

\* The code's null: no limit.
Unlimited == -1

PLANS ==
    [FREE  |-> [locations |-> 1, menuItems |-> Unlimited, tables |-> 10,
                staffAccounts |-> 2, platformFeeBps |-> 100],
     SMART |-> [locations |-> 3, menuItems |-> Unlimited, tables |-> Unlimited,
                staffAccounts |-> 10, platformFeeBps |-> 0],
     PRO   |-> [locations |-> Unlimited, menuItems |-> Unlimited, tables |-> Unlimited,
                staffAccounts |-> Unlimited, platformFeeBps |-> 0]]

\* PAST_DUE is the grace period: the plan keeps working.
ENTITLED_STATUSES == {"TRIALING", "ACTIVE", "PAST_DUE"}

\* The plan a tenant is entitled to, whatever plan is on its row.
effectivePlan(t) ==
    IF t.plan \in PLAN_IDS /\ (t.plan = "FREE" \/ t.status \in ENTITLED_STATUSES)
    THEN t.plan ELSE "FREE"

limitFor(t, limit) == PLANS[effectivePlan(t)][limit]

\* assertCanCreate's verdict on `adding` more beside `count`.
CanCreateOne(t, limit, count, adding) ==                \* mutant
    limitFor(t, limit) = Unlimited \/ count + 1 <= limitFor(t, limit)
CanCreate(t, limit, count, adding) ==
    limitFor(t, limit) = Unlimited \/ count + adding <= limitFor(t, limit)

\* checkLimit's verdict, for the billing page.
withinLimit(t, limit, count) ==
    limitFor(t, limit) = Unlimited \/ count < limitFor(t, limit)

\* Math.round rounds a half up.
platformFeeCents(t, total) ==
    LET bps == PLANS[effectivePlan(t)].platformFeeBps IN
    IF bps = 0 THEN 0 ELSE (total * bps + 5000) \div 10000
=============================================================================
