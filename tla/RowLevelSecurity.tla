--------------------------- MODULE RowLevelSecurity ---------------------------
(***************************************************************************)
(* The row level security policies of prisma/migrations as predicates on a *)
(* row and on the settings (GUCs) of the transaction that touches it.      *)
(* Every policy is permissive, so a statement sees the rows that any of    *)
(* the table's policies for it admits. All tenant tables FORCE row level   *)
(* security: the table's owner is held to it too, and only a superuser or  *)
(* a role with BYPASSRLS is not.                                           *)
(***************************************************************************)

CONSTANT Unset          \* a setting nobody made: current_setting(.., true) is ''

\* The settings of a transaction that set none, such as every statement of
\* the raw client outside a transaction of its own.
NoSettings ==
    [tenant |-> Unset, user |-> Unset, platformAdmin |-> FALSE,
     staffLogin |-> FALSE, staffTenant |-> Unset,
     storefront |-> FALSE, slug |-> Unset]

\* tenant_isolation, on every tenant table: for reading and, as WITH CHECK,
\* for what is written.
TenantIsolation(g, owner) == g.tenant # Unset /\ owner = g.tenant

\* The rows of "tenants" a SELECT may see. row has id, slug and deleted;
\* memberships is the set of pairs of a tenant and a user.
TenantSelect(g, row, memberships) ==
    \/ TenantIsolation(g, row.id)
    \/ /\ g.tenant = Unset                              \* bootstrap_tenant_lookup
       /\ g.user # Unset
       /\ <<row.id, g.user>> \in memberships
    \/ g.platformAdmin                                  \* platform_admin_read
    \/ /\ g.tenant = Unset                              \* staff_login_tenant_lookup
       /\ g.staffLogin
    \/ /\ g.tenant = Unset                              \* storefront_slug_lookup
       /\ g.storefront
       /\ row.slug = g.slug
       /\ ~row.deleted

\* The rows of "memberships" a SELECT may see.
MembershipSelect(g, tenant, user) ==
    \/ TenantIsolation(g, tenant)
    \/ g.tenant = Unset /\ g.user # Unset /\ user = g.user    \* bootstrap_owner_lookup
    \/ g.tenant = Unset /\ g.staffLogin /\ tenant = g.staffTenant

\* The rows of "tables" a SELECT may see: public_code_lookup admits a live
\* table to a transaction with no tenant.
TableSelect(g, tenant, live) == TenantIsolation(g, tenant) \/ (g.tenant = Unset /\ live)

\* Rows of orders and order_items, and of payments: readable whenever no
\* tenant is set (track_token_lookup, bootstrap_payment_lookup).
TrackedSelect(g, tenant) == TenantIsolation(g, tenant) \/ g.tenant = Unset

\* No policy but tenant_isolation is FOR INSERT, UPDATE or DELETE.
MayWrite(g, owner) == TenantIsolation(g, owner)
=============================================================================
