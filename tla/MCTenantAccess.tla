---------------------------- MODULE MCTenantAccess ----------------------------
EXTENDS TenantAccess

\* An owner of one restaurant and a cook of another; a third is yet to be founded.
const_Roster == {[tenant |-> "a", person |-> "ann", role |-> "OWNER"],
                 [tenant |-> "b", person |-> "kit", role |-> "KITCHEN"]}
const_PinCode == [m \in {m \in const_Roster : m.person = "kit"} |-> "1234"]
=============================================================================
