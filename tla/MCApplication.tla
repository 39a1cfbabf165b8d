----------------------------- MODULE MCApplication -----------------------------
EXTENDS Application

const_TableRange == {<<1, 12>>, <<1, 9>>, <<3, 1>>}
const_Subscribed == {<<"SMART", "ACTIVE">>, <<"SMART", "CANCELED">>}

\* The plain setting has a default, the secret one has none.
const_Environment == [s \in Setting |-> IF s \in Plain THEN CHOOSE v \in Value : TRUE ELSE Absent]

\* An owner of one restaurant and a cook of another; a third is yet to be founded.
const_Roster == {[tenant |-> "a", person |-> "ann", role |-> "OWNER"],
                 [tenant |-> "b", person |-> "kit", role |-> "KITCHEN"]}
const_PinCode == [m \in {m \in const_Roster : m.person = "kit"} |-> "1234"]
=============================================================================
