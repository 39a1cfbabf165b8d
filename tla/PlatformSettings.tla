--------------------------- MODULE PlatformSettings ---------------------------
(***************************************************************************)
(* Settings the operator changes while servers run:                        *)
(* modules/platform/settings.service.ts with lib/secret-box.ts, the forms  *)
(* and actions of app/admin/settings, and instrumentation.ts.              *)
(*                                                                         *)
(* Every server keeps a snapshot of platform_settings, which it reads      *)
(* again when a page asks and a minute has passed, and after a save of its *)
(* own. One group of settings is modelled; what a value means to its       *)
(* readers (numbers, prices, landing copy) is left out.                    *)
(* A definition marked "mutant" is a wrong variant of the next one.        *)
(***************************************************************************)
EXTENDS Naturals, FiniteSets

CONSTANTS
    Plain, Secret,      \* the group's settings, by kind
    Value,
    Instance,           \* servers
    Operator,           \* operators with the form open
    Environment,        \* what a setting falls back to, or Absent
    Absent,             \* no value
    Unreadable,         \* encrypted under another AUTH_SECRET
    Mask,               \* a secret as the form shows it
    MaxSettingSaves,    \* bound: forms saved
    MaxSettingFailures  \* bound: failed statements, restarts, rotations

Setting == Plain \cup Secret
TypedValue == Value \cup {Absent}

ASSUME SettingBounds == {MaxSettingSaves, MaxSettingFailures} \subseteq Nat
ASSUME EnvironmentType == Environment \in [Setting -> TypedValue]

VARIABLES
    stored,             \* platform_settings
    server,             \* every server's snapshot, its age, and a load under way
    form,               \* every operator's form, and its save
    settingSaves,
    settingFailures

settingsVars == <<stored, server, form, settingSaves, settingFailures>>

NoLoad == [s \in {} |-> Absent]
Keep == "keep"
NoForm == [at |-> "none", on |-> CHOOSE i \in Instance : TRUE,
           edited |-> {}, blank |-> {}, values |-> [s \in Setting |-> Keep], rows |-> NoLoad]

\* decryptSecret: a secret that cannot be decrypted is unset.
Decrypted(value) == IF value = Unreadable THEN Absent ELSE value

\* What a load makes of the rows.
Readable == [s \in Setting |-> Decrypted(stored[s])]

\* register of instrumentation.ts loads them before the first request.
Booted(snapshot) == [snapshot |-> snapshot, age |-> "fresh", load |-> NoLoad]
NothingLoaded == [s \in Setting |-> Absent]

SettingsInit ==
    /\ stored = NothingLoaded
    /\ server = [i \in Instance |-> Booted(NothingLoaded)]
    /\ form = [o \in Operator |-> NoForm]
    /\ settingSaves = 0
    /\ settingFailures = 0

Breaks == settingFailures < MaxSettingFailures /\ settingFailures' = settingFailures + 1

\* getSetting: the database, then the environment or the built-in default.
getSetting(i, s) ==
    IF server[i].snapshot[s] # Absent THEN server[i].snapshot[s] ELSE Environment[s]

-----------------------------------------------------------------------------
(* Loading                                                                  *)

LoadedOnce(i) == server[i].age # "never"                \* mutant
settingsLoaded(i) == server[i].age = "fresh"

\* A minute passes.
Expire(i) ==
    /\ server[i].age = "fresh"
    /\ server' = [server EXCEPT ![i].age = "old"]
    /\ UNCHANGED <<stored, form, settingSaves, settingFailures>>

\* A page of this server that asks for fresh settings: loadSettings' query, and
\* later its result.
LoadForPage(i) ==
    /\ ~settingsLoaded(i) /\ server[i].load = NoLoad
    /\ server' = [server EXCEPT ![i].load = Readable]
    /\ UNCHANGED <<stored, form, settingSaves, settingFailures>>

LoadDone(i) ==
    /\ server[i].load # NoLoad
    /\ server' = [server EXCEPT ![i] = Booted(server[i].load)]
    /\ UNCHANGED <<stored, form, settingSaves, settingFailures>>

\* The query fails: the snapshot stays as it is.
LoadFails(i) ==
    /\ server[i].load # NoLoad /\ Breaks
    /\ server' = [server EXCEPT ![i].load = NoLoad]
    /\ UNCHANGED <<stored, form, settingSaves>>

\* The server starts again: it has the rows, or nothing when the query fails.
Restarted(i) == {Booted(Readable), [Booted(NothingLoaded) EXCEPT !.age = "never"]}

Restart(i) ==
    /\ Breaks
    /\ \E new \in Restarted(i) : server' = [server EXCEPT ![i] = new]
    /\ form' = [o \in Operator |->
                   IF form[o].on = i /\ form[o].at # "page" THEN NoForm ELSE form[o]]
    /\ UNCHANGED <<stored, settingSaves>>

\* AUTH_SECRET is changed, which every server reads when it starts.
RotateAuthSecret ==
    /\ Breaks
    /\ stored' = [s \in Setting |-> IF s \in Secret /\ stored[s] # Absent THEN Unreadable
                                    ELSE stored[s]]
    /\ server' = [i \in Instance |-> Booted([s \in Setting |-> Decrypted(stored'[s])])]
    /\ form' = [o \in Operator |-> NoForm]
    /\ UNCHANGED settingSaves

-----------------------------------------------------------------------------
(* Saving                                                                   *)

\* maskSecret: whether a secret is set, and not what it is.
Masked(value) == IF value = Absent THEN Absent ELSE Mask

\* renderSettings: what is in effect, a secret as its mask.
Shown(i) ==
    [s \in Setting |-> IF s \in Secret THEN Masked(getSetting(i, s)) ELSE getSetting(i, s)]

\* The secrets the page shows no value of: an empty field is saved as none.
BlankSecrets(i) == {s \in Secret : Shown(i)[s] = Absent}

\* SettingsSurface asks for fresh settings first; with the database out of
\* reach it shows those it has.
OpenSettings(o, i) ==
    /\ form[o].at = "none" /\ settingSaves < MaxSettingSaves
    /\ \/ settingsLoaded(i) /\ UNCHANGED settingFailures
       \/ ~settingsLoaded(i) /\ Breaks
    /\ form' = [form EXCEPT ![o] = [NoForm EXCEPT !.at = "page", !.on = i,
                                            !.blank = BlankSecrets(i), !.values = Shown(i)]]
    /\ UNCHANGED <<stored, server, settingSaves>>

\* saveSettingsAction takes the whole group as the form has it, but a secret
\* that is still its mask.
WithMasks(values) == values                             \* mutant
WithoutMasks(values) == [s \in Setting |-> IF values[s] = Mask THEN Keep ELSE values[s]]

\* The operator edits one setting, or none, and saves.
SubmitForm(o) ==
    /\ form[o].at = "page"
    /\ \E s \in Setting, v \in TypedValue \cup {Keep} :
         form' = [form EXCEPT ![o].at = "writing",
                              ![o].edited = IF v = Keep THEN {} ELSE {s},
                              ![o].values = WithoutMasks(IF v = Keep THEN @ ELSE [@ EXCEPT ![s] = v])]
    /\ settingSaves' = settingSaves + 1
    /\ UNCHANGED <<stored, server, settingFailures>>

\* The rows are written side by side: an upsert, or a deletion for a blank.
WriteSetting(o, s) ==
    /\ form[o].at \in {"writing", "failed"} /\ form[o].values[s] # Keep
    /\ stored' = [stored EXCEPT ![s] = form[o].values[s]]
    /\ form' = [form EXCEPT ![o].values[s] = Keep]
    /\ UNCHANGED <<server, settingSaves, settingFailures>>

\* Promise.all gives up with the first write that fails; the others go on.
WriteFails(o, s) ==
    /\ form[o].at = "writing" /\ form[o].values[s] # Keep /\ Breaks
    /\ form' = [form EXCEPT ![o].at = "failed", ![o].values[s] = Keep]
    /\ UNCHANGED <<stored, server, settingSaves>>

Written(o) == \A s \in Setting : form[o].values[s] = Keep

\* The load that follows a save, whose failure saveSettings does not notice.
SaveLoads(o) ==
    /\ form[o].at = "writing" /\ Written(o)
    /\ form' = [form EXCEPT ![o].at = "loading", ![o].rows = Readable]
    /\ UNCHANGED <<stored, server, settingSaves, settingFailures>>

SaveLoaded(o) ==
    /\ form[o].at = "loading"
    /\ \/ server' = [server EXCEPT ![form[o].on].snapshot = form[o].rows,
                                   ![form[o].on].age = "fresh"] /\ UNCHANGED settingFailures
       \/ Breaks /\ UNCHANGED server
    /\ form' = [form EXCEPT ![o] = NoForm]
    /\ UNCHANGED <<stored, settingSaves>>

SaveOver(o) ==
    /\ form[o].at = "failed" /\ Written(o)
    /\ form' = [form EXCEPT ![o] = NoForm]
    /\ UNCHANGED <<stored, server, settingSaves, settingFailures>>

SettingsNext ==
    \/ \E i \in Instance : \/ Expire(i) \/ LoadForPage(i) \/ LoadDone(i) \/ LoadFails(i) \/ Restart(i)
                           \/ \E o \in Operator : OpenSettings(o, i)
    \/ \E o \in Operator : \/ SubmitForm(o) \/ SaveLoads(o) \/ SaveLoaded(o) \/ SaveOver(o)
                           \/ \E s \in Setting : WriteSetting(o, s) \/ WriteFails(o, s)
    \/ RotateAuthSecret

-----------------------------------------------------------------------------
SettingsTypeOK ==
    /\ stored \in [Setting -> TypedValue \cup {Unreadable}]
    /\ \A i \in Instance : /\ server[i].snapshot \in [Setting -> TypedValue]
                           /\ server[i].age \in {"never", "fresh", "old"}
    /\ \A o \in Operator : form[o].at \in {"none", "page", "writing", "failed", "loading"}

\* "A minute is short enough that nobody notices the lag" (settings.service.ts):
\* every server comes to serve what is stored, whichever server saved it, however
\* saves and loads overlapped and whatever failed or restarted, once nobody saves.
ServersAgreeInTheEnd == <>[](\A i \in Instance : server[i].snapshot = Readable)

\* Saving a group leaves alone the secrets in it that the operator did not edit
\* ("submitting the mask unchanged must not overwrite the real key with a row of
\* dots", settings.service.ts), but for those its page showed no value of, which
\* it empties. A page shows none of a stored secret when it was rendered before the
\* secret was saved, or within the minute in which its server did not read what
\* another one saved, or by a server that started without the database and could
\* not load since, or after AUTH_SECRET was changed, when no stored secret can be
\* decrypted.
SecretsSurvive ==
    [][\A s \in Secret : stored'[s] # stored[s] =>
         \/ stored'[s] = Unreadable
         \/ \E o \in Operator :
              /\ form[o].values[s] = stored'[s]
              /\ s \in form[o].edited \/ (s \in form[o].blank /\ stored'[s] = Absent)]_settingsVars
=============================================================================
