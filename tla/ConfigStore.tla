----------------------------- MODULE ConfigStore -----------------------------
(***************************************************************************)
(* The layered configuration: defaults and config.toml, overridden by the  *)
(* rows of config.sqlite (config.py: load_config, config_store/store.py),  *)
(* and its two writers at run time, the operator's guardrail edits         *)
(* (control/controller.py) and the tuner that applies what the manager LLM *)
(* suggests (strategy/autotune.py, autotune_parse.py).                     *)
(***************************************************************************)
EXTENDS Integers, Sequences, FiniteSets

CONSTANTS
    Settings,     \* <<section, field>>
    Tunable,      \* those in STRATEGY_FIELDS and TOOLS_FIELDS
    Guarded,      \* those in GUARDRAIL_FIELDS
    SettingValues,
    NoRow,
    TuneRequests  \* tuning blocks of LLM answers: sequences of [setting, value]

ASSUME SettingsAssumption ==
    /\ Tunable \subseteq Settings /\ Guarded \subseteq Settings /\ Tunable \cap Guarded = {}
    /\ NoRow \notin SettingValues
    /\ TuneRequests \subseteq Seq([setting : Settings, value : SettingValues])

VARIABLES
    toml,      \* config.toml over the defaults
    rows,      \* table config of the database file
    running,   \* the configuration of the process; NoRow before the first start
    attached,  \* the process has the database, not the memory it falls back to
    unsaved,   \* history: settings whose last change did not reach the database
    unread     \* history: sections that the last start could not read

configVars == <<toml, rows, running, attached, unsaved, unread>>

Sections == {s[1] : s \in Settings}
SectionOf(s) == {t \in Settings : t[1] = s[1]}

ConfigTypeOK ==
    /\ toml \in [Settings -> SettingValues]
    /\ rows \in [Settings -> SettingValues \cup {NoRow}]
    /\ running \in [Settings -> SettingValues] \cup {[s \in Settings |-> NoRow]}
    /\ attached \in BOOLEAN
    /\ unsaved \subseteq Settings /\ unread \subseteq Sections

ConfigInit ==
    /\ toml \in [Settings -> SettingValues]
    /\ rows = [s \in Settings |-> NoRow] /\ running = rows
    /\ attached = TRUE /\ unsaved = {} /\ unread = {}

-----------------------------------------------------------------------------
(* Start. *)

\* Mutant: config.toml is read last.
LayeredTomlLast(stored) == toml

\* _build_section: a row wins over config.toml.
Layered(stored) == [s \in Settings |-> IF stored[s] # NoRow THEN stored[s] ELSE toml[s]]

\* get_section: the rows, but those of a section whose query fails count as none.
Read(stored, missed) ==
    [s \in Settings |-> IF s[1] \in missed THEN NoRow ELSE stored[s]]

\* has_any and _section_has_any: a probe that fails finds nothing.
Bare(stored, settings, blind) == blind \/ \A s \in settings : stored[s] = NoRow

\* snapshot_if_empty writes every section of a store that seems bare in one transaction,
\* then add_missing_sections each section that seems bare in one of its own. One that
\* fails is only logged; dumped are the sections that one of the two has written.
Snapshotted(stored, merged, blind, dumped) ==
    [s \in Settings |->
        IF Bare(stored, SectionOf(s), blind) /\ s[1] \in dumped THEN merged[s] ELSE stored[s]]

\* load_config in a new process. If the file does not open the store is an empty one in
\* memory, and what is written to it ends with the process.
Boot(opens, missed, blind, dumped) ==
    /\ running' = Layered(IF opens THEN Read(rows, missed) ELSE [s \in Settings |-> NoRow])
    /\ rows' = IF opens THEN Snapshotted(rows, running', blind, dumped) ELSE rows
    /\ attached' = opens /\ unsaved' = {} /\ unread' = missed
    /\ UNCHANGED toml

Start(opens) ==
    \E missed, dumped \in SUBSET (IF opens THEN Sections ELSE {}), blind \in BOOLEAN :
        Boot(opens, missed, blind, dumped)

\* Someone edits config.toml.
EditToml(s, v) ==
    /\ toml' = [toml EXCEPT ![s] = v]
    /\ UNCHANGED <<rows, running, attached, unsaved, unread>>

-----------------------------------------------------------------------------
(* Changes at run time. *)

Started == \A s \in Settings : running[s] # NoRow

\* Changes: settings to their new values; written: those whose set_field succeeds.
\* One that fails is logged, and nothing repeats it.
Change(new, written) ==
    LET saved == IF attached THEN written \cap DOMAIN new ELSE {} IN
    /\ running' = [s \in Settings |-> IF s \in DOMAIN new THEN new[s] ELSE running[s]]
    /\ rows' = [s \in Settings |-> IF s \in saved THEN new[s] ELSE rows[s]]
    /\ unsaved' = (unsaved \cup DOMAIN new) \ saved
    /\ UNCHANGED <<toml, attached, unread>>

\* apply_guardrails_change, under the controller's lock: writes also what is no change.
EditGuardrail(s, v, written) ==
    /\ Started /\ s \in Guarded
    /\ Change([t \in {s} |-> v], written)

\* parse_tune_request: settings outside the whitelist are dropped, and of several changes
\* of one setting the first counts.
Parseable(request) == {k \in DOMAIN request : request[k].setting \in Tunable}
FirstOf(request) ==
    LET first(s) == CHOOSE k \in Parseable(request) :
                        /\ request[k].setting = s
                        /\ \A j \in Parseable(request) : request[j].setting = s => k <= j IN
    [s \in {request[k].setting : k \in Parseable(request)} |-> request[first(s)].value]

\* AutotuneState.apply, in a cycle, so under the same lock; a value that is already set is
\* not written again, also when it never reached the database.
Tune(request, written) ==
    LET asked == FirstOf(request)
        new == [s \in {t \in DOMAIN asked : running[t] # asked[t]} |-> asked[s]] IN
    /\ Started
    /\ Change(new, written)

ConfigNext ==
    \/ \E opens \in BOOLEAN : Start(opens)
    \/ \E s \in Settings, v \in SettingValues : EditToml(s, v)
    \/ \E s \in Guarded, v \in SettingValues : \E written \in SUBSET {s} : EditGuardrail(s, v, written)
    \/ \E request \in TuneRequests : \E written \in SUBSET DOMAIN FirstOf(request) :
          Tune(request, written)

ConfigSpec == ConfigInit /\ [][ConfigNext]_configVars

-----------------------------------------------------------------------------
(* Properties. *)

\* A restart that finds its database changes a setting only if the last change of it did
\* not reach the database, if the setting has no row and takes what config.toml says now,
\* or if this start or the last one could not read its section. And it writes over a row
\* only in a section that it could not read: a probe that fails where the read worked
\* writes back what was there. What the operator and the tuner set stays set, but for a
\* read that fails, which ConfigStore.get_section turns into "no overrides" (load_config
\* over ConfigStore).
RestartKeepsSettings ==
    [][(\E s \in Settings :
            /\ Started /\ attached /\ rows[s] # NoRow /\ s[1] \notin unread'
            /\ \/ running'[s] # running[s] /\ s \notin unsaved /\ s[1] \notin unread
               \/ rows'[s] # rows[s])
       => ~Start(TRUE)]_configVars
=============================================================================
