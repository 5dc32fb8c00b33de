--------------------------- MODULE AIModelConfigs ---------------------------
(***************************************************************************)
(* The models of the assistant: administrators create, edit, validate and     *)
(* delete them (slurmweb/ai/service.py,                                       *)
(* slurmweb/persistence/ai_model_config_store.py). An update is read by the   *)
(* service, read again by the store, then written as a whole row.             *)
(***************************************************************************)
EXTENDS Integers

CONSTANTS Admins, Models, MaxEdits      \* the last bounds the edits of a behaviour

ASSUME ModelsAssumption == Models # {}

VARIABLES
    configs,            \* ai_model_configs: the rows that exist
    doing,              \* what an administrator is at
    model,              \* the row it is about
    payload,            \* fields it writes
    selected,           \* the row that the store read
    edits,              \* number of edits so far
    latest,             \* settings of the last edit of a row that was answered
    mixed               \* rows that were edited between the two statements of a validation

configVars == <<configs, doing, model, payload, selected, edits, latest, mixed>>

ConfigExists(m) == m \in DOMAIN configs
NoRow == [settings |-> 0, enabled |-> FALSE, is_default |-> FALSE, validated |-> FALSE]

ConfigInit ==
    /\ configs = [m \in {} |-> NoRow]
    /\ doing = [a \in Admins |-> "idle"] /\ model = [a \in Admins |-> CHOOSE m \in Models : TRUE]
    /\ payload = [a \in Admins |-> NoRow] /\ selected = [a \in Admins |-> NoRow]
    /\ edits = 0 /\ latest = [m \in Models |-> 0] /\ mixed = {}

\* _normalize_default_state(): the default is enabled, what is disabled no default.
NormalizedNone(row) == row
NormalizedDefault(row) == [row EXCEPT !.enabled = @ \/ row.is_default]

\* The other rows give up the default.
Cleared(m, rows) == [n \in DOMAIN rows |-> IF n = m THEN rows[n] ELSE [rows[n] EXCEPT !.is_default = FALSE]]
With(m, row, rows) == [n \in DOMAIN rows \cup {m} |-> IF n = m THEN row ELSE rows[n]]
\* The unique index on the default of a cluster.
OneDefault(rows) == \A m, n \in DOMAIN rows : rows[m].is_default /\ rows[n].is_default => m = n

Idle(a) ==
    /\ doing' = [doing EXCEPT ![a] = "idle"]
    /\ payload' = [payload EXCEPT ![a] = NoRow] /\ selected' = [selected EXCEPT ![a] = NoRow]

----------------------------------------------------------------------------

\* create_model_config(): one transaction, under a new number, or an error.
Create(a) ==
    /\ doing[a] = "idle" /\ edits < MaxEdits
    /\ \E m \in {n \in Models : latest[n] = 0}, e, d \in BOOLEAN :
        LET row == NormalizedDefault([settings |-> edits + 1, enabled |-> e, is_default |-> d, validated |-> FALSE])
        IN /\ configs' = With(m, row, IF row.is_default THEN Cleared(m, configs) ELSE configs)
           /\ latest' = [latest EXCEPT ![m] = row.settings]
    /\ edits' = edits + 1
    /\ UNCHANGED <<doing, model, payload, selected, mixed>>

\* delete_model_config()
DeleteConfig(a) ==
    /\ doing[a] = "idle"
    /\ \E m \in DOMAIN configs : configs' = [n \in DOMAIN configs \ {m} |-> configs[n]]
    /\ UNCHANGED <<doing, model, payload, selected, edits, latest, mixed>>

\* update_model_config() reads the row and merges: every field is written, also those
\* of the read row, but the validation, that a change of the connection forgets.
BeginEdit(a) ==
    /\ doing[a] = "idle" /\ edits < MaxEdits
    /\ \E m \in DOMAIN configs, connection, e, d \in BOOLEAN :
        LET asked == [configs[m] EXCEPT !.enabled = e, !.is_default = d, !.settings = edits + 1]
        IN /\ model' = [model EXCEPT ![a] = m]
           /\ payload' = [payload EXCEPT ![a] =
                 [NormalizedDefault(asked) EXCEPT !.validated = ~connection]]
    /\ doing' = [doing EXCEPT ![a] = "editing"] /\ edits' = edits + 1
    /\ UNCHANGED <<configs, selected, latest, mixed>>

\* validate_model_config() reads the row and asks the provider.
BeginValidation(a) ==
    /\ doing[a] = "idle"
    /\ \E m \in DOMAIN configs, works \in BOOLEAN :
        /\ model' = [model EXCEPT ![a] = m]
        /\ payload' = [payload EXCEPT ![a] = [configs[m] EXCEPT !.validated = works]]
    /\ doing' = [doing EXCEPT ![a] = "validating"]
    /\ UNCHANGED <<configs, selected, edits, latest, mixed>>

\* update_config() of the store: SELECT, and what it will write. A validation only
\* gives its result.
MergedWhole(a, row) == payload[a]
Merged(a, row) ==
    IF doing[a] = "editing" THEN [payload[a] EXCEPT !.validated = @ /\ row.validated] ELSE [row EXCEPT !.validated = payload[a].validated]

Select(a) ==
    /\ doing[a] \in {"editing", "validating"}
    /\ IF ~ConfigExists(model[a]) THEN Idle(a)
       ELSE /\ selected' = [selected EXCEPT ![a] = Merged(a, configs[model[a]])]
            /\ doing' = [doing EXCEPT ![a] = IF @ = "editing" THEN "storing" ELSE "stamping"]
            /\ UNCHANGED payload
    /\ UNCHANGED <<configs, model, edits, latest, mixed>>

\* UPDATE, of the other rows first when the default is among the fields given. A
\* second default is refused, and the validation then stores that error.
Update(a) ==
    /\ doing[a] \in {"storing", "stamping"}
    /\ LET m == model[a]
           edit == doing[a] = "storing"
           others == IF edit /\ selected[a].is_default THEN Cleared(m, configs) ELSE configs
       IN \/ /\ ConfigExists(m) /\ OneDefault(With(m, selected[a], others))
             /\ configs' = With(m, selected[a], others)
             /\ latest' = IF edit THEN [latest EXCEPT ![m] = selected[a].settings] ELSE latest
             /\ mixed' = IF edit /\ \E b \in Admins : model[b] = m /\ doing[b] = "stamping"
                           THEN mixed \cup {m} ELSE mixed
             /\ Idle(a)
          \/ /\ ConfigExists(m) /\ ~edit /\ ~OneDefault(With(m, selected[a], others))
             /\ doing' = [doing EXCEPT ![a] = "validating"]
             /\ payload' = [payload EXCEPT ![a].validated = FALSE]
             /\ selected' = [selected EXCEPT ![a] = NoRow]
             /\ UNCHANGED <<configs, latest, mixed>>
          \/ ~ConfigExists(m) /\ Idle(a) /\ UNCHANGED <<configs, latest, mixed>>
    /\ UNCHANGED <<model, edits>>

\* The transaction fails: the row is as it was.
Fail(a) ==
    /\ doing[a] # "idle" /\ Idle(a)
    /\ UNCHANGED <<configs, model, edits, latest, mixed>>

ConfigNext == \E a \in Admins :
    \/ Create(a) \/ DeleteConfig(a) \/ BeginEdit(a) \/ BeginValidation(a) \/ Select(a) \/ Update(a) \/ Fail(a)

ConfigSpec == ConfigInit /\ [][ConfigNext]_configVars

----------------------------------------------------------------------------
(* Properties *)

\* The default model is one that the chats may use, whatever forms were sent
\* and whatever was validated meanwhile.
DefaultIsEnabled == \A m \in DOMAIN configs : configs[m].is_default => configs[m].enabled

\* An edit that was answered stays until the next one: a validation, which takes as
\* long as the provider, undoes none. Only one that is stored between the two
\* statements of the validation may be lost.
EditsSurviveValidation ==
    \A m \in DOMAIN configs \ mixed : configs[m].settings = latest[m]
=============================================================================
