------------------------------ MODULE AIProofs ------------------------------
(***************************************************************************)
(* The assistant, for any numbers of administrators and models, of streams  *)
(* and rounds: what its models keep of the edits, and what its streams show *)
(* and store.                                                               *)
(***************************************************************************)
EXTENDS AIConversation, AIModelConfigs, TLAPS

----------------------------------------------------------------------------
(* The models *)

Row == [settings : Nat, enabled : BOOLEAN, is_default : BOOLEAN, validated : BOOLEAN]

ConfigType ==
    /\ DOMAIN configs \subseteq Models /\ configs \in [DOMAIN configs -> Row]
    /\ doing \in [Admins -> {"idle", "editing", "validating", "storing", "stamping"}]
    /\ model \in [Admins -> Models]
    /\ payload \in [Admins -> Row] /\ selected \in [Admins -> Row]
    /\ edits \in Nat /\ latest \in [Models -> Nat] /\ mixed \subseteq Models

\* The form keeps the two switches together, and so does every copy of a row.
Usable(row) == row.is_default => row.enabled

SwitchesAgree ==
    /\ \A m \in DOMAIN configs : Usable(configs[m])
    /\ \A a \in Admins : Usable(payload[a]) /\ Usable(selected[a])

\* What a thread is about has been created, and what an edit writes is one.
WereCreated ==
    /\ \A m \in DOMAIN configs : latest[m] > 0
    /\ \A a \in Admins : doing[a] # "idle" => latest[model[a]] > 0
    /\ \A a \in Admins : doing[a] = "editing" => payload[a].settings > 0
    /\ \A a \in Admins : doing[a] = "storing" => selected[a].settings > 0

\* A validation that is between its two statements has read the last edit.
StampsAreCurrent ==
    \A a \in Admins : doing[a] = "stamping" /\ model[a] \notin mixed =>
        selected[a].settings = latest[model[a]]

ConfigInv == ConfigType /\ SwitchesAgree /\ WereCreated /\ StampsAreCurrent /\ EditsSurviveValidation

\* Other rows change in their default only.
LEMMA ClearedRows ==
    ASSUME NEW m, NEW rows, rows \in [DOMAIN rows -> Row]
    PROVE  /\ DOMAIN Cleared(m, rows) = DOMAIN rows
           /\ Cleared(m, rows) \in [DOMAIN rows -> Row]
           /\ \A n \in DOMAIN rows :
                 /\ Cleared(m, rows)[n].settings = rows[n].settings
                 /\ Usable(rows[n]) => Usable(Cleared(m, rows)[n])
BY DEF Cleared, Row, Usable

LEMMA StampedRow ==
    ASSUME NEW row \in Row, Usable(row), NEW v \in BOOLEAN
    PROVE  LET stamped == [row EXCEPT !.validated = v]
           IN stamped \in Row /\ Usable(stamped) /\ stamped.settings = row.settings
BY DEF Row, Usable

LEMMA NormalizedRow ==
    ASSUME NEW row \in Row
    PROVE  /\ NormalizedDefault(row) \in Row /\ Usable(NormalizedDefault(row))
           /\ NormalizedDefault(row).settings = row.settings
<1>1. CASE row.enabled \/ row.is_default
  <2>1. NormalizedDefault(row) = [row EXCEPT !.enabled = TRUE]
    BY <1>1, Zenon DEF NormalizedDefault
  <2> QED BY <2>1 DEF Row, Usable
<1>2. CASE ~(row.enabled \/ row.is_default)
  <2>1. NormalizedDefault(row) = [row EXCEPT !.enabled = FALSE]
    BY <1>2, Zenon DEF NormalizedDefault
  <2> QED BY <1>2, <2>1 DEF Row, Usable
<1> QED BY <1>1, <1>2

LEMMA ConfigInitHolds == ConfigInit => ConfigInv
<1> SUFFICES ASSUME ConfigInit PROVE ConfigInv
  OBVIOUS
<1> NoRow \in Row /\ Usable(NoRow)
  BY DEF NoRow, Row, Usable
<1> (CHOOSE m \in Models : TRUE) \in Models
  BY ModelsAssumption
<1> DOMAIN configs = {}
  BY DEF ConfigInit
<1>1. ConfigType
  BY DEF ConfigInit, ConfigType
<1>2. SwitchesAgree /\ WereCreated /\ StampsAreCurrent /\ EditsSurviveValidation
  BY DEF ConfigInit, SwitchesAgree, WereCreated, StampsAreCurrent, EditsSurviveValidation
<1> QED
  BY <1>1, <1>2 DEF ConfigInv

\* The other variables are left alone.
LEMMA ConfigStutter ==
    ASSUME ConfigInv, UNCHANGED configVars
    PROVE  ConfigInv'
BY DEF ConfigInv, ConfigType, SwitchesAgree, WereCreated, StampsAreCurrent,
       EditsSurviveValidation, configVars

LEMMA CreateKeeps ==
    ASSUME ConfigInv, NEW a \in Admins, Create(a)
    PROVE  ConfigInv'
<1> USE DEF ConfigInv, ConfigType
<1>1. PICK m \in {n \in Models : latest[n] = 0}, e \in BOOLEAN, d \in BOOLEAN :
        LET row == NormalizedDefault([settings |-> edits + 1, enabled |-> e, is_default |-> d, validated |-> FALSE])
        IN /\ configs' = With(m, row, IF row.is_default THEN Cleared(m, configs) ELSE configs)
           /\ latest' = [latest EXCEPT ![m] = row.settings]
  BY DEF Create
<1> DEFINE row == NormalizedDefault([settings |-> edits + 1, enabled |-> e, is_default |-> d, validated |-> FALSE])
           others == IF row.is_default THEN Cleared(m, configs) ELSE configs
<1>2. row \in Row /\ Usable(row) /\ row.settings = edits + 1
  <2> [settings |-> edits + 1, enabled |-> e, is_default |-> d, validated |-> FALSE] \in Row
    BY DEF Row
  <2> QED BY NormalizedRow
<1>3. /\ others \in [DOMAIN configs -> Row]
      /\ \A n \in DOMAIN configs : others[n].settings = configs[n].settings
      /\ \A n \in DOMAIN configs : Usable(configs[n]) => Usable(others[n])
  BY ClearedRows
<1>4. /\ configs' = With(m, row, others) /\ latest' = [latest EXCEPT ![m] = edits + 1]
      /\ m \in Models /\ latest[m] = 0
  BY <1>1, <1>2
<1> HIDE DEF row, others
<1>5. /\ DOMAIN configs' = DOMAIN configs \cup {m} /\ configs' \in [DOMAIN configs' -> Row]
      /\ configs'[m] = row
      /\ \A n \in DOMAIN configs \ {m} : configs'[n] = others[n]
  <2> DEFINE rows == With(m, row, others)
  <2>1. /\ DOMAIN rows = DOMAIN configs \cup {m} /\ rows \in [DOMAIN configs \cup {m} -> Row]
        /\ rows[m] = row
        /\ \A n \in DOMAIN configs \ {m} : rows[n] = others[n]
    BY <1>2, <1>3 DEF With
  <2> HIDE DEF rows
  <2> configs' = rows
    BY <1>4 DEF rows
  <2> QED BY <1>3, <2>1
<1>6. /\ edits' = edits + 1
      /\ UNCHANGED <<doing, model, payload, selected, mixed>>
  BY DEF Create
<1>7. ConfigType'
  BY <1>4, <1>5, <1>6
<1>8. SwitchesAgree'
  BY <1>2, <1>3, <1>5, <1>6 DEF SwitchesAgree
<1>9. /\ \A n \in Models \ {m} : latest'[n] = latest[n]
      /\ latest'[m] > 0 /\ latest'[m] = row.settings
  BY <1>2, <1>4
<1>10. WereCreated'
  BY <1>4, <1>5, <1>6, <1>9 DEF WereCreated
<1>11. StampsAreCurrent'
  BY <1>4, <1>6, <1>9 DEF StampsAreCurrent, WereCreated
<1>12. EditsSurviveValidation'
  BY <1>3, <1>5, <1>6, <1>9 DEF EditsSurviveValidation
<1> QED BY <1>7, <1>8, <1>10, <1>11, <1>12

LEMMA DeleteConfigKeeps ==
    ASSUME ConfigInv, NEW a \in Admins, DeleteConfig(a)
    PROVE  ConfigInv'
<1>1. PICK m \in DOMAIN configs : configs' = [n \in DOMAIN configs \ {m} |-> configs[n]]
  BY DEF DeleteConfig
<1>2. UNCHANGED <<doing, model, payload, selected, edits, latest, mixed>>
  BY DEF DeleteConfig
<1>3. ConfigType' /\ SwitchesAgree'
  BY <1>1, <1>2 DEF ConfigInv, ConfigType, SwitchesAgree
<1>4. WereCreated' /\ StampsAreCurrent' /\ EditsSurviveValidation'
  BY <1>1, <1>2 DEF ConfigInv, ConfigType, WereCreated, StampsAreCurrent, EditsSurviveValidation
<1> QED BY <1>3, <1>4 DEF ConfigInv

LEMMA BeginEditKeeps ==
    ASSUME ConfigInv, NEW a \in Admins, BeginEdit(a)
    PROVE  ConfigInv'
<1> USE DEF ConfigInv, ConfigType
<1>1. PICK m \in DOMAIN configs, connection \in BOOLEAN, e \in BOOLEAN, d \in BOOLEAN :
        LET asked == [configs[m] EXCEPT !.enabled = e, !.is_default = d, !.settings = edits + 1]
        IN /\ model' = [model EXCEPT ![a] = m]
           /\ payload' = [payload EXCEPT ![a] =
                 [NormalizedDefault(asked) EXCEPT !.validated = ~connection]]
  BY DEF BeginEdit
<1> DEFINE asked == [configs[m] EXCEPT !.enabled = e, !.is_default = d, !.settings = edits + 1]
           row == [NormalizedDefault(asked) EXCEPT !.validated = ~connection]
<1>2. row \in Row /\ Usable(row) /\ row.settings > 0
  <2> DEFINE old == configs[m]
             n == edits + 1
  <2>1. old \in Row /\ n \in Nat /\ n > 0
    OBVIOUS
  <2>5. asked \in Row /\ asked.settings = edits + 1
    <3> asked = [old EXCEPT !.enabled = e, !.is_default = d, !.settings = n]
      OBVIOUS
    <3> HIDE DEF asked, old, n
    <3> asked \in Row /\ asked.settings = n
      BY <2>1 DEF Row
    <3> QED BY DEF n
  <2>2. /\ NormalizedDefault(asked) \in Row /\ Usable(NormalizedDefault(asked))
        /\ NormalizedDefault(asked).settings = edits + 1
    BY <2>5, NormalizedRow
  <2> HIDE DEF asked
  <2>3. (~connection) \in BOOLEAN
    BY Zenon
  <2>4. /\ row \in Row /\ Usable(row)
        /\ row.settings = NormalizedDefault(asked).settings
    BY <2>2, <2>3, StampedRow
  <2> QED BY <2>1, <2>2, <2>4
<1>3. payload' = [payload EXCEPT ![a] = row] /\ model' = [model EXCEPT ![a] = m]
  BY <1>1
<1> HIDE DEF row
<1>4. /\ doing' = [doing EXCEPT ![a] = "editing"] /\ edits' = edits + 1
      /\ UNCHANGED <<configs, selected, latest, mixed>>
  BY DEF BeginEdit
<1>5. ConfigType' /\ SwitchesAgree'
  BY <1>2, <1>3, <1>4 DEF SwitchesAgree
<1>6. WereCreated' /\ StampsAreCurrent'
  BY <1>2, <1>3, <1>4 DEF WereCreated, StampsAreCurrent
<1>7. EditsSurviveValidation'
  BY <1>4 DEF EditsSurviveValidation
<1> QED BY <1>5, <1>6, <1>7

LEMMA BeginValidationKeeps ==
    ASSUME ConfigInv, NEW a \in Admins, BeginValidation(a)
    PROVE  ConfigInv'
<1> USE DEF ConfigInv, ConfigType
<1>1. PICK m \in DOMAIN configs, works \in BOOLEAN :
        /\ model' = [model EXCEPT ![a] = m]
        /\ payload' = [payload EXCEPT ![a] = [configs[m] EXCEPT !.validated = works]]
  BY DEF BeginValidation
<1> DEFINE row == [configs[m] EXCEPT !.validated = works]
<1>2. row \in Row /\ Usable(row)
  BY DEF SwitchesAgree, Row, Usable
<1>3. payload' = [payload EXCEPT ![a] = row] /\ model' = [model EXCEPT ![a] = m]
  BY <1>1
<1> HIDE DEF row
<1>4. doing' = [doing EXCEPT ![a] = "validating"] /\ UNCHANGED <<configs, selected, edits, latest, mixed>>
  BY DEF BeginValidation
<1>5. ConfigType' /\ SwitchesAgree'
  BY <1>2, <1>3, <1>4 DEF SwitchesAgree
<1>6. WereCreated' /\ StampsAreCurrent'
  BY <1>2, <1>3, <1>4 DEF WereCreated, StampsAreCurrent
<1>7. EditsSurviveValidation'
  BY <1>4 DEF EditsSurviveValidation
<1> QED BY <1>5, <1>6, <1>7

\* A thread that gives up leaves the rows to the others.
LEMMA IdleKeeps ==
    ASSUME ConfigInv, NEW a \in Admins, Idle(a), UNCHANGED <<configs, model, edits, latest, mixed>>
    PROVE  ConfigInv'
<1> USE DEF ConfigInv, ConfigType
<1>1. NoRow \in Row /\ Usable(NoRow)
  BY DEF NoRow, Row, Usable
<1>2. /\ doing' = [doing EXCEPT ![a] = "idle"]
      /\ payload' = [payload EXCEPT ![a] = NoRow] /\ selected' = [selected EXCEPT ![a] = NoRow]
  BY DEF Idle
<1>3. ConfigType' /\ SwitchesAgree'
  BY <1>1, <1>2 DEF SwitchesAgree
<1>4. WereCreated' /\ StampsAreCurrent' /\ EditsSurviveValidation'
  BY <1>2 DEF WereCreated, StampsAreCurrent, EditsSurviveValidation
<1> QED BY <1>3, <1>4

LEMMA SelectKeeps ==
    ASSUME ConfigInv, NEW a \in Admins, Select(a)
    PROVE  ConfigInv'
<1> USE DEF ConfigInv, ConfigType
<1>1. CASE ~ConfigExists(model[a])
  BY <1>1, IdleKeeps DEF Select
<1>2. CASE ConfigExists(model[a])
  <2> DEFINE row == Merged(a, configs[model[a]])
  <2>1. /\ selected' = [selected EXCEPT ![a] = row]
        /\ doing' = [doing EXCEPT ![a] = IF @ = "editing" THEN "storing" ELSE "stamping"]
        /\ doing[a] \in {"editing", "validating"}
        /\ UNCHANGED <<payload, configs, model, edits, latest, mixed>>
    BY <1>2 DEF Select
  <2>2. /\ row \in Row /\ Usable(row)
        /\ row.settings = IF doing[a] = "editing" THEN payload[a].settings ELSE configs[model[a]].settings
    BY <1>2, <2>1 DEF SwitchesAgree, ConfigExists, Merged, Row, Usable
  <2> HIDE DEF row
  <2>3. ConfigType' /\ SwitchesAgree'
    BY <2>1, <2>2 DEF SwitchesAgree
  <2>4. WereCreated' /\ StampsAreCurrent'
    BY <1>2, <2>1, <2>2 DEF WereCreated, StampsAreCurrent, EditsSurviveValidation, ConfigExists
  <2>5. EditsSurviveValidation'
    BY <2>1 DEF EditsSurviveValidation
  <2> QED BY <2>3, <2>4, <2>5
<1> QED BY <1>1, <1>2

LEMMA UpdateKeeps ==
    ASSUME ConfigInv, NEW a \in Admins, Update(a)
    PROVE  ConfigInv'
<1> USE DEF ConfigInv, ConfigType
<1> DEFINE m == model[a]
           edit == doing[a] = "storing"
           others == IF edit /\ selected[a].is_default THEN Cleared(m, configs) ELSE configs
<1>0. doing[a] \in {"storing", "stamping"} /\ UNCHANGED <<model, edits>>
  BY DEF Update
<1>1. CASE /\ ConfigExists(m)
           /\ configs' = With(m, selected[a], others)
           /\ latest' = IF edit THEN [latest EXCEPT ![m] = selected[a].settings] ELSE latest
           /\ mixed' = IF edit /\ \E b \in Admins : model[b] = m /\ doing[b] = "stamping"
                         THEN mixed \cup {m} ELSE mixed
           /\ Idle(a)
  <2>1. /\ others \in [DOMAIN configs -> Row]
        /\ \A n \in DOMAIN configs : others[n].settings = configs[n].settings
        /\ \A n \in DOMAIN configs : Usable(configs[n]) => Usable(others[n])
    BY ClearedRows
  <2> HIDE DEF others
  <2>2. /\ m \in DOMAIN configs /\ DOMAIN configs' = DOMAIN configs
        /\ configs' \in [DOMAIN configs' -> Row]
        /\ configs'[m] = selected[a]
        /\ \A n \in DOMAIN configs \ {m} : configs'[n] = others[n]
    <3> DEFINE rows == With(m, selected[a], others)
    <3>1. /\ DOMAIN rows = DOMAIN configs \cup {m} /\ rows \in [DOMAIN configs \cup {m} -> Row]
          /\ rows[m] = selected[a]
          /\ \A n \in DOMAIN configs \ {m} : rows[n] = others[n]
      BY <2>1 DEF With
    <3>2. configs' = rows
      BY <1>1 DEF others
    <3> HIDE DEF rows
    <3> QED BY <1>1, <2>1, <3>1, <3>2 DEF ConfigExists
  <2>3. /\ NoRow \in Row /\ Usable(NoRow)
        /\ doing' = [doing EXCEPT ![a] = "idle"]
        /\ payload' = [payload EXCEPT ![a] = NoRow] /\ selected' = [selected EXCEPT ![a] = NoRow]
    BY <1>1 DEF NoRow, Row, Usable, Idle
  <2>4. latest' \in [Models -> Nat] /\ mixed' \subseteq Models /\ mixed \subseteq mixed'
    BY <1>1, <2>2 DEF Row
  <2>5. ConfigType'
    BY <1>0, <2>2, <2>3, <2>4
  <2>6. SwitchesAgree'
    BY <2>1, <2>2, <2>3 DEF SwitchesAgree
  <2>7. /\ \A n \in Models \ {m} : latest'[n] = latest[n]
        /\ edit => latest'[m] = selected[a].settings
        /\ ~edit => latest'[m] = latest[m]
    BY <1>1, <2>2
  <2>8. WereCreated'
    BY <1>0, <2>2, <2>3, <2>7 DEF WereCreated
  <2>9. StampsAreCurrent'
    <3> SUFFICES ASSUME NEW b \in Admins, doing'[b] = "stamping", model'[b] \notin mixed'
                 PROVE  selected'[b].settings = latest'[model'[b]]
      BY DEF StampsAreCurrent
    <3>1. b # a /\ doing[b] = "stamping" /\ model'[b] = model[b] /\ selected'[b] = selected[b]
      BY <1>0, <2>3
    <3>2. selected[b].settings = latest[model[b]]
      BY <3>1, <2>4, <1>0 DEF StampsAreCurrent
    <3>3. ~(edit /\ model[b] = m)
      BY <1>1, <3>1
    <3> QED BY <2>7, <3>1, <3>2, <3>3
  <2>10. EditsSurviveValidation'
    <3> SUFFICES ASSUME NEW n \in DOMAIN configs' \ mixed'
                 PROVE  configs'[n].settings = latest'[n]
      BY DEF EditsSurviveValidation
    <3>1. CASE n # m
      BY <2>1, <2>2, <2>4, <2>7, <3>1 DEF EditsSurviveValidation
    <3>2. CASE n = m
      BY <1>0, <2>2, <2>4, <2>7, <3>2 DEF StampsAreCurrent
    <3> QED BY <3>1, <3>2
  <2> QED BY <2>5, <2>6, <2>8, <2>9, <2>10
<1>2. CASE /\ doing' = [doing EXCEPT ![a] = "validating"]
           /\ payload' = [payload EXCEPT ![a].validated = FALSE]
           /\ selected' = [selected EXCEPT ![a] = NoRow]
           /\ UNCHANGED <<configs, latest, mixed>>
  <2>1. NoRow \in Row /\ Usable(NoRow)
    BY DEF NoRow, Row, Usable
  <2> DEFINE failed == [payload[a] EXCEPT !.validated = FALSE]
  <2>2. failed \in Row /\ Usable(failed) /\ payload' = [payload EXCEPT ![a] = failed]
    BY <1>2 DEF SwitchesAgree, Row, Usable
  <2> HIDE DEF failed
  <2>3. ConfigType' /\ SwitchesAgree'
    BY <1>0, <1>2, <2>1, <2>2 DEF SwitchesAgree
  <2>4. WereCreated' /\ StampsAreCurrent' /\ EditsSurviveValidation'
    BY <1>0, <1>2 DEF WereCreated, StampsAreCurrent, EditsSurviveValidation
  <2> QED BY <2>3, <2>4
<1>3. CASE Idle(a) /\ UNCHANGED <<configs, latest, mixed>>
  BY <1>0, <1>3, IdleKeeps
<1> QED BY <1>1, <1>2, <1>3 DEF Update

THEOREM ConfigInvariance == ConfigSpec => []ConfigInv
<1>1. ConfigInv /\ [ConfigNext]_configVars => ConfigInv'
  <2> SUFFICES ASSUME ConfigInv, [ConfigNext]_configVars PROVE ConfigInv'
    OBVIOUS
  <2>1. CASE UNCHANGED configVars
    BY <2>1, ConfigStutter
  <2>2. CASE ConfigNext
    <3>1. PICK a \in Admins :
            \/ Create(a) \/ DeleteConfig(a) \/ BeginEdit(a) \/ BeginValidation(a)
            \/ Select(a) \/ Update(a) \/ Fail(a)
      BY <2>2 DEF ConfigNext
    <3>2. CASE Fail(a)
      BY <3>2, IdleKeeps DEF Fail
    <3> QED BY <3>1, <3>2, CreateKeeps, DeleteConfigKeeps, BeginEditKeeps,
               BeginValidationKeeps, SelectKeeps, UpdateKeeps
  <2> QED BY <2>1, <2>2
<1> QED BY <1>1, ConfigInitHolds, PTL DEF ConfigSpec

\* The default model is one that the chats may use, whatever forms were sent and
\* whatever was validated meanwhile: _normalize_default_state() and the rows that
\* are copied.
THEOREM DefaultStaysEnabled == ConfigSpec => []DefaultIsEnabled
<1>1. ConfigInv => DefaultIsEnabled
  BY DEF ConfigInv, SwitchesAgree, Usable, DefaultIsEnabled
<1> QED BY <1>1, ConfigInvariance, PTL

\* update_config() of a validation undoes no edit that was answered, except one that
\* is stored between its SELECT and its UPDATE.
THEOREM ValidationsKeepEdits == ConfigSpec => []EditsSurviveValidation
<1>1. ConfigInv => EditsSurviveValidation
  BY DEF ConfigInv
<1> QED BY <1>1, ConfigInvariance, PTL

----------------------------------------------------------------------------
(* The chats *)

Roles == {"past", "user", "assistant"}
Messages == [role : Roles, of : Conversations]
Stages == {"idle", "question", "context", "opened", "planning", "calling", "called",
           "recording", "answering", "showing", "done"}
Outcomes == {"none", "refused", "failed", "error", "complete", "cut", "killed"}

ChatType ==
    /\ messages \in [Conversations -> Seq(Messages)]
    /\ deleted \in [Conversations -> BOOLEAN]
    /\ stage \in [Streams -> Stages] /\ outcome \in [Streams -> Outcomes]
    /\ conversation \in [Streams -> Conversations]
    /\ context \in [Streams -> SUBSET Conversations]
    /\ untraced \in [Streams -> Nat]

\* What a stream has stored, traced and seen where it is.
Asked(s) ==
    \E i \in DOMAIN messages[conversation[s]] : messages[conversation[s]][i] = Message("user", s)

Answered(s) ==
    \E i, j \in DOMAIN messages[conversation[s]] :
        /\ i < j
        /\ messages[conversation[s]][i] = Message("user", s)
        /\ messages[conversation[s]][j] = Message("assistant", s)

Seen(s) ==
    \/ s \in context[s] \/ deleted[conversation[s]]
    \/ \A i \in DOMAIN messages[conversation[s]] :
           messages[conversation[s]][i] = Message("user", s) => i > HistoryLimit

StreamInv(s) ==
    /\ stage[s] = "done" <=> outcome[s] # "none"
    /\ untraced[s] > 0 => stage[s] = "recording" \/ outcome[s] \in {"error", "killed"}
    /\ stage[s] \notin {"idle", "question", "done"} => Asked(s)
    /\ stage[s] \in {"opened", "planning", "calling", "called", "recording"} => Seen(s)
    /\ stage[s] = "showing" \/ outcome[s] = "complete" => Answered(s)

ChatInv == ChatType /\ \A s \in Streams : StreamInv(s)

\* A step of s changes nothing of another stream, and adds messages of s at most.
Only(s) ==
    \A t \in Streams \ {s} :
        /\ stage'[t] = stage[t] /\ outcome'[t] = outcome[t] /\ conversation'[t] = conversation[t]
        /\ context'[t] = context[t] /\ untraced'[t] = untraced[t]

Grows(s) ==
    \A c \in Conversations :
        /\ DOMAIN messages[c] \subseteq DOMAIN messages'[c]
        /\ \A i \in DOMAIN messages[c] : messages'[c][i] = messages[c][i]
        /\ \A i \in DOMAIN messages'[c] \ DOMAIN messages[c] : messages'[c][i].of = s

LEMMA OneStream ==
    ASSUME ChatInv, ChatType', NEW s \in Streams, Only(s), Grows(s),
           \A c \in Conversations : deleted[c] => deleted'[c], StreamInv(s)'
    PROVE  ChatInv'
<1> SUFFICES ASSUME NEW t \in Streams \ {s} PROVE StreamInv(t)'
  BY DEF ChatInv
<1> DEFINE c == conversation[t]
<1>1. /\ stage'[t] = stage[t] /\ outcome'[t] = outcome[t] /\ conversation'[t] = c
      /\ context'[t] = context[t] /\ untraced'[t] = untraced[t] /\ c \in Conversations
      /\ StreamInv(t)
  BY DEF Only, ChatInv, ChatType
<1>2. /\ DOMAIN messages[c] \subseteq DOMAIN messages'[c]
      /\ \A i \in DOMAIN messages[c] : messages'[c][i] = messages[c][i]
      /\ \A i \in DOMAIN messages'[c] \ DOMAIN messages[c] : messages'[c][i] # Message("user", t)
      /\ deleted[c] => deleted'[c]
  BY <1>1 DEF Grows, Message
<1>3. Asked(t) => Asked(t)'
  BY <1>1, <1>2 DEF Asked
<1>4. Answered(t) => Answered(t)'
  BY <1>1, <1>2 DEF Answered
<1>5. Seen(t) => Seen(t)'
  BY <1>1, <1>2 DEF Seen
<1> QED BY <1>1, <1>3, <1>4, <1>5 DEF StreamInv

LEMMA EndFacts ==
    ASSUME ChatType, NEW s \in Streams, NEW how \in Outcomes, End(s, how)
    PROVE  /\ stage'[s] = "done" /\ outcome'[s] = how
           /\ stage' \in [Streams -> Stages] /\ outcome' \in [Streams -> Outcomes]
           /\ context' \in [Streams -> SUBSET Conversations]
           /\ \A t \in Streams \ {s} :
                 stage'[t] = stage[t] /\ outcome'[t] = outcome[t] /\ context'[t] = context[t]
BY DEF ChatType, End, Stages

\* A response that ends without a message more.
LEMMA EndKeeps ==
    ASSUME ChatInv, NEW s \in Streams, NEW how \in Outcomes \ {"none"}, End(s, how),
           UNCHANGED <<messages, deleted, conversation>>,
           untraced' = untraced \/ untraced' = [untraced EXCEPT ![s] = 0],
           untraced'[s] > 0 => how \in {"error", "killed"},
           how = "complete" => stage[s] = "showing"
    PROVE  ChatInv'
<1>1. ChatType' /\ Only(s)
  <2>1. /\ stage' \in [Streams -> Stages] /\ outcome' \in [Streams -> Outcomes]
        /\ context' \in [Streams -> SUBSET Conversations]
        /\ \A t \in Streams \ {s} :
              stage'[t] = stage[t] /\ outcome'[t] = outcome[t] /\ context'[t] = context[t]
    BY EndFacts DEF ChatInv
  <2>2. untraced' \in [Streams -> Nat] /\ \A t \in Streams \ {s} : untraced'[t] = untraced[t]
    <3>1. CASE untraced' = untraced
      BY <3>1 DEF ChatInv, ChatType
    <3>2. CASE untraced' = [untraced EXCEPT ![s] = 0]
      BY <3>2 DEF ChatInv, ChatType
    <3> QED BY <3>1, <3>2
  <2>3. ChatType'
    BY <2>1, <2>2 DEF ChatInv, ChatType
  <2>4. Only(s)
    BY <2>1, <2>2 DEF Only
  <2> QED BY <2>3, <2>4
<1>2. Grows(s) /\ \A c \in Conversations : deleted[c] => deleted'[c]
  BY DEF Grows
<1>3. Answered(s) => Answered(s)'
  BY DEF Answered
<1>4. StreamInv(s)'
  BY <1>3, EndFacts DEF ChatInv, StreamInv
<1> QED BY <1>1, <1>2, <1>4, OneStream

LEMMA MoveFacts ==
    ASSUME ChatType, NEW s \in Streams, NEW next \in Stages, Move(s, next)
    PROVE  /\ stage'[s] = next /\ outcome' = outcome /\ stage' \in [Streams -> Stages]
           /\ \A t \in Streams \ {s} : stage'[t] = stage[t]
BY DEF ChatType, Move

\* A stream goes on, with what its next stage asks for.
LEMMA MoveKeeps ==
    ASSUME ChatInv, NEW s \in Streams, NEW next \in Stages \ {"done"}, Move(s, next),
           stage[s] # "done", UNCHANGED <<messages, deleted, conversation>>,
           untraced' \in [Streams -> Nat], \A t \in Streams \ {s} : untraced'[t] = untraced[t],
           untraced'[s] > 0 => next = "recording",
           context' \in [Streams -> SUBSET Conversations],
           \A t \in Streams \ {s} : context'[t] = context[t],
           next \notin {"idle", "question"} => stage[s] \notin {"idle", "question"},
           next \in {"opened", "planning", "calling", "called", "recording"} => Seen(s)',
           next # "showing"
    PROVE  ChatInv'
<1>0. /\ stage'[s] = next /\ outcome' = outcome /\ stage' \in [Streams -> Stages]
      /\ \A t \in Streams \ {s} : stage'[t] = stage[t]
  BY MoveFacts DEF ChatInv
<1>1. ChatType' /\ Only(s)
  <2>1. ChatType'
    BY <1>0 DEF ChatInv, ChatType
  <2>2. Only(s)
    BY <1>0 DEF Only
  <2> QED BY <2>1, <2>2
<1>2. Grows(s) /\ \A c \in Conversations : deleted[c] => deleted'[c]
  BY DEF Grows
<1>3. Asked(s) => Asked(s)'
  BY DEF Asked
<1>4. StreamInv(s)'
  BY <1>3, MoveFacts DEF ChatInv, StreamInv
<1> QED BY <1>1, <1>2, <1>4, OneStream

\* A stream that has neither ended nor called has nothing to trace.
LEMMA NothingUntraced ==
    ASSUME ChatInv, NEW s \in Streams, stage[s] \notin {"recording", "done"}
    PROVE  untraced[s] = 0 /\ outcome[s] = "none"
<1>1. StreamInv(s) /\ untraced[s] \in Nat
  BY DEF ChatInv, ChatType
<1> QED BY <1>1 DEF StreamInv

\* add_message()
LEMMA MessageAdded ==
    ASSUME ChatType, NEW s \in Streams, NEW role \in Roles,
           messages' = [messages EXCEPT ![conversation[s]] = Append(@, Message(role, s))]
    PROVE  /\ messages' \in [Conversations -> Seq(Messages)] /\ Grows(s)
           /\ DOMAIN messages[conversation[s]] = 1 .. Len(messages[conversation[s]])
           /\ Len(messages[conversation[s]]) \in Nat
           /\ Len(messages[conversation[s]]) + 1 \in DOMAIN messages'[conversation[s]]
           /\ messages'[conversation[s]][Len(messages[conversation[s]]) + 1] = Message(role, s)
<1> DEFINE c == conversation[s]
           old == messages[c]
           new == Append(old, Message(role, s))
<1>1. c \in Conversations /\ old \in Seq(Messages) /\ Message(role, s) \in Messages
      /\ Message(role, s).of = s
  BY DEF ChatType, Messages, Message, Conversations
<1>2. /\ new \in Seq(Messages) /\ Len(old) \in Nat
      /\ DOMAIN old = 1 .. Len(old) /\ DOMAIN new = 1 .. Len(old) + 1
      /\ \A i \in DOMAIN old : new[i] = old[i]
      /\ new[Len(old) + 1] = Message(role, s)
  BY <1>1
<1>3. messages' = [messages EXCEPT ![c] = new]
  OBVIOUS
<1> HIDE DEF new
<1>4. messages' \in [Conversations -> Seq(Messages)] /\ messages'[c] = new
  BY <1>1, <1>2, <1>3 DEF ChatType
<1>5. Grows(s)
  <2> SUFFICES ASSUME NEW d \in Conversations
               PROVE  /\ DOMAIN messages[d] \subseteq DOMAIN messages'[d]
                      /\ \A i \in DOMAIN messages[d] : messages'[d][i] = messages[d][i]
                      /\ \A i \in DOMAIN messages'[d] \ DOMAIN messages[d] : messages'[d][i].of = s
    BY DEF Grows
  <2>1. CASE d = c
    <3>1. \A i \in DOMAIN new \ DOMAIN old : i = Len(old) + 1
      BY <1>2
    <3> QED BY <1>1, <1>2, <1>4, <2>1, <3>1
  <2>2. CASE d # c
    BY <1>3, <2>2 DEF ChatType
  <2> QED BY <2>1, <2>2
<1> QED BY <1>2, <1>4, <1>5

LEMMA AskQuestionKeeps ==
    ASSUME ChatInv, NEW s \in Streams, AskQuestion(s)
    PROVE  ChatInv'
<1>1. /\ stage[s] = "idle" /\ untraced[s] = 0 /\ outcome[s] = "none"
      /\ UNCHANGED <<messages, deleted, untraced>>
  BY NothingUntraced DEF AskQuestion
<1>2. CASE End(s, "refused") /\ UNCHANGED conversation
  BY <1>1, <1>2, EndKeeps DEF Outcomes
<1>3. ASSUME NEW c \in {Shared, s}, Go(s, "question"), conversation' = [conversation EXCEPT ![s] = c]
      PROVE  ChatInv'
  <2>1. /\ stage'[s] = "question" /\ outcome' = outcome /\ stage' \in [Streams -> Stages]
        /\ \A t \in Streams \ {s} : stage'[t] = stage[t]
    BY <1>3, MoveFacts DEF Go, ChatInv, Stages
  <2>2. context' = context /\ c \in Conversations
    BY <1>3 DEF Go, round, Conversations
  <2>3. ChatType'
    BY <1>1, <1>3, <2>1, <2>2 DEF ChatInv, ChatType
  <2>4. Only(s)
    BY <1>1, <1>3, <2>1, <2>2 DEF ChatInv, ChatType, Only
  <2>5. Grows(s) /\ \A d \in Conversations : deleted[d] => deleted'[d]
    BY <1>1 DEF Grows
  <2>6. StreamInv(s)'
    BY <1>1, <2>1 DEF StreamInv
  <2> QED BY <2>3, <2>4, <2>5, <2>6, OneStream
<1> QED BY <1>2, <1>3 DEF AskQuestion

LEMMA AddQuestionKeeps ==
    ASSUME ChatInv, NEW s \in Streams, AddQuestion(s)
    PROVE  ChatInv'
<1>1. /\ stage[s] = "question" /\ untraced[s] = 0 /\ outcome[s] = "none"
      /\ UNCHANGED <<deleted, conversation, untraced>>
  BY NothingUntraced DEF AddQuestion, AddMessage
<1>2. CASE End(s, "failed") /\ UNCHANGED messages
  BY <1>1, <1>2, EndKeeps DEF Outcomes
<1>3. CASE /\ messages' = [messages EXCEPT ![conversation[s]] = Append(@, Message("user", s))]
           /\ Go(s, "context")
  <2>1. /\ stage'[s] = "context" /\ outcome' = outcome /\ stage' \in [Streams -> Stages]
        /\ \A t \in Streams \ {s} : stage'[t] = stage[t]
    BY <1>3, MoveFacts DEF Go, ChatInv, Stages
  <2>2. context' = context
    BY <1>3 DEF Go, round
  <2>3. messages' \in [Conversations -> Seq(Messages)] /\ Grows(s) /\ Asked(s)'
    BY <1>1, <1>3, MessageAdded DEF ChatInv, Roles, Asked
  <2>4. ChatType'
    BY <1>1, <2>1, <2>2, <2>3 DEF ChatInv, ChatType
  <2>5. Only(s)
    BY <1>1, <2>1, <2>2 DEF Only
  <2>6. StreamInv(s)'
    BY <1>1, <2>1, <2>3 DEF StreamInv
  <2> QED BY <1>1, <2>3, <2>4, <2>5, <2>6, OneStream
<1> QED BY <1>2, <1>3 DEF AddQuestion, AddMessage

LEMMA StoreAnswerKeeps ==
    ASSUME ChatInv, NEW s \in Streams, StoreAnswer(s)
    PROVE  ChatInv'
<1>1. /\ stage[s] = "answering" /\ untraced[s] = 0 /\ outcome[s] = "none" /\ Asked(s)
      /\ UNCHANGED <<deleted, conversation, untraced>>
  <2>1. stage[s] = "answering" /\ UNCHANGED <<deleted, conversation, untraced>>
    BY DEF StoreAnswer, AddMessage
  <2> QED BY <2>1, NothingUntraced DEF ChatInv, StreamInv
<1>2. CASE End(s, "error") /\ UNCHANGED messages
  BY <1>1, <1>2, EndKeeps DEF Outcomes
<1>3. CASE /\ messages' = [messages EXCEPT ![conversation[s]] = Append(@, Message("assistant", s))]
           /\ Go(s, "showing")
  <2>1. /\ stage'[s] = "showing" /\ outcome' = outcome /\ stage' \in [Streams -> Stages]
        /\ \A t \in Streams \ {s} : stage'[t] = stage[t]
    BY <1>3, MoveFacts DEF Go, ChatInv, Stages
  <2>2. context' = context
    BY <1>3 DEF Go, round
  <2>3. messages' \in [Conversations -> Seq(Messages)] /\ Grows(s)
    BY <1>3, MessageAdded DEF ChatInv, Roles
  <2>4. Answered(s)'
    <3> DEFINE c == conversation[s]
    <3>1. PICK i \in DOMAIN messages[c] : messages[c][i] = Message("user", s)
      BY <1>1 DEF Asked
    <3>2. /\ i \in DOMAIN messages'[c] /\ messages'[c][i] = Message("user", s)
      BY <2>3, <3>1 DEF ChatInv, ChatType, Grows
    <3>3. /\ Len(messages[c]) + 1 \in DOMAIN messages'[c]
          /\ messages'[c][Len(messages[c]) + 1] = Message("assistant", s)
          /\ DOMAIN messages[c] = 1 .. Len(messages[c]) /\ Len(messages[c]) \in Nat
      BY <1>3, MessageAdded DEF ChatInv, Roles
    <3>4. i < Len(messages[c]) + 1
      BY <3>3
    <3> QED BY <1>1, <3>2, <3>3, <3>4 DEF Answered
  <2>5. Asked(s)'
    BY <2>4 DEF Asked, Answered
  <2>6. ChatType'
    BY <1>1, <2>1, <2>2, <2>3 DEF ChatInv, ChatType
  <2>7. Only(s)
    BY <1>1, <2>1, <2>2 DEF Only
  <2>8. StreamInv(s)'
    BY <1>1, <2>1, <2>4, <2>5 DEF StreamInv
  <2> QED BY <1>1, <2>3, <2>6, <2>7, <2>8, OneStream
<1> QED BY <1>2, <1>3 DEF StoreAnswer, AddMessage

\* The oldest messages hold what was stored early enough.
LEMMA OldestKnown ==
    ASSUME ChatType, NEW c \in Conversations, ~deleted[c],
           NEW i \in DOMAIN messages[c], i <= HistoryLimit
    PROVE  messages[c][i].of \in Known(c)
<1> DEFINE n == IF Len(messages[c]) < HistoryLimit THEN Len(messages[c]) ELSE HistoryLimit
           known == Oldest(messages[c], HistoryLimit)
<1>1. messages[c] \in Seq(Messages) /\ HistoryLimit \in Nat /\ i \in 1 .. n /\ n <= Len(messages[c])
      /\ n \in Nat
  BY ChatAssumption DEF ChatType
<1>2. known = SubSeq(messages[c], 1, n)
  BY DEF Oldest
<1>3. i \in DOMAIN known /\ known[i] = messages[c][i]
  BY <1>1, <1>2
<1> QED BY <1>3 DEF Known

LEMMA KnownAreNames ==
    ASSUME ChatType, NEW c \in Conversations
    PROVE  Known(c) \subseteq Conversations
<1> DEFINE n == IF Len(messages[c]) < HistoryLimit THEN Len(messages[c]) ELSE HistoryLimit
           known == Oldest(messages[c], HistoryLimit)
<1>1. messages[c] \in Seq(Messages) /\ n \in Nat /\ n <= Len(messages[c])
  BY ChatAssumption DEF ChatType
<1>2. known \in Seq(Messages)
  BY <1>1 DEF Oldest
<1>3. \A i \in DOMAIN known : known[i].of \in Conversations
  <2> HIDE DEF known
  <2> SUFFICES ASSUME NEW i \in DOMAIN known PROVE known[i].of \in Conversations
    OBVIOUS
  <2>1. known[i] \in Messages
    BY <1>2
  <2> QED BY <2>1 DEF Messages
<1> QED BY <1>3 DEF Known

LEMMA ReadContextKeeps ==
    ASSUME ChatInv, NEW s \in Streams, ReadContext(s)
    PROVE  ChatInv'
<1>1. /\ stage[s] = "context" /\ UNCHANGED <<messages, deleted, conversation, untraced>>
      /\ untraced[s] = 0
  BY NothingUntraced DEF ReadContext
<1>2. CASE End(s, "failed")
  BY <1>1, <1>2, EndKeeps DEF Outcomes
<1>3. CASE Move(s, "opened") /\ context' = [context EXCEPT ![s] = Known(conversation[s])]
  <2> DEFINE c == conversation[s]
  <2>1. c \in Conversations /\ Known(c) \subseteq Conversations
    BY KnownAreNames DEF ChatInv, ChatType
  <2>2. /\ context' \in [Streams -> SUBSET Conversations] /\ context'[s] = Known(c)
        /\ \A t \in Streams \ {s} : context'[t] = context[t]
    BY <1>3, <2>1 DEF ChatInv, ChatType
  <2>3. Seen(s)'
    <3>1. ASSUME ~deleted[c], NEW i \in DOMAIN messages[c], messages[c][i] = Message("user", s),
                 ~(i > HistoryLimit)
          PROVE  s \in Known(c)
      <4>1. messages[c] \in Seq(Messages)
        BY <2>1 DEF ChatInv, ChatType
      <4>2. i <= HistoryLimit
        BY <3>1, <4>1, ChatAssumption
      <4> QED BY <2>1, <3>1, <4>2, OldestKnown DEF ChatInv, Message
    <3> QED BY <1>1, <2>2, <3>1 DEF Seen
  <2>4. "opened" \in Stages \ {"done"} /\ untraced' \in [Streams -> Nat]
    BY <1>1 DEF Stages, ChatInv, ChatType
  <2> QED BY <1>1, <1>3, <2>2, <2>3, <2>4, MoveKeeps
<1> QED BY <1>2, <1>3 DEF ReadContext

\* Steps between two rounds: the question is stored, and the planner saw it.
LEMMA SeenStays ==
    ASSUME ChatInv, NEW s \in Streams, UNCHANGED <<messages, deleted, conversation, context>>,
           stage[s] \in {"opened", "planning", "calling", "called", "recording"}
    PROVE  Seen(s)'
BY DEF ChatInv, StreamInv, Seen

LEMMA PlanKeeps ==
    ASSUME ChatInv, NEW s \in Streams, Plan(s)
    PROVE  ChatInv'
<1>1. /\ stage[s] \in {"opened", "planning", "called"}
      /\ UNCHANGED <<messages, deleted, conversation, untraced>> /\ untraced[s] = 0
  BY NothingUntraced DEF Plan, Planning
<1>2. CASE End(s, "error")
  BY <1>1, <1>2, EndKeeps DEF Outcomes
<1>3. ASSUME NEW next \in {"answering", "planning", "calling"}, Move(s, next), context' = context
      PROVE  ChatInv'
  <2>1. next \in Stages \ {"done"} /\ context' \in [Streams -> SUBSET Conversations]
        /\ untraced' \in [Streams -> Nat]
    BY <1>1, <1>3 DEF Stages, ChatInv, ChatType
  <2>2. Seen(s)'
    BY <1>1, <1>3, SeenStays
  <2> QED BY <1>1, <1>3, <2>1, <2>2, MoveKeeps
<1>4. End(s, "error") \/ \E next \in {"answering", "planning", "calling"} : Move(s, next) /\ context' = context
  BY DEF Plan, Go, round
<1> QED BY <1>2, <1>3, <1>4

LEMMA CallToolKeeps ==
    ASSUME ChatInv, NEW s \in Streams, CallTool(s)
    PROVE  ChatInv'
<1>1. /\ stage[s] = "calling" /\ UNCHANGED <<messages, deleted, conversation, context>>
      /\ untraced[s] = 0
  BY NothingUntraced DEF CallTool, Tell
<1>2. Seen(s)' /\ context' \in [Streams -> SUBSET Conversations]
  BY <1>1, SeenStays DEF ChatInv, ChatType
<1>3. CASE Tell(s) /\ UNCHANGED untraced
  <2>1. "called" \in Stages \ {"done"} /\ untraced' \in [Streams -> Nat] /\ Move(s, "called")
    BY <1>3 DEF Stages, Tell, ChatInv, ChatType
  <2> QED BY <1>1, <1>2, <1>3, <2>1, MoveKeeps
<1>4. CASE /\ \E a \in Answers(call[s].interface) : untraced' = [untraced EXCEPT ![s] = @ + a.applied]
           /\ Move(s, "recording")
  <2>1. PICK n \in {0, 1} : untraced' = [untraced EXCEPT ![s] = @ + n]
    BY <1>4 DEF Answers
  <2>2. /\ untraced' \in [Streams -> Nat]
        /\ \A t \in Streams \ {s} : untraced'[t] = untraced[t]
    BY <2>1 DEF ChatInv, ChatType
  <2>3. "recording" \in Stages \ {"done"}
    BY DEF Stages
  <2> QED BY <1>1, <1>2, <1>4, <2>2, <2>3, MoveKeeps
<1> QED BY <1>3, <1>4 DEF CallTool

LEMMA RecordKeeps ==
    ASSUME ChatInv, NEW s \in Streams, Record(s)
    PROVE  ChatInv'
<1>1. stage[s] = "recording" /\ UNCHANGED <<messages, deleted, conversation>>
  BY DEF Record
<1>2. CASE /\ End(s, "error")
           /\ untraced' = untraced \/ untraced' = [untraced EXCEPT ![s] = 0]
  BY <1>1, <1>2, EndKeeps DEF Outcomes
<1>3. CASE untraced' = [untraced EXCEPT ![s] = 0] /\ Tell(s)
  <2>1. /\ "called" \in Stages \ {"done"} /\ Move(s, "called") /\ context' = context
        /\ context' \in [Streams -> SUBSET Conversations]
    BY <1>3 DEF Stages, Tell, ChatInv, ChatType
  <2>2. /\ untraced' \in [Streams -> Nat] /\ untraced'[s] = 0
        /\ \A t \in Streams \ {s} : untraced'[t] = untraced[t]
    BY <1>3 DEF ChatInv, ChatType
  <2>3. Seen(s)'
    BY <1>1, <2>1, SeenStays
  <2> QED BY <1>1, <2>1, <2>2, <2>3, MoveKeeps
<1>4. CASE UNCHANGED <<stage, outcome, context, untraced>>
  BY <1>1, <1>4 DEF ChatInv, ChatType, StreamInv, Asked, Answered, Seen
<1> QED BY <1>2, <1>3, <1>4 DEF Record

LEMMA EndingsKeep ==
    ASSUME ChatInv, NEW s \in Streams, Show(s) \/ Cut(s) \/ Kill(s)
    PROVE  ChatInv'
<1>1. UNCHANGED <<messages, deleted, conversation, untraced>>
  BY DEF Show, Cut, Kill
<1>2. CASE Show(s)
  <2>1. stage[s] = "showing" /\ End(s, "complete") /\ untraced[s] = 0
    BY <1>2, NothingUntraced DEF Show
  <2> QED BY <1>1, <2>1, EndKeeps DEF Outcomes
<1>3. CASE Cut(s)
  <2>1. End(s, "cut") /\ untraced[s] = 0
    BY <1>3, NothingUntraced DEF Cut
  <2> QED BY <1>1, <2>1, EndKeeps DEF Outcomes
<1>4. CASE Kill(s)
  BY <1>1, <1>4, EndKeeps DEF Outcomes, Kill
<1> QED BY <1>2, <1>3, <1>4

LEMMA DeleteConversationKeeps ==
    ASSUME ChatInv, NEW c \in Conversations, DeleteConversation(c)
    PROVE  ChatInv'
<1>1. /\ UNCHANGED <<messages, stage, outcome, conversation, context, untraced>>
      /\ deleted' = [deleted EXCEPT ![c] = TRUE]
  BY DEF DeleteConversation, round
<1>2. ChatType' /\ \A d \in Conversations : deleted[d] => deleted'[d]
  BY <1>1 DEF ChatInv, ChatType
<1>3. ASSUME NEW s \in Streams PROVE StreamInv(s)'
  <2>1. StreamInv(s) /\ conversation[s] \in Conversations
    BY DEF ChatInv, ChatType
  <2> QED BY <1>1, <1>2, <2>1 DEF StreamInv, Asked, Answered, Seen
<1> QED BY <1>2, <1>3 DEF ChatInv

LEMMA ChatInitHolds == ChatInit => ChatInv
<1> SUFFICES ASSUME ChatInit PROVE ChatInv
  OBVIOUS
<1>1. PICK n \in Histories :
        messages = [c \in Conversations |->
            IF c = Shared THEN [i \in 1 .. n |-> Message("past", Shared)] ELSE <<>>]
  BY DEF ChatInit
<1>2. n \in Nat /\ Message("past", Shared) \in Messages
  BY ChatAssumption DEF Message, Messages, Roles, Conversations
<1>3. messages \in [Conversations -> Seq(Messages)]
  BY <1>1, <1>2
<1>4. ChatType
  BY <1>3 DEF ChatInit, ChatType, Stages, Outcomes, Conversations
<1>5. ASSUME NEW s \in Streams PROVE StreamInv(s)
  <2> stage[s] = "idle" /\ outcome[s] = "none" /\ untraced[s] = 0
    BY DEF ChatInit
  <2> QED BY DEF StreamInv
<1> QED BY <1>4, <1>5 DEF ChatInv

THEOREM ChatInvariance == ChatSpec => []ChatInv
<1>1. ChatInv /\ [ChatNext]_chatVars => ChatInv'
  <2> SUFFICES ASSUME ChatInv, [ChatNext]_chatVars PROVE ChatInv'
    OBVIOUS
  <2>1. CASE UNCHANGED chatVars
    BY <2>1 DEF chatVars, ChatInv, ChatType, StreamInv, Asked, Answered, Seen
  <2>2. ASSUME NEW s \in Streams, AskQuestion(s) \/ Step(s) \/ Cut(s) \/ Kill(s)
        PROVE  ChatInv'
    BY <2>2, AskQuestionKeeps, AddQuestionKeeps, ReadContextKeeps, PlanKeeps, CallToolKeeps,
       RecordKeeps, StoreAnswerKeeps, EndingsKeep DEF Step
  <2>3. ASSUME NEW c \in Conversations, DeleteConversation(c) PROVE ChatInv'
    BY <2>3, DeleteConversationKeeps
  <2> QED BY <2>1, <2>2, <2>3 DEF ChatNext
<1> QED BY <1>1, ChatInitHolds, PTL DEF ChatSpec

\* execute() and record_tool_call(): a write that was applied is stored in
\* ai_tool_calls, or the stream is about to store it, or it ended with an error.
THEOREM AppliedIsTraced == ChatSpec => []WritesAreTraced
<1>1. ChatInv => WritesAreTraced
  BY DEF ChatInv, StreamInv, WritesAreTraced
<1> QED BY <1>1, ChatInvariance, PTL

\* _conversation_context_messages() is read after the question is stored: the
\* planner sees it, whatever other streams add to the conversation.
THEOREM PlannerSeesQuestion == ChatSpec => []QuestionInContext
<1>1. ChatInv => QuestionInContext
  BY DEF ChatInv, StreamInv, Seen, Planning, QuestionInContext
<1> QED BY <1>1, ChatInvariance, PTL

\* stream_chat() stores the answer before it sends the first piece.
THEOREM AnswersAreStored == ChatSpec => []ShownIsStored
<1>1. ChatInv => ShownIsStored
  BY DEF ChatInv, StreamInv, Answered, ShownIsStored
<1> QED BY <1>1, ChatInvariance, PTL
=============================================================================
