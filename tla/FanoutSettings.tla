--------------------------- MODULE FanoutSettings ---------------------------
(***************************************************************************)
(* The settings of the integrations: the draft of one, and the list of     *)
(* all.                                                                    *)
(***************************************************************************)
EXTENDS Integers, Sequences, FiniteSets, SequencesExt, TLC

CONSTANTS MaxEdits,
          FanoutWorlds,
          MaxJobs,
          MaxTyped

VARIABLE ui

-----------------------------------------------------------------------------
(***************************************************************************)
(* The form of an integration (SettingsFanoutSection): a draft is created  *)
(* from a recipe, changed by the editor of its type, normalised and saved, *)
(* and opened again by the editor of the type it was saved as. A           *)
(* configuration is a record of the fields the checks tell apart.  Each    *)
(* editor is the set of configurations one change of the reader leads to.  *)
(***************************************************************************)
ScopeKeys == {"chan", "contact"}
Flavours == {"md", "plain"}

Blank == ""
\* What a field nobody set holds.
Fields ==
  [host |-> Blank, port |-> Blank, topic |-> Blank, audience |-> Blank, auth |-> Blank,
   tracked |-> {}, flavour |-> "md", body |-> Blank, url |-> Blank,
   headers |-> "{}", radius |-> Blank, dry |-> TRUE, code |-> Blank]

DraftTypes ==
  {"mqtt_private", "mqtt_ha", "mqtt_community", "meshrank", "letsmesh_us", "letsmesh_eu",
   "webhook", "apprise", "sqs", "bot", "map_upload"}

SavedType(type) ==
  IF type \in {"meshrank", "letsmesh_us", "letsmesh_eu"} THEN "mqtt_community" ELSE type

Community(type) == SavedType(type) = "mqtt_community"

\* A scope: whether raw packets are forwarded, and which messages.
All == [mode |-> "all", keys |-> {}]
Nothing == [mode |-> "none", keys |-> {}]
ForwardsRaw == {"mqtt_private", "sqs"}

-----------------------------------------------------------------------------
(* The recipes and the normalisation before a save.                        *)

CommunityDefaults ==
  [Fields EXCEPT !.host = "us", !.port = "443", !.auth = "token", !.topic = "default"]

\* cloneDraftDefaults
Defaults(type) ==
  CASE type \in {"mqtt_private", "mqtt_ha"} -> [Fields EXCEPT !.port = "1883", !.topic = "meshcore"]
    [] type = "mqtt_community" -> CommunityDefaults
    [] type = "meshrank" ->
         [CommunityDefaults EXCEPT !.host = "rank", !.port = "8883", !.auth = "none", !.topic = Blank]
    [] type = "letsmesh_us" -> [CommunityDefaults EXCEPT !.audience = "us"]
    [] type = "letsmesh_eu" -> [CommunityDefaults EXCEPT !.host = "eu", !.audience = "eu"]
    [] type = "apprise" -> [Fields EXCEPT !.body = "md"]
    [] type = "bot" -> [Fields EXCEPT !.code = "default"]
    [] OTHER -> Fields

DefaultScope(type) ==
  IF Community(type) \/ type = "map_upload" THEN [raw |-> TRUE, messages |-> Nothing]
  ELSE [raw |-> type = "mqtt_private", messages |-> All]

Or(value, default) == IF value = Blank THEN default ELSE value

\* normalizeIntegrationConfigForSave
NormalizeConfig(saved, c) ==
  CASE saved = "mqtt_private" ->
         [c EXCEPT !.port = Or(@, "1883"), !.topic = Or(@, "meshcore")]
    [] saved = "mqtt_community" ->
         [c EXCEPT !.host = Or(@, "us"), !.port = Or(@, "443"), !.topic = Or(@, "default")]
    [] saved = "map_upload" -> [c EXCEPT !.radius = Or(@, "0")]
    [] OTHER -> c

\* normalizeDraftConfig
NormalizeDraft(type, c) ==
  LET brand == IF type = "letsmesh_eu" THEN "eu" ELSE "us"
  IN  CASE type = "meshrank" ->
             NormalizeConfig("mqtt_community",
               [c EXCEPT !.host = "rank", !.port = "8883", !.auth = "none", !.audience = Blank])
        [] type \in {"letsmesh_us", "letsmesh_eu"} ->
             NormalizeConfig("mqtt_community",
               [c EXCEPT !.host = brand, !.port = "443", !.auth = "token", !.audience = brand])
        [] OTHER -> NormalizeConfig(SavedType(type), c)

\* The missing topic of MeshRank is the only thing that refuses a draft.
Refused(type, c) == type = "meshrank" /\ c.topic = Blank

\* normalizeDraftScope
NormalizeScope(type, scope) ==
  IF Community(type) THEN [raw |-> TRUE, messages |-> Nothing] ELSE scope

-----------------------------------------------------------------------------
(* The editors.                                                            *)

With(c, field, values) == {[c EXCEPT ![field] = v] : v \in values}

BrokerEdits(c) == With(c, "host", {Blank, "own"}) \cup With(c, "port", {Blank, "own"})

MqttPrivateEdits(c) == BrokerEdits(c) \cup With(c, "topic", {Blank, "own"})

Toggled(keys, k) == IF k \in keys THEN keys \ {k} ELSE keys \cup {k}

MqttHaEdits(c) ==
  MqttPrivateEdits(c) \cup {[c EXCEPT !.tracked = Toggled(c.tracked, k)] : k \in {"contact", "repeater"}}

MqttCommunityEdits(c) ==
  BrokerEdits(c) \cup With(c, "auth", {"token", "none", "password"})
    \cup With(c, "topic", {Blank, "own"})
    \cup (IF c.auth = "token" THEN With(c, "audience", {Blank, "own"}) ELSE {})

MeshRankEdits(c) == With(c, "topic", {Blank, "own"})

LetsMeshEdits(c, brand) == {[c EXCEPT !.host = brand, !.audience = brand]}

BotEdits(c) == With(c, "code", {Blank, "own", "default"})

MapUploadEdits(c) == With(c, "dry", BOOLEAN) \cup With(c, "radius", {Blank, "own"})
                       \cup With(c, "url", {Blank, "own"})

\* Switching the flavour carries the default of the other one over.
AppriseEdits(c) ==
  With(c, "url", {Blank, "own"}) \cup With(c, "body", {Blank, "own", c.flavour})
    \cup {[c EXCEPT !.flavour = f, !.body = IF @ = Blank \/ @ \in Flavours THEN f ELSE @] :
            f \in Flavours}

WebhookEdits(c) == With(c, "url", {Blank, "own"})

SqsEdits(c) == With(c, "url", {Blank, "own"})

Edits(type, c) ==
  CASE type = "mqtt_private" -> MqttPrivateEdits(c)
    [] type = "mqtt_ha" -> MqttHaEdits(c)
    [] type = "mqtt_community" -> MqttCommunityEdits(c)
    [] type = "meshrank" -> MeshRankEdits(c)
    [] type = "letsmesh_us" -> LetsMeshEdits(c, "us")
    [] type = "letsmesh_eu" -> LetsMeshEdits(c, "eu")
    [] type = "bot" -> BotEdits(c)
    [] type = "map_upload" -> MapUploadEdits(c)
    [] type = "apprise" -> AppriseEdits(c)
    [] type = "webhook" -> WebhookEdits(c)
    [] type = "sqs" -> SqsEdits(c)

\* getScopeMode: the mode a stored scope is shown in.
Shown(type, m) == IF type \notin ForwardsRaw /\ m.mode = "none" THEN [m EXCEPT !.mode = "all"] ELSE m

ListMode(m) == m.mode \in {"only", "except"}

\* handleModeChange: another mode starts with an empty list.
ModeEdits(type, m) ==
  {[mode |-> mode, keys |-> {}] :
     mode \in {"all", "only", "except"} \cup (IF type \in ForwardsRaw THEN {"none"} ELSE {})}

\* PillsSearchList: a key toggled, all of a kind, none of it.
ListEdits(m) ==
  IF ~ListMode(m) THEN {}
  ELSE {[m EXCEPT !.keys = Toggled(m.keys, k)] : k \in ScopeKeys}
       \cup {[m EXCEPT !.keys = m.keys \cup {k}] : k \in ScopeKeys}
       \cup {[m EXCEPT !.keys = m.keys \ {k}] : k \in ScopeKeys}

\* Which editors hold a ScopeSelector.
HasScope(type) ==
  type \in {"mqtt_private", "mqtt_ha", "apprise", "webhook", "sqs"}

-----------------------------------------------------------------------------

DraftInit ==
  ui = [type |-> "none", editing |-> FALSE, config |-> Fields, headersText |-> "{}",
        scope |-> [raw |-> FALSE, messages |-> All], chosen |-> "none",
        stored |-> <<>>, bots |-> TRUE, dialog |-> FALSE, edits |-> 0]

Counted(u) == ui.edits < MaxEdits /\ ui' = [u EXCEPT !.edits = @ + 1]

Recipes == DraftTypes \ (IF ui.bots THEN {} ELSE {"bot"})

OpenDialog ==
  /\ ui.type = "none" /\ ~ui.dialog /\ ui.stored = <<>>
  /\ ui' = [ui EXCEPT !.dialog = TRUE]

ChooseRecipe(type) ==
  /\ ui.dialog /\ ui.chosen = "none" /\ type \in Recipes
  /\ ui' = [ui EXCEPT !.chosen = type]

\* The administrator's switch, as the health reports it.
BotsSwitched ==
  /\ ui.dialog /\ ui.bots
  /\ ui' = [ui EXCEPT !.bots = FALSE]

\* effectiveCreateType and handleAddCreate.
AddCreate ==
  /\ ui.dialog
  /\ LET type == IF ui.chosen \in Recipes THEN ui.chosen ELSE "mqtt_private"
     IN  ui' = [ui EXCEPT !.dialog = FALSE, !.type = type, !.editing = FALSE,
                          !.config = Defaults(type), !.headersText = Defaults(type).headers,
                          !.scope = DefaultScope(type)]

EditConfig ==
  /\ ui.type # "none"
  /\ \E c \in Edits(ui.type, ui.config) \ {ui.config} : Counted([ui EXCEPT !.config = c])

\* handleHeadersChange: only an object reaches the configuration.
EditHeaders(text) ==
  /\ ui.type = "webhook" /\ text # ui.headersText
  /\ Counted([ui EXCEPT !.headersText = text,
                        !.config.headers = IF text \in {"{}", "own"} THEN text ELSE @])

EditScope ==
  /\ HasScope(ui.type)
  /\ LET m == Shown(ui.type, ui.scope.messages)
     IN  \/ \E n \in (ModeEdits(ui.type, m) \cup ListEdits(m)) \ {m} :
              Counted([ui EXCEPT !.scope.messages = n])
         \/ ui.type \in ForwardsRaw /\ Counted([ui EXCEPT !.scope.raw = ~@])

\* handleSave of a draft.
SaveDraft ==
  /\ ui.type # "none" /\ ~ui.editing /\ ~Refused(ui.type, ui.config)
  /\ LET saved == [made |-> ui.type, type |-> SavedType(ui.type), shown |-> ui.headersText,
                   config |-> NormalizeDraft(ui.type, ui.config), touched |-> FALSE,
                   scope |-> NormalizeScope(ui.type, ui.scope), seen |-> ui.scope.messages]
     IN  ui' = [ui EXCEPT !.type = "none", !.stored = <<saved>>]

\* handleEdit: the editor of the type it was saved as.
DraftEdit ==
  /\ ui.type = "none" /\ ui.stored # <<>>
  /\ LET s == Head(ui.stored)
     IN  Counted([ui EXCEPT !.type = s.type, !.editing = TRUE, !.config = s.config,
                            !.headersText = s.config.headers, !.scope = s.scope])

\* handleSave of an existing integration.
SaveEdit ==
  /\ ui.type # "none" /\ ui.editing
  /\ ui' = [ui EXCEPT
              !.type = "none",
              !.stored[1] = [@ EXCEPT !.config = NormalizeConfig(ui.type, ui.config),
                                      !.shown = ui.headersText, !.scope = ui.scope,
                                      !.seen = Shown(ui.type, ui.scope.messages),
                                      !.touched = @ \/ ui.config # Head(ui.stored).config]]

DraftBack ==
  /\ ui.type # "none"
  /\ ui' = [ui EXCEPT !.type = "none"]

DraftNext ==
  \/ OpenDialog
  \/ \E type \in DraftTypes : ChooseRecipe(type)
  \/ BotsSwitched
  \/ AddCreate
  \/ EditConfig
  \/ \E text \in {"{}", "own", "junk"} : EditHeaders(text)
  \/ EditScope
  \/ SaveDraft
  \/ DraftEdit
  \/ SaveEdit
  \/ DraftBack

-----------------------------------------------------------------------------
(* Properties.                                                             *)

DraftTypeOK ==
  /\ ui.type \in DraftTypes \cup {"none"} /\ ui.edits \in 0 .. MaxEdits
  /\ DOMAIN ui.config = DOMAIN Fields /\ Len(ui.stored) <= 1

\* An integration made from a preset talks to the broker of that preset,
\* with its audience and a topic, until the reader changes it in the editor
\* of community brokers (normalizeDraftConfig).
PresetsTrue ==
  \A s \in ToSet(ui.stored) :
    ~s.touched /\ Community(s.made) =>
      /\ s.made = "meshrank" => s.config.host = "rank" /\ s.config.port = "8883"
      /\ s.made = "letsmesh_us" => s.config.host = "us" /\ s.config.audience = "us"
      /\ s.made = "letsmesh_eu" => s.config.host = "eu" /\ s.config.audience = "eu"
      /\ s.config.topic # Blank

\* A number or a topic the reader emptied is never stored empty, on the first
\* save or on a later one (normalizeIntegrationConfigForSave).
NothingStoredBlank ==
  \A s \in ToSet(ui.stored) :
    /\ s.type \in {"mqtt_private", "mqtt_community"} => s.config.port # Blank /\ s.config.topic # Blank
    /\ s.type = "mqtt_community" => s.config.host # Blank
    /\ s.type = "map_upload" => s.config.radius # Blank

\* A community broker is given every raw packet and no message, whichever
\* preset made it and however often it is edited (normalizeDraftScope).
CommunityNeverMessages ==
  \A s \in ToSet(ui.stored) :
    s.type = "mqtt_community" => s.scope = [raw |-> TRUE, messages |-> Nothing]

\* The default text of the other flavour never stays in the body, however
\* the reader switches markdown on and off (AppriseConfigEditor).
BodyFollowsFlavour ==
  ui.type = "apprise" => ui.config.body \notin Flavours \ {ui.config.flavour}

\* What is stored is the scope and the headers that were on the screen; text
\* that is no object is flagged there and is the only exception
\* (ScopeSelector, WebhookConfigEditor).
StoredAsShown ==
  \A s \in ToSet(ui.stored) :
    /\ s.type \in ForwardsRaw \cup {"apprise"} => s.scope.messages = s.seen
    /\ s.shown # "junk" => s.config.headers = s.shown

-----------------------------------------------------------------------------
(***************************************************************************)
(* The list of integrations (SettingsFanoutSection): toggled, renamed in   *)
(* place, edited, created and deleted, each by a request that is followed  *)
(* by loading the list again. A handler is a job: its request is sent,     *)
(* carried out by the server or refused, and answered; then it loads the   *)
(* list and ends.  Jobs overlap. The world holds "reorders" (the answers   *)
(* may overtake each other), "refuses" (the server may refuse), "leaves"   *)
(* (the reader opens another form while one is being saved) and "hurries"  *)
(* (the reader opens the form of an integration that is being renamed).    *)
(***************************************************************************)
Ids == {"a", "b"}
Absent == [name |-> 0, value |-> 0, on |-> FALSE]
Listed(list, id) == list[id] # Absent

-----------------------------------------------------------------------------

FanoutInit ==
  \E world \in FanoutWorlds :
    LET first == [id \in Ids |-> IF id = "a" THEN [name |-> 1, value |-> 1, on |-> TRUE] ELSE Absent]
    IN  ui = [world |-> world, server |-> first, list |-> first, asked |-> first,
              jobs |-> <<>>, sent |-> 0, typed |-> 1, served |-> 0, refused |-> FALSE,
              busy |-> FALSE,
              form |-> "none", draft |-> FALSE, name |-> 0, value |-> 0, lost |-> FALSE,
              inline |-> "none", inlineName |-> 0]

\* fanoutDraftHasUnsavedChanges, for a form with an original.
Unsaved(u) ==
  /\ u.form # "none"
  /\ u.draft \/ u.name # u.list[u.form].name \/ u.value # u.list[u.form].value

Saving(u) == \E i \in DOMAIN u.jobs : u.jobs[i].kind = "save"
Renaming(u, id) == \E i \in DOMAIN u.jobs : u.jobs[i].kind = "rename" /\ u.jobs[i].id = id

\* A handler sends its request; form is what its closure saw open.
Send(u, job) ==
  /\ u.sent < MaxJobs
  /\ ui' = [u EXCEPT !.sent = @ + 1,
                     !.jobs = Append(@, job @@ [stage |-> "sent", form |-> u.form])]

\* The form is a screen of its own: the list and its controls are elsewhere.
OnList == ui.form = "none"

\* handleToggleEnabled
Toggle(id) ==
  /\ OnList /\ Listed(ui.list, id)
  /\ LET on == ~ui.list[id].on
     IN  Send([ui EXCEPT !.asked[id].on = on], [kind |-> "toggle", id |-> id, on |-> on])

\* handleStartInlineEdit
StartInlineEdit(id) ==
  /\ OnList /\ Listed(ui.list, id) /\ ui.inline = "none"
  /\ ui' = [ui EXCEPT !.inline = id, !.inlineName = ui.list[id].name]

TypeInline ==
  /\ ui.inline # "none" /\ ui.typed < MaxTyped
  /\ ui' = [ui EXCEPT !.typed = @ + 1, !.inlineName = ui.typed + 1]

\* handleInlineNameSave, when the field loses the focus.
SaveInline ==
  /\ ui.inline # "none" /\ OnList
  /\ LET id == ui.inline
     IN  IF ui.inlineName = ui.list[id].name
         THEN ui' = [ui EXCEPT !.inline = "none", !.inlineName = 0]
         ELSE Send([ui EXCEPT !.asked[id].name = ui.inlineName],
                   [kind |-> "rename", id |-> id, name |-> ui.inlineName])

\* handleCancelInlineEdit
CancelInline ==
  /\ ui.inline # "none"
  /\ ui' = [ui EXCEPT !.inline = "none", !.inlineName = 0]

\* handleEdit
FanoutEdit(id) ==
  /\ OnList /\ Listed(ui.list, id)
  /\ Saving(ui) => "leaves" \in ui.world
  /\ Renaming(ui, id) => "hurries" \in ui.world
  /\ ui' = [ui EXCEPT !.form = id, !.draft = FALSE, !.inline = "none", !.inlineName = 0,
                      !.name = ui.list[id].name, !.value = ui.list[id].value]

\* handleAddCreate
Create ==
  /\ OnList /\ ~Listed(ui.list, "b") /\ ~Listed(ui.server, "b") /\ ui.typed < MaxTyped
  /\ Saving(ui) => "leaves" \in ui.world
  /\ ui' = [ui EXCEPT !.form = "b", !.draft = TRUE, !.typed = @ + 1,
                      !.name = ui.typed + 1, !.value = 1]

Type ==
  /\ ui.form # "none" /\ ui.typed < MaxTyped /\ ~Saving(ui)
  /\ ui' = [ui EXCEPT !.typed = @ + 1, !.value = ui.typed + 1]

TypeName ==
  /\ ui.form # "none" /\ ui.typed < MaxTyped /\ ~Saving(ui)
  /\ ui' = [ui EXCEPT !.typed = @ + 1, !.name = ui.typed + 1]

\* handleBackToList: the reader confirms the loss of what is not saved.
FanoutBack ==
  /\ ui.form # "none"
  /\ ui' = [ui EXCEPT !.form = "none", !.draft = FALSE]

\* handleSave
Save(on) ==
  /\ ui.form # "none" /\ ~ui.busy
  /\ LET id == ui.form
         new == [name |-> ui.name, value |-> ui.value, on |-> on]
         \* What the reader never changed is not something they asked for.
         name == IF ui.draft \/ ui.name # ui.list[id].name THEN ui.name ELSE ui.asked[id].name
     IN  Send([ui EXCEPT !.busy = TRUE, !.asked[id] = [new EXCEPT !.name = name]],
              [kind |-> "save", id |-> id, new |-> new, draft |-> ui.draft])

\* handleDelete, confirmed: from the form of an existing integration.
Delete ==
  /\ ui.form # "none" /\ ~ui.draft
  /\ Send([ui EXCEPT !.asked[ui.form] = Absent], [kind |-> "delete", id |-> ui.form])

-----------------------------------------------------------------------------
(* The server, and the rest of the handlers.                               *)

\* Requests are carried out one after the other, in the order they were sent.
Serve(i) ==
  LET job == ui.jobs[i]
      done == [ui EXCEPT !.jobs[i].stage = "done"]
  IN  /\ job.stage = "sent"
      /\ \A j \in 1 .. i - 1 : ui.jobs[j].stage # "sent"
      /\ ui' = CASE ~Listed(ui.server, job.id) /\ ~(job.kind = "save" /\ job.draft) ->
                      [ui EXCEPT !.jobs[i].stage = "refused", !.refused = TRUE]
                 [] job.kind = "toggle" -> [done EXCEPT !.server[job.id].on = job.on]
                 [] job.kind = "rename" -> [done EXCEPT !.server[job.id].name = job.name]
                 [] job.kind = "save" -> [done EXCEPT !.server[job.id] = job.new]
                 [] OTHER -> [done EXCEPT !.server[job.id] = Absent]

Refuse(i) ==
  /\ "refuses" \in ui.world /\ ui.jobs[i].stage = "sent"
  /\ \A j \in 1 .. i - 1 : ui.jobs[j].stage # "sent"
  /\ ui' = [ui EXCEPT !.jobs[i].stage = "refused", !.refused = TRUE]

\* The form closes; lost records one closed over by a job that is not its own.
Close(u, job) ==
  [u EXCEPT !.form = "none", !.draft = FALSE,
            !.lost = @ \/ (u.form # "none" /\ u.form # job.form /\ Unsaved(u))]

\* The answer to the request: the handler goes on to load the list.
Answered(i) ==
  LET job == ui.jobs[i]
      loading == [ui EXCEPT !.jobs[i].stage = "loading"]
  IN  /\ job.stage = "done"
      /\ \A j \in 1 .. i - 1 : ui.jobs[j].stage # "done" \/ "reorders" \in ui.world
      /\ ui' = CASE job.kind = "save" -> Close(loading, job)
                 [] job.kind = "delete" -> IF ui.form = job.id THEN Close(loading, job) ELSE loading
                 [] job.kind = "rename" /\ job.form = job.id -> [loading EXCEPT !.name = job.name]
                 [] OTHER -> loading

\* getFanoutConfigs is served.
ServeList(i) ==
  /\ ui.jobs[i].stage = "loading"
  /\ ui' = [ui EXCEPT !.jobs[i] = @ @@ [snap |-> ui.server, at |-> ui.served + 1],
                      !.jobs[i].stage = "loaded", !.served = @ + 1]

Without(jobs, i) == [j \in 1 .. Len(jobs) - 1 |-> jobs[IF j < i THEN j ELSE j + 1]]

\* What a handler does last.
Finished(u, i) ==
  LET job == u.jobs[i]
      rest == [u EXCEPT !.jobs = Without(@, i)]
  IN  CASE job.kind = "save" -> [rest EXCEPT !.busy = FALSE]
        [] job.kind = "rename" -> [rest EXCEPT !.inline = "none", !.inlineName = 0]
        [] OTHER -> rest

\* A list that was served earlier arrives earlier, unless answers overtake.
Arrives(i) ==
  /\ ui.jobs[i].stage = "loaded"
  /\ "reorders" \in ui.world
     \/ \A j \in DOMAIN ui.jobs : ui.jobs[j].stage = "loaded" => ui.jobs[i].at <= ui.jobs[j].at

\* loadConfigs: whatever list arrives is shown.
Loaded(i) ==
  /\ Arrives(i)
  /\ ui' = Finished([ui EXCEPT !.list = ui.jobs[i].snap], i)

\* Refused: the handler reports it and asks for no list.
Failed(i) ==
  /\ ui.jobs[i].stage = "refused"
  /\ ui' = Finished(ui, i)

FanoutNext ==
  \/ \E id \in Ids : Toggle(id) \/ StartInlineEdit(id) \/ FanoutEdit(id)
  \/ TypeInline
  \/ SaveInline
  \/ CancelInline
  \/ Create
  \/ Type
  \/ TypeName
  \/ FanoutBack
  \/ \E on \in BOOLEAN : Save(on)
  \/ Delete
  \/ \E i \in DOMAIN ui.jobs :
       Serve(i) \/ Refuse(i) \/ Answered(i) \/ ServeList(i) \/ Loaded(i) \/ Failed(i)

-----------------------------------------------------------------------------
(* Properties.                                                             *)

FanoutTypeOK ==
  /\ ui.world \in FanoutWorlds /\ Len(ui.jobs) <= MaxJobs /\ ui.typed <= MaxTyped
  /\ ui.form \in Ids \cup {"none"} /\ ui.inline \in Ids \cup {"none"}
  /\ ui.draft => ui.form = "b"
  /\ ui.busy = Saving(ui)

\* Once no request is under way the list shows the integrations the server
\* has, however many were toggled, renamed, saved and deleted at a time:
\* every handler loads the list after its own change (loadConfigs).
ListTrue ==
  ui.jobs = <<>> /\ "reorders" \notin ui.world => ui.list = ui.server

\* Once no request is under way, and none was refused, the server has the
\* names, values and switches the reader last asked for: no form writes back
\* a name that was changed in place (handleInlineNameSave, handleSave).
AskedStored ==
  ui.jobs = <<>> /\ ~ui.refused /\ "hurries" \notin ui.world => ui.server = ui.asked

\* A form with changes that are not saved is closed by its own save or
\* deletion or by the reader, never by the end of another job (handleSave).
UnsavedKept == "leaves" \notin ui.world => ~ui.lost
=============================================================================
