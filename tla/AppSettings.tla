----------------------------- MODULE AppSettings ----------------------------
(***************************************************************************)
(* The settings of the server, and the preferences every browser shares.   *)
(***************************************************************************)
EXTENDS Integers, Sequences, FiniteSets, SequencesExt

CONSTANTS AppWorlds,
          MaxJobs,
          MaxTyped,
          PreferenceWorlds,
          MaxEdits

VARIABLE ui

-----------------------------------------------------------------------------
(***************************************************************************)
(* The settings of the application as the client holds them                *)
(* (useAppSettings) and the groups of the radio section that edit them:    *)
(* the messaging group, the advert interval, the switches that save at     *)
(* once, and the toggles shown before they are stored (blocked keys and    *)
(* names, tracked telemetry).  With it the one-time migration of the       *)
(* favourites an old client kept in the browser. Every object that arrives *)
(* replaces the settings as a whole and with them the drafts.              *)
(* Circumstances of a world: "refuses" - a request may fail; "reorders" -  *)
(* requests or answers overtake each other; "legacy" - the browser holds   *)
(* favourites of the old client; "starred" - one of them was starred on    *)
(* the server meanwhile; "closes" - the page is closed while it migrates.  *)
(***************************************************************************)
AppNoSettings == [none |-> TRUE]
Legacy == {"f", "g"}
Order == <<"f", "g">>
Fields == {"scope", "interval", "resend", "blocked", "tracked"}
Drafted == {"scope", "interval"}

AppInit ==
  \E w \in AppWorlds :
    ui = [world |-> w, srv |-> [f \in Fields |-> 0], app |-> AppNoSettings,
          draft |-> [f \in Drafted |-> 0], asked |-> [f \in Drafted |-> 0],
          jobs |-> <<>>, answers |-> <<>>, made |-> 0, typed |-> 0, failed |-> FALSE,
          legacy |-> "legacy" \in w, migrated |-> FALSE, left |-> <<>>,
          stars |-> [f \in Legacy |-> "starred" \in w /\ f = "f"]]

AppLoaded == ui.app # AppNoSettings
Quiet == ui.jobs = <<>> /\ ui.answers = <<>>

\* A request; the settings a page opens with are one too.
AppSend(u, kind, update) ==
  /\ ui.made < MaxJobs
  /\ ui' = [u EXCEPT !.made = @ + 1,
                     !.jobs = Append(@, [id |-> ui.made, kind |-> kind, update |-> update, value |-> 0])]

Nothing == [f \in {} |-> 0]

\* fetchAppSettings when the page opens, and again after a reconnection.
AppOpen == ~AppLoaded /\ Quiet /\ AppSend(ui, "fetch", Nothing)

-----------------------------------------------------------------------------
(* The groups of the form.                                                 *)

Type(f) ==
  /\ AppLoaded /\ ui.typed < MaxTyped
  /\ ui' = [ui EXCEPT !.draft[f] = 1 - @, !.typed = @ + 1]

\* messagingDirty, advertIntervalDirty
Dirty(f) == AppLoaded /\ ui.draft[f] # ui.app[f]

\* floodBusy, advertIntervalBusy
Busy(f) == \E k \in DOMAIN ui.jobs : ui.jobs[k].kind = "save" /\ f \in DOMAIN ui.jobs[k].update

\* resetMessaging
Reset(f) ==
  /\ Dirty(f) /\ ~Busy(f)
  /\ ui' = [ui EXCEPT !.draft[f] = ui.app[f]]

\* handleSaveFloodSettings, handleSaveAdvertInterval: only what changed.
SaveGroup(f) ==
  /\ Dirty(f) /\ ~Busy(f)
  /\ AppSend([ui EXCEPT !.asked[f] = ui.draft[f]], "save", [x \in {f} |-> ui.draft[x]])

\* auto_resend_channel and the workarounds: saved as they are switched, with
\* the box showing the settings, not the wish.
Switch ==
  /\ AppLoaded /\ ~Busy("resend")
  /\ AppSend(ui, "save", [x \in {"resend"} |-> 1 - ui.app.resend])

-----------------------------------------------------------------------------
(* The toggles.                                                            *)

\* handleToggleBlockedKey, handleToggleBlockedName
ToggleBlocked == AppLoaded /\ AppSend([ui EXCEPT !.app.blocked = 1 - @, !.draft = [f \in Drafted |-> ui.app[f]]], "blocked", Nothing)

\* handleToggleTrackedTelemetry, handleToggleTrackedTelemetryContact
ToggleTracked == AppLoaded /\ AppSend([ui EXCEPT !.app.tracked = 1 - @, !.draft = [f \in Drafted |-> ui.app[f]]], "tracked", Nothing)

AppJob(k, kinds) ==
  /\ k \in DOMAIN ui.jobs /\ ui.jobs[k].kind \in kinds
  /\ "reorders" \in ui.world \/ \A j \in 1 .. k - 1 : ui.jobs[j].kind \notin kinds

Updated(s, update) == [f \in Fields |-> IF f \in DOMAIN update THEN update[f] ELSE s[f]]

\* PATCH /settings, then the settings are fetched.
AppSaved(k) ==
  /\ AppJob(k, {"save"})
  /\ \/ ui' = [ui EXCEPT !.srv = Updated(@, ui.jobs[k].update), !.jobs[k].kind = "fetch"]
     \/ /\ "refuses" \in ui.world
        /\ ui' = [ui EXCEPT !.jobs = RemoveAt(@, k), !.failed = TRUE]

Answer(u, k, s) ==
  [u EXCEPT !.jobs = RemoveAt(@, k),
            !.answers = Append(@, [settings |-> s, made |-> ui.jobs[k].id])]

\* The toggle of the blocked lists answers with the settings; refused, they
\* are fetched.
BlockedToggled(k) ==
  /\ AppJob(k, {"blocked"})
  /\ \/ LET s == [ui.srv EXCEPT !.blocked = 1 - @] IN ui' = Answer([ui EXCEPT !.srv = s], k, s)
     \/ "refuses" \in ui.world /\ ui' = [ui EXCEPT !.jobs[k].kind = "fetch", !.failed = TRUE]

\* The toggle of the tracked lists answers with its list, which is put over
\* the settings fetched next.
TrackedToggled(k) ==
  /\ AppJob(k, {"tracked"})
  /\ \/ ui' = [ui EXCEPT !.srv.tracked = 1 - @, !.jobs[k].kind = "merge", !.jobs[k].value = 1 - ui.srv.tracked]
     \/ "refuses" \in ui.world /\ ui' = [ui EXCEPT !.jobs[k].kind = "fetch", !.failed = TRUE]

\* GET /settings
AppFetched(k) ==
  /\ AppJob(k, {"fetch", "merge"})
  /\ ui' = Answer(ui, k, IF ui.jobs[k].kind = "merge" THEN [ui.srv EXCEPT !.tracked = ui.jobs[k].value]
                         ELSE ui.srv)

\* The migration starts with the first settings, once (hasMigratedRef).
MigrateEffect(u) ==
  IF u.migrated \/ ~u.legacy THEN u ELSE [u EXCEPT !.migrated = TRUE, !.left = Order]

\* setAppSettings, and the drafts resynchronised while rendering.
Land(k) ==
  /\ k \in DOMAIN ui.answers /\ (k = 1 \/ "reorders" \in ui.world)
  /\ LET s == ui.answers[k].settings
     IN  ui' = MigrateEffect([ui EXCEPT !.app = s, !.draft = [f \in Drafted |-> s[f]],
                                        !.answers = RemoveAt(@, k)])

-----------------------------------------------------------------------------
(* The favourites of the old client.                                       *)

Reloaded(u) == [u EXCEPT !.app = AppNoSettings, !.jobs = <<>>, !.answers = <<>>, !.migrated = FALSE,
                         !.left = <<>>, !.typed = MaxTyped]

\* migrate: one toggle after the other; then the key is removed and the page
\* reloaded.  A favourite that is gone is skipped.
MigrateOne ==
  /\ ui.left # <<>>
  /\ LET f == Head(ui.left)
         u == [ui EXCEPT !.stars[f] = ~@, !.left = Tail(@)]
     IN  ui' = IF Len(ui.left) > 1 THEN u ELSE Reloaded([u EXCEPT !.legacy = FALSE])

ClosePage ==
  /\ "closes" \in ui.world /\ ui.left # <<>> /\ ui.made < MaxJobs
  /\ ui' = Reloaded(ui)

AppNext ==
  \/ AppOpen
  \/ \E f \in Drafted : Type(f)
  \/ \E f \in Drafted : Reset(f)
  \/ \E f \in Drafted : SaveGroup(f)
  \/ Switch
  \/ ToggleBlocked
  \/ ToggleTracked
  \/ \E k \in 1 .. MaxJobs : AppSaved(k)
  \/ \E k \in 1 .. MaxJobs : BlockedToggled(k)
  \/ \E k \in 1 .. MaxJobs : TrackedToggled(k)
  \/ \E k \in 1 .. MaxJobs : AppFetched(k)
  \/ \E k \in 1 .. MaxJobs : Land(k)
  \/ MigrateOne
  \/ ClosePage

-----------------------------------------------------------------------------
(* Properties.                                                             *)

AppTypeOK ==
  /\ ui.app = AppNoSettings \/ DOMAIN ui.app = Fields
  /\ ui.srv \in [Fields -> 0 .. 1] /\ ui.made \in 0 .. MaxJobs /\ Len(ui.left) <= 2

\* When every request has been answered, the client's settings are the
\* server's, however saves, switches and optimistic toggles overlapped and
\* whichever of them was refused (handleSaveAppSettings and the toggles).
SettledTrue ==
  "reorders" \notin ui.world /\ AppLoaded /\ Quiet => ui.app = ui.srv

\* Then too, a group that is not marked as changed shows what is stored, and
\* what was saved last is stored (messagingDirty, advertIntervalDirty).
SavedAndShown ==
  ui.world \cap {"reorders", "refuses", "legacy"} = {} /\ AppLoaded /\ Quiet =>
    \A f \in Drafted : ~Dirty(f) => ui.draft[f] = ui.srv[f] /\ ui.asked[f] = ui.srv[f]

\* After the migration every favourite of the old client is one on the server
\* (the migration toggles; it starts once per page and ends with a reload).
FavouritesMigrated ==
  "legacy" \in ui.world /\ ui.world \cap {"starred", "closes"} = {} /\ ~ui.legacy => ui.stars = [f \in Legacy |-> TRUE]

-----------------------------------------------------------------------------
(***************************************************************************)
(* The preferences kept with the instance (ui_preferences): the desktop    *)
(* rail, the theme and the label of the server, on the devices that reach  *)
(* it.  Every edit sends the three together, with what the device knows of *)
(* the other two; then the settings are fetched (useAppSettings,           *)
(* SettingsNavigationSection, ThemeSelector, utils/theme, serverLabel).    *)
(* Circumstances of a world: "two" - two devices; "rail" - the reader      *)
(* arranges the rail; "old" - the stored rail predates the newest tool;    *)
(* "served" - the page comes from the server, with the theme written into  *)
(* it; "hurries" - the reader edits again before the answer; "refuses" - a *)
(* save may fail; "reloads" - a page is loaded again.  The requests of one *)
(* device are served in order.                                             *)
(***************************************************************************)
Devices == {1, 2}
RailItems == <<"conversations", "map", "raw", "discovered">>
Permanent == {"conversations", "map"}
Themes == {"original", "light", "follow-os"}
PreferenceNoSettings == [none |-> TRUE]

\* A stored list may name a tool that is gone, name one twice, or lack one.
StoredRails(w) ==
  IF "old" \in w THEN {<<"raw", "gone", "raw", "map">>, <<"map", "conversations">>}
  ELSE {<<>>, <<"map", "discovered", "conversations">>}

Page(label) ==
  [app |-> PreferenceNoSettings, cached |-> "original", painted |-> "original", flag |-> FALSE,
   local |-> label, adopted |-> FALSE, jobs |-> <<>>]

PreferenceInit ==
  \E w \in PreferenceWorlds : \E rail \in StoredRails(w), label \in {"", "home"}, local \in {"", "mine"} :
    ui = [world |-> w, srv |-> [rail |-> rail, theme |-> "light", label |-> label],
          os |-> "light", dev |-> [d \in Devices |-> Page(IF d = 1 THEN local ELSE "")],
          wanted |-> label, removed |-> FALSE, edits |-> 0]

Present == IF "two" \in ui.world THEN Devices ELSE {1}
PreferenceLoaded(d) == ui.dev[d].app # PreferenceNoSettings

-----------------------------------------------------------------------------
(* The rail.                                                               *)

\* resolveRail: the known ids, each once, then the permanent ones missing.
ResolveRail(stored) ==
  LET First(k) == \A j \in 1 .. k - 1 : stored[j] # stored[k]
      places == SetToSortSeq({k \in DOMAIN stored : stored[k] \in ToSet(RailItems) /\ First(k)}, <)
      kept == [k \in DOMAIN places |-> stored[places[k]]]
  IN  IF kept = <<>> THEN RailItems
      ELSE kept \o SelectSeq(RailItems, LAMBDA id : id \in Permanent \ ToSet(kept))

\* backfillRailToolsOnce
Backfills(stored, flag) == stored # <<>> /\ "discovered" \notin ToSet(ResolveRail(stored)) /\ ~flag

\* What the section offers: move, addToRail, Remove, Reset.
RailEdits(order) ==
  LET current == ResolveRail(order)
      Swapped(k) == [current EXCEPT ![k] = current[k + 1], ![k + 1] = current[k]]
  IN  {Swapped(k) : k \in 1 .. Len(current) - 1}
      \cup {Append(current, id) : id \in ToSet(RailItems) \ ToSet(current)}
      \cup {SelectSeq(current, LAMBDA id : id # gone) : gone \in ToSet(current) \ Permanent}
      \cup {RailItems}

-----------------------------------------------------------------------------
(* The theme.                                                              *)

Effective(theme, os) == IF theme = "follow-os" THEN os ELSE theme

\* applyTheme
ApplyTheme(u, d, theme) ==
  [u EXCEPT !.dev[d].cached = theme, !.dev[d].painted = Effective(theme, u.os)]

\* adoptStoredTheme: a page the server painted is left as it is.
AdoptStoredTheme(u, d, theme) ==
  IF "served" \in u.world THEN [u EXCEPT !.dev[d].cached = theme]
  ELSE IF theme = u.dev[d].cached THEN u
  ELSE ApplyTheme(u, d, theme)

\* initFollowOSListener
OsChanges ==
  /\ ui.edits < MaxEdits /\ \A d \in Present : PreferenceLoaded(d)
  /\ LET os == IF ui.os = "light" THEN "original" ELSE "light"
     IN  ui' = [ui EXCEPT !.os = os, !.edits = @ + 1,
                !.dev = [d \in Devices |-> IF @[d].cached = "follow-os" THEN [@[d] EXCEPT !.painted = os] ELSE @[d]]]

-----------------------------------------------------------------------------
(* The page, and what it sends.                                            *)

PreferenceSend(u, d, kind, prefs) == [u EXCEPT !.dev[d].jobs = Append(@, [kind |-> kind, prefs |-> prefs])]

\* applyStartupTheme, then the first fetch.
PreferenceOpen(d) ==
  /\ d \in Present /\ ~PreferenceLoaded(d) /\ ui.dev[d].jobs = <<>>
  /\ LET theme == IF "served" \in ui.world THEN ui.srv.theme ELSE ui.dev[d].cached
     IN  ui' = PreferenceSend([ui EXCEPT !.dev[d].painted = Effective(theme, ui.os)], d, "fetch", ui.srv)

Reload(d) ==
  /\ "reloads" \in ui.world /\ PreferenceLoaded(d) /\ ui.dev[d].jobs = <<>> /\ ui.edits < MaxEdits
  /\ ui' = [ui EXCEPT !.edits = @ + 1, !.dev[d] = [@ EXCEPT !.app = PreferenceNoSettings, !.adopted = FALSE]]

CanEdit(d) ==
  /\ PreferenceLoaded(d) /\ ui.edits < MaxEdits
  /\ ui.dev[d].jobs = <<>> \/ "hurries" \in ui.world

Known(d) == ui.dev[d].app
Edited(u) == [u EXCEPT !.edits = @ + 1]

\* SettingsNavigationSection's onChange lists the fields, and the label is
\* not one of them.
EditRail(d) ==
  /\ "rail" \in ui.world /\ CanEdit(d)
  /\ \E rail \in RailEdits(Known(d).rail) :
       ui' = PreferenceSend([Edited(ui) EXCEPT !.removed = "discovered" \notin ToSet(rail)],
                  d, "save", [Known(d) EXCEPT !.rail = rail, !.label = ""])

\* ThemeSelector's handleChange: applied, then stored.
EditTheme(d) ==
  /\ CanEdit(d)
  /\ \E theme \in Themes \ {Known(d).theme} :
       ui' = PreferenceSend(ApplyTheme(Edited(ui), d, theme), d, "save", [Known(d) EXCEPT !.theme = theme])

\* editLabel
EditLabel(d) ==
  /\ CanEdit(d)
  /\ \E label \in {"", "home", "work"} \ {Known(d).label} :
       ui' = PreferenceSend([Edited(ui) EXCEPT !.wanted = label], d, "save", [Known(d) EXCEPT !.label = label])

-----------------------------------------------------------------------------
(* The answers.                                                            *)

PreferenceJob(d, kind) == ui.dev[d].jobs # <<>> /\ Head(ui.dev[d].jobs).kind = kind
Rest(u, d) == [u EXCEPT !.dev[d].jobs = Tail(@)]

\* PATCH /settings, which keeps the preferences as they were sent, and then
\* the fetch of handleSaveAppSettings.
PreferenceSaved(d) ==
  /\ PreferenceJob(d, "save")
  /\ \/ ui' = PreferenceSend(Rest([ui EXCEPT !.srv = Head(ui.dev[d].jobs).prefs], d), d, "fetch", ui.srv)
     \/ "refuses" \in ui.world /\ ui' = Rest(ui, d)

\* GET /settings
PreferenceFetched(d) ==
  /\ PreferenceJob(d, "fetch")
  /\ ui' = [ui EXCEPT !.dev[d].jobs[1] = [kind |-> "answer", prefs |-> ui.srv]]

\* The effect of App that hands over the label this browser was carrying.
AdoptLabel(u, d) ==
  LET page == u.dev[d]
  IN  IF page.adopted \/ page.app.label # "" \/ page.local = "" THEN u
      ELSE PreferenceSend([u EXCEPT !.dev[d].adopted = TRUE, !.wanted = page.local],
                d, "save", [page.app EXCEPT !.label = page.local])

\* fetchAppSettings: what arrived is shown, with the newest tool when the
\* stored rail predates it, and that is stored without the label.
Landed(d) ==
  /\ PreferenceJob(d, "answer")
  /\ LET data == Head(ui.dev[d].jobs).prefs
         more == Backfills(data.rail, ui.dev[d].flag)
         next == IF more THEN [data EXCEPT !.rail = Append(ResolveRail(data.rail), "discovered"), !.label = ""]
                 ELSE data
         u == AdoptStoredTheme([Rest(ui, d) EXCEPT !.dev[d].app = next], d, data.theme)
     IN  ui' = AdoptLabel(IF more THEN PreferenceSend(u, d, "backfill", next)
                          ELSE [u EXCEPT !.dev[d].flag = TRUE], d)

BackfillStored(d) ==
  /\ PreferenceJob(d, "backfill")
  /\ \/ ui' = Rest([ui EXCEPT !.srv = Head(ui.dev[d].jobs).prefs, !.dev[d].flag = TRUE], d)
     \/ "refuses" \in ui.world /\ ui' = Rest(ui, d)

PreferenceNext ==
  \/ \E d \in Devices : PreferenceOpen(d)
  \/ \E d \in Devices : Reload(d)
  \/ OsChanges
  \/ \E d \in Devices : EditRail(d)
  \/ \E d \in Devices : EditTheme(d)
  \/ \E d \in Devices : EditLabel(d)
  \/ \E d \in Devices : PreferenceSaved(d)
  \/ \E d \in Devices : PreferenceFetched(d)
  \/ \E d \in Devices : Landed(d)
  \/ \E d \in Devices : BackfillStored(d)

-----------------------------------------------------------------------------
(* Properties.                                                             *)

PreferenceTypeOK ==
  /\ ui.srv.theme \in Themes /\ ui.os \in {"light", "original"} /\ ui.edits \in 0 .. MaxEdits
  /\ \A d \in Devices : ui.dev[d].cached \in Themes /\ ui.dev[d].painted \in {"light", "original"}

Idle(d) == PreferenceLoaded(d) /\ ui.dev[d].jobs = <<>>

\* Whatever list is stored, and however it was arranged, extended or stored
\* by another device, the rail a device draws holds known entries, each once,
\* and every permanent one (resolveRail).
RailUsable ==
  \A d \in Present : PreferenceLoaded(d) =>
    LET rail == ResolveRail(ui.dev[d].app.rail)
    IN  /\ ToSet(rail) \subseteq ToSet(RailItems) /\ Permanent \subseteq ToSet(rail)
        /\ Cardinality(ToSet(rail)) = Len(rail)

\* On one device, the newest tool is given once: removed from the rail, it
\* stays away through every later load (backfillRailToolsOnce and its flag).
RemovedStays ==
  ui.world \cap {"two", "hurries", "refuses"} = {} /\ Idle(1) /\ ui.removed =>
    "discovered" \notin ToSet(ResolveRail(ui.srv.rail)) \cup ToSet(ResolveRail(ui.dev[1].app.rail))

\* The page is painted in the theme it was last told by the instance, as the
\* operating system has it when the theme follows that, unless a save failed
\* or the server painted a page that another device then overruled
\* (adoptStoredTheme, initFollowOSListener).
PaintedAsStored ==
  \A d \in Present :
    Idle(d) /\ "refuses" \notin ui.world /\ ~({"served", "two"} \subseteq ui.world) =>
      ui.dev[d].painted = Effective(ui.dev[d].app.theme, ui.os)

\* With the rail left alone, the label is the one last given, through every
\* change of theme, and the label a browser was carrying is handed over
\* (onPersistTheme, serverLabelToAdopt).
LabelKept ==
  ui.world \subseteq {"served"} /\ Idle(1) => ui.srv.label = ui.wanted

\* Changing one preference keeps the others: the label is the one last given
\* ("listing the fields meant every theme change quietly dropped whatever
\* else lived in there", SettingsModal).
PreferencesKept == Idle(1) => ui.srv.label = ui.wanted
=============================================================================
