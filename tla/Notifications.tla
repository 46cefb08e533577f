---------------------------- MODULE Notifications ---------------------------
(***************************************************************************)
(* Notifications: push devices, preferences of a browser, and              *)
(* destinations.                                                           *)
(***************************************************************************)
EXTENDS Integers, FiniteSets, Sequences

CONSTANTS DevicesWorlds,      \* sets of "fails", "resets", "crosses"
          MaxEndpoints,       \* endpoints the browser hands out
          MaxDevicesClicks,   \* clicks of a behaviour
          BellWorlds,         \* sets of "fails"
          MaxWire,            \* patches on their way at once
          MaxBellClicks,      \* clicks of a behaviour
          DestinationsWorlds, \* sets of "hurries", "fails"
          MaxEdits            \* fields left in a behaviour

VARIABLE ui

-----------------------------------------------------------------------------
(***************************************************************************)
(* Web push in the browser (usePushSubscription) and the pages that drive  *)
(* it: this device subscribes with the server's key and registers its      *)
(* endpoint; the settings page lists the registered devices and removes    *)
(* them; the bell of a conversation subscribes before it turns push on.    *)
(* Four tasks have awaits of their own: "load" (first mount), "page" (the  *)
(* settings page), "sub" (subscribe) and "del" (a device removed).  An     *)
(* endpoint is a number, 0 for none; a row is a registration on the server *)
(* (the other devices' rows play no part).                                 *)
(***************************************************************************)
Tasks == {"load", "page", "sub", "del"}

NoTask == [pc |-> "idle", key |-> 0, list |-> {}, id |-> 0, own |-> FALSE, bell |-> FALSE]

DevicesInit ==
  \E w \in DevicesWorlds :
    ui = [world |-> w, endpoint |-> 0, endpointKey |-> 0, handed |-> 0, serverKey |-> 1, rows |-> {}, ids |-> 0,
          current |-> 0, listed |-> {}, loading |-> FALSE, tasks |-> [t \in Tasks |-> IF t = "load" THEN [NoTask EXCEPT !.pc = "list"] ELSE NoTask],
          bell |-> FALSE, failed |-> FALSE, clicks |-> 0]

DevicesIn(w) == w \in ui.world

DevicesClick == ui.clicks < MaxDevicesClicks

DevicesClicked == [ui EXCEPT !.clicks = @ + 1]

Idle == \A t \in Tasks : ui.tasks[t].pc = "idle"

\* A click that starts a task while another is under way.
MayStart(t) == DevicesClick /\ ui.tasks[t].pc = "idle" /\ (Idle \/ DevicesIn("crosses"))

At(t, pc) == ui.tasks[t].pc = pc

-----------------------------------------------------------------------------
(* The list of devices and which of them is this one *)

\* reconcileCurrentSubscription
ReconcileCurrentSubscription(u, list) ==
  LET match == {r \in list : u.endpoint # 0 /\ r.ep = u.endpoint}
  IN [u EXCEPT !.listed = {r.id : r \in list},
               !.current = IF match = {} THEN 0 ELSE (CHOOSE r \in match : TRUE).id]

\* What follows a task: subscribing lets the button go, and the override
\* of the conversation whose bell asked for it is sent.
Finish(u, t) ==
  [u EXCEPT !.tasks[t] = NoTask,
            !.loading = IF t = "sub" THEN FALSE ELSE @,
            !.bell = @ \/ u.tasks[t].bell]

\* The rows of the server, asked for first.
ListAnswered ==
  \E t \in Tasks :
    /\ At(t, "list")
    /\ ui' = [ui EXCEPT !.tasks[t] = [@ EXCEPT !.pc = "ready", !.list = ui.rows]]

\* Then the browser's own subscription.
Ready ==
  \E t \in Tasks :
    /\ At(t, "ready")
    /\ ui' = [Finish(ReconcileCurrentSubscription(ui, ui.tasks[t].list), t) EXCEPT !.failed = FALSE]

\* The list could not be had or the worker never came up: what was shown stays.
RefreshFailed ==
  \E t \in Tasks :
    /\ DevicesIn("fails")
    /\ At(t, "list") \/ At(t, "ready")
    /\ ui' = [Finish(ui, t) EXCEPT !.failed = TRUE]

\* The settings page opens.
RefreshSubscriptions ==
  /\ MayStart("page")
  /\ ui' = [DevicesClicked EXCEPT !.tasks["page"] = [NoTask EXCEPT !.pc = "list"]]

-----------------------------------------------------------------------------
(* Subscribing *)

\* The button shows only without a current device.
SubscribeButton == MayStart("sub") /\ ui.current = 0 /\ ~ui.loading

Subscribe(u, bell) == [u EXCEPT !.loading = TRUE, !.tasks["sub"] = [NoTask EXCEPT !.pc = "key", !.bell = bell]]

HandleSubscribe ==
  /\ SubscribeButton
  /\ ui' = Subscribe(DevicesClicked, FALSE)

\* onSetConversationMedia: turning push on subscribes this device first.
HandleSetConversationMedia ==
  /\ MayStart("sub") /\ ~ui.bell
  /\ ui' = IF ui.current = 0 THEN Subscribe(DevicesClicked, TRUE) ELSE [DevicesClicked EXCEPT !.bell = TRUE]

KeyAnswered ==
  /\ At("sub", "key")
  /\ ui' = [ui EXCEPT !.tasks["sub"] = [@ EXCEPT !.pc = "browser", !.key = ui.serverKey]]

\* requiresRecreate: the browser's subscription was made with another key.
RequiresRecreate(u) == u.endpoint # 0 /\ u.endpointKey # u.tasks["sub"].key

\* getSubscription, unsubscribe and pushManager.subscribe
BrowserSubscribes ==
  /\ At("sub", "browser")
  /\ LET keep == ui.endpoint # 0 /\ ~RequiresRecreate(ui) IN
     /\ keep \/ ui.handed < MaxEndpoints
     /\ ui' = [ui EXCEPT !.endpoint = IF keep THEN @ ELSE ui.handed + 1,
                         !.endpointKey = IF keep THEN @ ELSE ui.tasks["sub"].key,
                         !.handed = IF keep THEN @ ELSE @ + 1,
                         !.tasks["sub"] = [@ EXCEPT !.pc = "post", !.list = {IF keep THEN [ep |-> ui.endpoint, key |-> ui.endpointKey]
                                                                        ELSE [ep |-> ui.handed + 1, key |-> ui.tasks["sub"].key]}]]

\* The server registers the endpoint, once.
Register(rows, ids, ep, key) ==
  IF \E r \in rows : r.ep = ep THEN {IF r.ep = ep THEN [r EXCEPT !.key = key] ELSE r : r \in rows}
  ELSE rows \cup {[id |-> ids + 1, ep |-> ep, key |-> key]}

\* pushSubscribe answered; the list is refreshed.
Registered ==
  /\ At("sub", "post")
  /\ LET sub == CHOOSE x \in ui.tasks["sub"].list : TRUE
         ep == sub.ep
         rows == Register(ui.rows, ui.ids, ep, sub.key) IN
     ui' = [ui EXCEPT !.rows = rows, !.ids = IF \E r \in ui.rows : r.ep = ep THEN @ ELSE @ + 1,
                      !.current = (CHOOSE r \in rows : r.ep = ep).id,
                      !.tasks["sub"] = [@ EXCEPT !.pc = "list", !.list = {}]]

\* Any await of subscribe throws: no key, no worker, permission refused, no answer.
SubscribeFailed ==
  /\ DevicesIn("fails")
  /\ ui.tasks["sub"].pc \in {"key", "browser", "post"}
  /\ ui' = [Finish(ui, "sub") EXCEPT !.failed = TRUE]

-----------------------------------------------------------------------------
(* Removing a device *)

DeviceRows == MayStart("del")

HandleDelete ==
  \E id \in ui.listed :
    /\ DeviceRows
    /\ ui' = [DevicesClicked EXCEPT !.tasks["del"] = [NoTask EXCEPT !.pc = "post", !.id = id, !.own = id = ui.current]]

\* deletePushSubscription answered: this device forgets itself first.
DeleteAnswered ==
  /\ At("del", "post")
  /\ \/ ui' = [ui EXCEPT !.rows = {r \in @ : r.id # ui.tasks["del"].id}, !.current = IF ui.tasks["del"].own THEN 0 ELSE @,
                         !.tasks["del"] = [@ EXCEPT !.pc = IF ui.tasks["del"].own THEN "unsub" ELSE "list"]]
     \/ DevicesIn("fails") /\ ui' = [ui EXCEPT !.tasks["del"] = NoTask, !.failed = TRUE]

\* Best effort: an error is caught.
BrowserUnsubscribes ==
  /\ At("del", "unsub")
  /\ \/ ui' = [ui EXCEPT !.endpoint = 0, !.endpointKey = 0, !.tasks["del"] = [@ EXCEPT !.pc = "list"]]
     \/ DevicesIn("fails") /\ ui' = [ui EXCEPT !.tasks["del"] = [@ EXCEPT !.pc = "list"]]

\* The server starts from a new database, with new keys.
ServerReset ==
  /\ DevicesIn("resets") /\ DevicesClick /\ Idle /\ ui.serverKey = 1
  /\ ui' = [DevicesClicked EXCEPT !.serverKey = 2, !.rows = {}, !.failed = TRUE]

-----------------------------------------------------------------------------
DevicesNext ==
  \/ ListAnswered \/ Ready \/ RefreshFailed \/ RefreshSubscriptions
  \/ HandleSubscribe \/ HandleSetConversationMedia \/ KeyAnswered \/ BrowserSubscribes \/ Registered \/ SubscribeFailed
  \/ HandleDelete \/ DeleteAnswered \/ BrowserUnsubscribes \/ ServerReset

-----------------------------------------------------------------------------
\* The state is well formed.
DevicesTypeOK ==
  /\ ui.world \in DevicesWorlds /\ ui.clicks \in 0..MaxDevicesClicks
  /\ ui.endpoint \in 0..MaxEndpoints /\ ui.handed \in 0..MaxEndpoints /\ ui.endpointKey \in 0..2 /\ ui.serverKey \in 1..2
  /\ \A r \in ui.rows : r.id \in 1..ui.ids /\ r.ep \in 1..MaxEndpoints /\ r.key \in 1..2
  /\ ui.current \in 0..ui.ids /\ ui.listed \subseteq 1..ui.ids
  /\ \A t \in Tasks : ui.tasks[t].pc \in {"idle", "list", "ready", "key", "browser", "post", "unsub"}
  /\ ui.loading \in BOOLEAN /\ ui.bell \in BOOLEAN /\ ui.failed \in BOOLEAN

\* The device marked as this one is this one: once every task of
\* usePushSubscription is over and the last refresh went through, whatever
\* failed or changed on the server before it, the current id is that of the row with the
\* browser's endpoint, and there is none without such a row.
ThisDevice ==
  Idle /\ ~ui.failed /\ ~DevicesIn("crosses") =>
    {ui.current} \ {0} = {r.id : r \in {x \in ui.rows : x.ep = ui.endpoint}}

\* A subscription and its registration go together: with nothing under
\* way the rows of the server are exactly the browser's endpoint, so a
\* removed device is really silent and no push goes to an endpoint that is
\* gone (deleteSubscription and subscribe).
SameSubscription ==
  Idle /\ ui.world = {} => {r.ep : r \in ui.rows} = {ui.endpoint} \ {0}

\* Pushes can be signed: a registered endpoint was made with the key the
\* server signs with, even when the browser still held a subscription from
\* before the server's keys changed (requiresRecreate in subscribe).
KeyAgrees == \A r \in ui.rows : r.key = ui.serverKey

-----------------------------------------------------------------------------
(***************************************************************************)
(* Which conversation notifies by which medium (pushPolicy, the            *)
(* preferences half of usePushSubscription and the pages that change       *)
(* them), and the contact address of the notifications, saved before a     *)
(* test. Patches are answered in the order sent, each with the whole       *)
(* preferences.                                                            *)
(***************************************************************************)
Media == {"push", "email"}

Conversations == {"dm", "hashtag", "plain"}

Unset == [m \in Media |-> "unset"]

\* What the server starts with: direct messages notify by push.
Preferences0 ==
  [newDm |-> [m \in Media |-> m = "push"], overrides |-> [c \in Conversations |-> Unset], subject |-> "mail"]

BellInit ==
  \E w \in BellWorlds :
    ui = [world |-> w, server |-> Preferences0, known |-> FALSE, prefs |-> Preferences0, wire |-> <<[kind |-> "get"]>>,
          draft |-> "mail", error |-> FALSE, tested |-> <<>>, clicks |-> 0]

BellIn(w) == w \in ui.world

BellClick == ui.clicks < MaxBellClicks /\ ui.known /\ Len(ui.wire) < MaxWire

BellClicked == [ui EXCEPT !.clicks = @ + 1]

-----------------------------------------------------------------------------
(* Which conversation notifies *)

\* conversationIsEnabled
ConversationIsEnabled(prefs, conv, medium) ==
  LET stored == prefs.overrides[conv] IN
  IF stored[medium] # "unset" THEN stored[medium] = "on"
  ELSE IF conv = "dm" THEN prefs.newDm[medium]
  ELSE medium = "push" /\ conv = "hashtag"

\* isConversationMediaEnabled: nothing is on before the preferences are known.
MediaShown(conv, medium) == ui.known /\ ConversationIsEnabled(ui.prefs, conv, medium)

Post(u, patch) == [u EXCEPT !.wire = Append(@, patch)]

\* onSetConversationMedia, after the device was subscribed where push goes on.
HandleSetMedia ==
  \E c \in Conversations, m \in Media :
    /\ BellClick
    /\ ui' = Post(BellClicked, [kind |-> "override", conv |-> c, medium |-> m, on |-> ~MediaShown(c, m)])

\* The list of overrides removes one.
HandleRemoveOverride ==
  \E c \in Conversations :
    /\ BellClick /\ ui.prefs.overrides[c] # Unset
    /\ ui' = Post(BellClicked, [kind |-> "remove", conv |-> c])

\* patchMedia
HandlePatchMedia ==
  \E m \in Media :
    /\ BellClick
    /\ ui' = Post(BellClicked, [kind |-> "default", medium |-> m, on |-> ~ui.prefs.newDm[m]])

\* What the server makes of a patch.
Applied(s, patch) ==
  CASE patch.kind = "override" -> [s EXCEPT !.overrides[patch.conv][patch.medium] = IF patch.on THEN "on" ELSE "off"]
    [] patch.kind = "remove" -> [s EXCEPT !.overrides[patch.conv] = Unset]
    [] patch.kind = "default" -> [s EXCEPT !.newDm[patch.medium] = patch.on]
    [] patch.kind = "subject" -> [s EXCEPT !.subject = patch.to]
    [] OTHER -> s

\* What a commit of the contact address goes on to do: the test, if asked.
Tested(u, patch) == IF patch.kind = "subject" /\ patch.test THEN [u EXCEPT !.tested = <<u.server.subject, patch.to>>] ELSE u

\* setPreferences with the answer; new preferences put the stored address
\* back into the field.
Answered ==
  /\ ui.wire # <<>>
  /\ LET patch == Head(ui.wire)
         server == Applied(ui.server, patch) IN
     ui' = Tested([ui EXCEPT !.wire = Tail(@), !.server = server, !.prefs = server, !.known = TRUE,
                             !.draft = server.subject, !.error = FALSE], patch)

\* The patch failed: a notice, and a test goes ahead all the same.
AnswerFailed ==
  /\ BellIn("fails") /\ ui.wire # <<>> /\ Head(ui.wire).kind # "get"
  /\ ui' = Tested([ui EXCEPT !.wire = Tail(@)], Head(ui.wire))

-----------------------------------------------------------------------------
(* The contact address *)

\* normalizeVapidSubject: what is typed loses its blanks, an https address its path.
NormalizeVapidSubject(typed) ==
  CASE typed = " mail" -> "mail" [] typed = "site/path" -> "site" [] OTHER -> typed

\* isValidVapidSubject
IsValidVapidSubject(typed) == typed # "bad"

HandleTypeSubject ==
  \E typed \in {" mail", "site/path", "bad"} :
    /\ BellClick /\ ui.draft # typed
    /\ ui' = [BellClicked EXCEPT !.draft = typed, !.error = FALSE]

\* commitVapidSubject, and the test that waits for it.
CommitVapidSubject(u, test) ==
  LET next == NormalizeVapidSubject(u.draft)
      patch == [kind |-> "subject", to |-> next, test |-> test] IN
  IF ~IsValidVapidSubject(u.draft) THEN [u EXCEPT !.error = TRUE]
  ELSE IF next = u.prefs.subject THEN Tested([u EXCEPT !.draft = next, !.error = FALSE], patch)
  ELSE Post([u EXCEPT !.draft = next, !.error = FALSE], patch)

HandleBlurSubject ==
  /\ BellClick
  /\ ui' = CommitVapidSubject(BellClicked, FALSE)

HandleTest ==
  /\ BellClick
  /\ ui' = CommitVapidSubject(BellClicked, TRUE)

-----------------------------------------------------------------------------
BellNext ==
  \/ HandleSetMedia \/ HandleRemoveOverride \/ HandlePatchMedia \/ Answered \/ AnswerFailed
  \/ HandleTypeSubject \/ HandleBlurSubject \/ HandleTest

-----------------------------------------------------------------------------
\* The state is well formed.
BellTypeOK ==
  /\ ui.world \in BellWorlds /\ ui.clicks \in 0..MaxBellClicks /\ Len(ui.wire) <= MaxWire
  /\ ui.known \in BOOLEAN /\ ui.error \in BOOLEAN
  /\ \A p \in {ui.server, ui.prefs} : \A c \in Conversations, m \in Media :
       p.overrides[c][m] \in {"on", "off", "unset"} /\ p.newDm[m] \in BOOLEAN

\* The bell tells what the server does: with no patch on its way, each
\* medium is shown on exactly where the server's own policy says so
\* (conversation_is_enabled, which conversationIsEnabled mirrors): a stored
\* flag of that medium wins, direct messages follow new_dm, and channels are
\* push-only for hashtags.
BellTrue ==
  ui.wire = <<>> /\ ui.known =>
    \A c \in Conversations, m \in Media :
      MediaShown(c, m) <=>
        \/ ui.server.overrides[c][m] = "on"
        \/ ui.server.overrides[c][m] = "unset" /\ (IF c = "dm" THEN ui.server.newDm[m] ELSE c = "hashtag" /\ m = "push")

\* A test push goes out under the address in the field: the server holds
\* it by then, unless saving it failed (commitVapidSubject before testPush).
TestUnderAddress ==
  ui.tested # <<>> /\ ~BellIn("fails") => ui.tested[1] = ui.tested[2]

-----------------------------------------------------------------------------
(***************************************************************************)
(* Where notifications go by mail and webhook                              *)
(* (SettingsNotificationsSection): each field is saved when it is left,    *)
(* saves are chained one after the other, each sends the whole form, and   *)
(* the settings fetched after a save become the form again. Two fields     *)
(* stand for all: "host" (any plain one) and "secret" (the password or the *)
(* HMAC secret), which the server shows as stars and which a patch carries *)
(* only when it was changed.                                               *)
(***************************************************************************)
Stars == "********"

Hosts == {"h1", "h2", "h2 "}

Secrets == {"", "s1", "s2"}

\* redact_notification_destinations and resolveNotificationDestinations
Resolve(server) == [host |-> server.host, secret |-> IF server.secret = "" THEN "" ELSE Stars]

DestinationsInit ==
  \E w \in DestinationsWorlds, secret \in {"", "s1"} :
    LET server == [host |-> "h1", secret |-> secret] IN
    ui = [world |-> w, server |-> server, draft |-> Resolve(server), ref |-> Resolve(server), saved |-> Resolve(server),
          focus |-> "none", chain |-> <<>>, stage |-> "idle", want |-> server, edits |-> 0]

DestinationsIn(w) == w \in ui.world

\* The person types while a save is under way only in a hurry.
Calm == ui.chain = <<>> \/ DestinationsIn("hurries")

Trim(v) == IF v = "h2 " THEN "h2" ELSE v

-----------------------------------------------------------------------------
(* The form *)

\* The inputs of the mail server.
TypeHost ==
  \E v \in Hosts :
    /\ Calm /\ ui.focus \in {"none", "host"} /\ ui.edits < MaxEdits /\ v # ui.draft.host
    /\ ui' = [ui EXCEPT !.draft.host = v, !.focus = "host"]

\* The inputs of the two secrets.
TypeSecret ==
  \E v \in Secrets :
    /\ Calm /\ ui.focus \in {"none", "secret"} /\ ui.edits < MaxEdits /\ v # ui.draft.secret
    /\ ui' = [ui EXCEPT !.draft.secret = v, !.focus = "secret"]

\* buildNotificationDestinationsPatch and secretForPatch
BuildPatch(next, previous) ==
  [host |-> next.host, secret |-> next.secret, has |-> next.secret # Stars /\ next.secret # previous.secret]

\* persistDestinations: the save joins the chain.
PersistDestinations(u, next) ==
  [u EXCEPT !.ref = next, !.saved = next, !.draft = next,
            !.chain = Append(@, [next |-> next, previous |-> u.ref, back |-> u.draft]),
            !.stage = IF u.chain = <<>> THEN "patch" ELSE @]

\* commitDestField and commitWebhookField: leaving a field that was not
\* changed saves nothing.
Commit(u, field, value) ==
  IF u.draft[field] = u.ref[field] /\ u.draft[field] = value THEN u
  ELSE PersistDestinations(u, [u.draft EXCEPT ![field] = value])

Blur ==
  /\ ui.focus # "none"
  /\ ui' = [Commit(ui, ui.focus, Trim(ui.draft[ui.focus])) 
              EXCEPT !.focus = "none", !.edits = @ + 1,
                     !.want[ui.focus] = IF ui.draft[ui.focus] = ui.ref[ui.focus] THEN @ ELSE Trim(ui.draft[ui.focus])]

-----------------------------------------------------------------------------
(* The chain *)

\* merge_notification_destinations
Merged(server, patch) ==
  [host |-> patch.host, secret |-> IF patch.has /\ patch.secret # Stars THEN patch.secret ELSE server.secret]

\* The patch of the first save is stored.
PatchAnswered ==
  /\ ui.stage = "patch"
  /\ ui' = [ui EXCEPT !.server = Merged(@, BuildPatch(Head(ui.chain).next, Head(ui.chain).previous)), !.stage = "fetch"]

\* The next save of the chain begins.
Advance(u) == [u EXCEPT !.chain = Tail(@), !.stage = IF Len(u.chain) = 1 THEN "idle" ELSE "patch"]

\* fetchAppSettings after the save: the form, the saved copy and the
\* reference are what the server holds.
FetchAnswered ==
  /\ ui.stage = "fetch"
  /\ ui' = Advance([ui EXCEPT !.draft = Resolve(ui.server), !.saved = Resolve(ui.server), !.ref = Resolve(ui.server)])

\* The save failed: the reference, the saved copy and the form go back.
PatchFailed ==
  /\ ui.stage = "patch" /\ DestinationsIn("fails")
  /\ ui' = Advance([ui EXCEPT !.ref = Head(ui.chain).previous, !.saved = Head(ui.chain).previous,
                              !.draft = Head(ui.chain).back])

DestinationsNext == TypeHost \/ TypeSecret \/ Blur \/ PatchAnswered \/ FetchAnswered \/ PatchFailed

-----------------------------------------------------------------------------
\* The state is well formed.
DestinationsTypeOK ==
  /\ ui.world \in DestinationsWorlds /\ ui.edits \in 0..MaxEdits /\ Len(ui.chain) <= MaxEdits
  /\ ui.server.host \in Hosts /\ ui.server.secret \in Secrets
  /\ \A f \in {ui.draft, ui.ref, ui.saved} : f.host \in Hosts /\ f.secret \in Secrets \cup {Stars}
  /\ ui.stage \in {"idle", "patch", "fetch"} /\ (ui.stage = "idle") = (ui.chain = <<>>)
  /\ ui.focus \in {"none", "host", "secret"}

\* The secret is the last one given: though every save sends the whole form
\* and the form shows stars, no save of another field, however it is
\* interleaved with the fetches, overwrites or clears the stored secret
\* (secretForPatch).
SecretKept == ui.chain = <<>> /\ ~DestinationsIn("fails") => ui.server.secret = ui.want.secret

\* What was left in a field is stored, trimmed (persistDestinations), when
\* the person waits for a save before editing again.
HostStored == ui.chain = <<>> /\ ui.world = {} => ui.server.host = ui.want.host

\* The page tells what is stored: once the chain is empty the saved copy,
\* and the field nobody is in, hold what the server would show, also after
\* a failed save put them back.
FormTrue ==
  ui.chain = <<>> /\ ~({"hurries", "fails"} \subseteq ui.world) =>
    /\ ui.saved = Resolve(ui.server)
    /\ \A f \in {"host", "secret"} : ui.focus # f => ui.draft[f] = Resolve(ui.server)[f] \/ DestinationsIn("fails")
=============================================================================
