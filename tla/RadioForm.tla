------------------------------ MODULE RadioForm -----------------------------
(***************************************************************************)
(* The settings of the radio: its form, and its Wi-Fi.                     *)
(***************************************************************************)
EXTENDS Integers, Sequences, FiniteSets, SequencesExt

CONSTANTS FormWorlds,
          MaxTyped,
          MaxChains,
          MaxPolls,
          Radios,     \* public keys
          MaxGen,     \* connections of a radio in a behaviour
          MaxFaults,  \* reconnections of the socket and requests that fail
          MaxWire,    \* messages of the server on their way
          MaxClicks   \* clicks that start a request

VARIABLE ui

-----------------------------------------------------------------------------
(***************************************************************************)
(* The form of the radio's own configuration (SettingsRadioSection, the    *)
(* device tab) over useRadioControl: the draft, what a save sends, the     *)
(* import of a file, a new private key, and the restarts that follow.      *)
(* Every handler is a chain of awaited requests, here `steps`; the chain   *)
(* of the private key runs beside that of the configuration.  A field is   *)
(* the name with the modulation and the power (always sent, in every       *)
(* file), the position (always sent, not in every file), the path hash     *)
(* mode, or what is shared (the location in adverts, the acks and the      *)
(* telemetry modes, sent only when they changed). Circumstances of a       *)
(* world: "refuses" - a request may fail, a save half way; "crosses" - a   *)
(* chain starts while the other one runs.  No other client changes the     *)
(* radio, and two reads of it are answered in order.                       *)
(***************************************************************************)
NoConfig == [none |-> TRUE]
Fields == {"lora", "place", "hash", "share"}
\* The order in which the server writes them.
Written == <<"share", "place", "lora", "hash">>
Numeric == {"lora", "place"}

Every(v) == [f \in Fields |-> v]

FormInit ==
  \E w \in FormWorlds, s \in BOOLEAN :
    ui = [world |-> w, supported |-> s, radio |-> Every("a"), key |-> "old", live |-> "old",
          up |-> TRUE, config |-> NoConfig, form |-> Every("a"), asked |-> Every("a"),
          pending |-> <<[seen |-> Every("a"), owner |-> 0]>>, jobs |-> <<>>, busy |-> FALSE,
          identity |-> FALSE, dialog |-> FALSE, locating |-> FALSE, tab |-> "connection",
          chosen |-> FALSE, polls |-> 0, typed |-> 0, chains |-> 0, failed |-> FALSE]

\* Fewer inputs where the requests fail or cross.
TypeLimit == MaxTyped - Cardinality(ui.world)

Loaded == ui.config # NoConfig
Calm == ui.world \cap {"refuses", "crosses"} = {}
Idle == ui.jobs = <<>> /\ ui.pending = <<>> /\ ui.up

\* radioConfigDirty
Dirty(u) ==
  /\ u.config # NoConfig
  /\ \E f \in Fields \ (IF u.supported THEN {} ELSE {"hash"}) : u.form[f] # u.config[f]

-----------------------------------------------------------------------------
(* The inputs of the form.                                                 *)

\* What one input of the device tab makes of a field: the selects and the
\* list of presets (handlePresetChange) offer values, the number inputs take
\* any text.
DeviceInputs(f) ==
  CASE f \in Numeric -> {"b", "bad"}
    [] f = "hash" -> {"b"}
    [] f = "share" -> {"a", "b"}

Type(f) ==
  /\ Loaded /\ ui.tab = "device" /\ ui.typed < TypeLimit
  /\ f = "hash" => ui.supported
  /\ \E v \in DeviceInputs(f) \ {ui.form[f]} :
       ui' = [ui EXCEPT !.form[f] = v, !.typed = @ + 1]

\* handleGetLocation, and the map's onApply, which answers at once.
GetLocation ==
  /\ Loaded /\ ui.tab = "device" /\ ~ui.locating /\ ui.typed < TypeLimit
  /\ ui' = [ui EXCEPT !.locating = TRUE, !.typed = @ + 1]

Located(found) ==
  /\ ui.locating
  /\ ui' = [ui EXCEPT !.locating = FALSE, !.form.place = IF found THEN "b" ELSE @]

ResetRadioConfig ==
  /\ Loaded /\ ui.tab = "device" /\ ~ui.busy /\ Dirty(ui)
  /\ ui' = [ui EXCEPT !.form = ui.config]

SelectTab(t) ==
  /\ t # ui.tab /\ (t = "device" => Loaded) /\ ui.typed < TypeLimit
  /\ ui' = [ui EXCEPT !.tab = t, !.chosen = TRUE, !.typed = @ + 1]

-----------------------------------------------------------------------------
(* The chains.                                                             *)

Start(u, kind, steps, update) ==
  LET id == IF ui.jobs = <<>> THEN 1 ELSE 3 - ui.jobs[1].id
  IN  /\ Len(ui.jobs) < 2 /\ ui.chains < MaxChains
      /\ ui' = [u EXCEPT !.chains = @ + 1,
                         !.jobs = Append(@, [id |-> id, kind |-> kind, steps |-> steps, update |-> update])]

Only(r, S) == [f \in S |-> r[f]]

\* buildUpdate: the path hash mode and what is shared only when they differ
\* from the configuration the client knows.
BuildUpdate ==
  Only(ui.form,
    {f \in Fields : \/ f \in {"lora", "place"}
                    \/ f = "share" /\ ui.form.share # ui.config.share
                    \/ f = "hash" /\ ui.supported /\ ui.form.hash # ui.config.hash})

Asked(r) == [f \in Fields |-> IF f \in DOMAIN r THEN r[f] ELSE ui.asked[f]]

\* handleSave, handleSaveAndReboot; a text that is no number is refused.
Save(reboot) ==
  /\ Loaded /\ ui.tab = "device" /\ ~ui.busy /\ Dirty(ui)
  /\ \A f \in Numeric : ui.form[f] # "bad"
  /\ "crosses" \in ui.world \/ ui.jobs = <<>>
  /\ Start([ui EXCEPT !.busy = TRUE, !.asked =
              Asked(Only(ui.form, Fields \ (IF ui.supported THEN {} ELSE {"hash"})))],
           "save", <<"save", "fetch", "land">> \o (IF reboot THEN <<"reboot">> ELSE <<>>), BuildUpdate)

\* handleSetPrivateKey
SetPrivateKey ==
  /\ Loaded /\ ui.tab = "device" /\ ~ui.identity /\ ui.key = "old"
  /\ "crosses" \in ui.world \/ ui.jobs = <<>>
  /\ Start([ui EXCEPT !.identity = TRUE], "key", <<"key", "fetch", "land", "reboot">>, Only(ui.form, {}))

\* The files: a whole profile with the key, and one of the first versions.
ImportFile(keyed) == IF keyed THEN Every("b") ELSE [lora |-> "b"]

\* buildUpdateFromImport: a position the file lacks is the one the client
\* knows.
BuildUpdateFromImport(data) ==
  [f \in {"lora", "place"} \cup (DOMAIN data \ (IF ui.supported THEN {} ELSE {"hash"})) |->
     IF f \in DOMAIN data THEN data[f] ELSE ui.config[f]]

\* populateFormFromImport
PopulateFormFromImport(data) == [f \in Fields |-> IF f \in DOMAIN data THEN data[f] ELSE ui.form[f]]

ImportSteps(keyed) ==
  (IF keyed THEN <<"key", "fetch", "land">> ELSE <<>>) \o <<"save", "fetch", "land", "reboot">>

\* applyImport
ApplyImport(keyed, u) ==
  /\ "crosses" \in ui.world \/ ui.jobs = <<>>
  /\ LET data == ImportFile(keyed)
         update == BuildUpdateFromImport(data)
     IN  Start([u EXCEPT !.busy = TRUE, !.form = PopulateFormFromImport(data), !.asked = Asked(update)],
               "save", ImportSteps(keyed), update)

\* handleImportConfig: reading the file is awaited, so a save may have begun
\* meanwhile; a file with a key waits for the dialog.
Import(keyed) ==
  /\ Loaded /\ ~ui.dialog /\ ui.key = "old"
  /\ ~ui.busy \/ "crosses" \in ui.world
  /\ IF keyed THEN ui' = [ui EXCEPT !.dialog = TRUE] ELSE ApplyImport(FALSE, ui)

\* handleConfirmKeyImport, and the two ways out of the dialog.
ConfirmKeyImport ==
  /\ ui.dialog
  /\ ApplyImport(TRUE, [ui EXCEPT !.dialog = FALSE])

DismissKeyImport ==
  /\ ui.dialog
  /\ ui' = [ui EXCEPT !.dialog = FALSE]

\* A chain that ends, or is ended by an error, lifts its busy flag: the one
\* of the configuration even while another chain of it runs.
End(u, i, failed) ==
  [u EXCEPT !.jobs = RemoveAt(@, i), !.failed = @ \/ failed,
            !.busy = @ /\ u.jobs[i].kind # "save", !.identity = @ /\ u.jobs[i].kind # "key"]

Advance(u, i) ==
  IF Len(u.jobs[i].steps) = 1 THEN End(u, i, FALSE)
  ELSE [u EXCEPT !.jobs[i].steps = Tail(@)]

At(i, step) == i \in DOMAIN ui.jobs /\ Head(ui.jobs[i].steps) = step

\* PATCH /radio/config: the fields are written one after the other.
SaveArrives(i) ==
  /\ At(i, "save")
  /\ LET given == {k \in DOMAIN Written : Written[k] \in DOMAIN ui.jobs[i].update}
         After(n) == [f \in Fields |-> IF \E k \in given : k <= n /\ Written[k] = f
                                       THEN ui.jobs[i].update[f] ELSE ui.radio[f]]
     IN  \/ ui.up /\ ui' = Advance([ui EXCEPT !.radio = After(Len(Written))], i)
         \/ ~ui.up /\ ui' = End(ui, i, TRUE)
         \/ ui.up /\ "refuses" \in ui.world
            /\ \E n \in 0 .. Len(Written) - 1 : ui' = End([ui EXCEPT !.radio = After(n)], i, TRUE)

\* PUT /radio/private-key
KeyArrives(i) ==
  /\ At(i, "key")
  /\ \/ ui.up /\ ui' = Advance([ui EXCEPT !.key = "new"], i)
     \/ (~ui.up \/ "refuses" \in ui.world) /\ ui' = End(ui, i, TRUE)

\* fetchConfig reads; an error is swallowed and the chain goes on.
FetchArrives(i) ==
  /\ At(i, "fetch")
  /\ \/ ui.up /\ ui' = Advance([ui EXCEPT !.pending = Append(@, [seen |-> ui.radio, owner |-> ui.jobs[i].id])], i)
     \/ (~ui.up \/ "refuses" \in ui.world) /\ ui' = Advance(Advance(ui, i), i)

\* setConfig, and the drafts resynchronised with it while rendering; the tab
\* follows the first configuration until the reader chose one.
SetConfig(u, c) ==
  [u EXCEPT !.config = c, !.form = c, !.tab = IF u.chosen THEN @ ELSE "device"]

Landed ==
  /\ ui.pending # <<>>
  /\ LET p == Head(ui.pending)
         u == SetConfig([ui EXCEPT !.pending = Tail(@)], p.seen)
     IN  IF p.owner = 0 THEN ui' = u
         ELSE \E i \in DOMAIN ui.jobs : ui.jobs[i].id = p.owner /\ ui' = Advance(u, i)

\* handleReboot: the health is set back, and its own polls replace those of
\* an earlier restart.
Reboot(i) ==
  /\ At(i, "reboot")
  /\ \/ ui.up /\ ui' = Advance([ui EXCEPT !.up = FALSE, !.live = ui.key, !.polls = MaxPolls], i)
     \/ (~ui.up \/ "refuses" \in ui.world) /\ ui' = End(ui, i, TRUE)

Fetching(u) == [u EXCEPT !.pending = Append(@, [seen |-> ui.radio, owner |-> 0])]

\* pollUntilReconnected
Poll ==
  /\ ui.polls > 0 /\ Len(ui.pending) < 3
  /\ ui' = IF ui.up THEN Fetching([ui EXCEPT !.polls = 0]) ELSE [ui EXCEPT !.polls = @ - 1]

\* The radio is back: the server says so, and onHealth fetches.
Boot ==
  /\ ~ui.up
  /\ ui' = Fetching([ui EXCEPT !.up = TRUE])

FormNext ==
  \/ \E f \in Fields : Type(f)
  \/ GetLocation
  \/ \E found \in BOOLEAN : Located(found)
  \/ ResetRadioConfig
  \/ \E t \in {"connection", "device"} : SelectTab(t)
  \/ \E reboot \in BOOLEAN : Save(reboot)
  \/ SetPrivateKey
  \/ \E keyed \in BOOLEAN : Import(keyed)
  \/ ConfirmKeyImport
  \/ DismissKeyImport
  \/ \E i \in 1 .. 2 : SaveArrives(i)
  \/ \E i \in 1 .. 2 : KeyArrives(i)
  \/ \E i \in 1 .. 2 : FetchArrives(i)
  \/ Landed
  \/ \E i \in 1 .. 2 : Reboot(i)
  \/ Poll
  \/ Boot

-----------------------------------------------------------------------------
(* Properties.                                                             *)

FormTypeOK ==
  /\ DOMAIN ui.form = Fields /\ DOMAIN ui.radio = Fields /\ Len(ui.jobs) <= 2
  /\ ui.tab \in {"connection", "device"} /\ ui.polls \in 0 .. MaxPolls

\* A disabled Save means that nothing of the reader's differs from the radio,
\* once nothing is under way, whatever was saved, reset, imported or restarted
\* before (radioConfigDirty, and the drafts resynchronised with each answer).
MarkedTrue ==
  Calm /\ Idle /\ Loaded /\ ~Dirty(ui) =>
    \A f \in Fields : ui.form[f] = ui.radio[f] \/ (f = "hash" /\ ~ui.supported)

\* When every request was answered well, each field of the radio is what the
\* reader last saved or imported, also those sent only when they changed
\* (buildUpdate, buildUpdateFromImport).
AskedReached ==
  Calm /\ Idle /\ ~ui.failed => ui.radio = ui.asked

\* A new private key is always followed by the restart it needs, unless a
\* request failed (handleSetPrivateKey, applyImport).
KeyRestarts == ui.key # ui.live /\ ui.jobs = <<>> => ui.failed

\* The tab the reader chose stays, however often the configuration is read
\* again (tabChosenRef).
TabStays == ui.chosen /\ ui'.tab # ui.tab => \E t \in {"connection", "device"} : SelectTab(t)

-----------------------------------------------------------------------------
(***************************************************************************)
(* The Wi-Fi state of the radio in a tab (radioWifiStore), the panel and   *)
(* the prompt that ask for a password (RadioWifiSettings, RadioWifiPrompt) *)
(* and the offer made when the radio is back from a reboot.  The state     *)
(* comes from events of the socket, from fetches and from the answers to   *)
(* changes, while the radio goes away and returns, or another one is       *)
(* connected, and while the socket itself may lose events.                 *)
(***************************************************************************)
NoState == [radio |-> "none", gen |-> 0, check |-> "pending", prompt |-> FALSE, pending |-> FALSE, ip |-> FALSE]

First == CHOOSE r \in Radios : TRUE

\* One radio already knows its network.
WifiInit ==
  ui = [srv |-> NoState, stored |-> {First}, dismissed |-> {}, gens |-> 0, drops |-> 0, fails |-> 0, clicks |-> 0,
        wire |-> <<>>, current |-> NoState, ready |-> FALSE, failed |-> FALSE, timer |-> FALSE,
        watch |-> "idle", sent |-> 0, offered |-> 0, fetches |-> {}, post |-> "none",
        typed |-> "none", asked |-> "none", answer |-> "none", reboot |-> FALSE]

-----------------------------------------------------------------------------
(* The server *)

\* What the state says of the prompt: it asks once for each radio.
Compose(u, s) ==
  [s EXCEPT !.prompt = s.check = "done" /\ s.radio \notin u.stored /\ s.radio \notin u.dismissed]

\* A change of the state is broadcast.
Broadcast(u, s) ==
  [u EXCEPT !.srv = Compose(u, s), !.wire = Append(@, [kind |-> "state", st |-> Compose(u, s)])]

Room == Len(ui.wire) < MaxWire

\* The radios are alike: it does not matter which one is first.
RadioConnects ==
  \E r \in IF ui.gens = 0 THEN {First} ELSE Radios :
    /\ ui.srv.radio = "none" /\ ui.gens < MaxGen /\ Room
    /\ ui' = [ui EXCEPT !.gens = @ + 1, !.srv = [NoState EXCEPT !.radio = r, !.gen = ui.gens + 1],
                        !.wire = Append(@, [kind |-> "health", st |-> [NoState EXCEPT !.radio = r]])]

\* The check after the connection: a radio with stored credentials is on the
\* network.
CheckCompletes ==
  /\ ui.srv.radio # "none" /\ ui.srv.check = "pending" /\ Room
  /\ ui' = Broadcast(ui, [ui.srv EXCEPT !.check = "done", !.ip = ui.srv.radio \in ui.stored])

\* It goes away, by itself or to restart; nothing asked of it is pending.
RadioGoes ==
  /\ ui.srv.radio # "none" /\ ui.post = "none" /\ Room
  /\ ui' = [ui EXCEPT !.srv = NoState,
                      !.wire = Append(@, [kind |-> "health", st |-> NoState])]

-----------------------------------------------------------------------------
(* The store *)

\* What the panel and the prompt do when they are drawn again: a radio that
\* went away, or another one, closes every dialog and forgets what was typed
\* (shownDialogKey, formFor).
Rendered(u) ==
  LET key == IF u.current.check = "done" THEN u.current.radio ELSE "none" IN
  LET same == u.asked = key IN
  [u EXCEPT !.asked = key, !.typed = IF same THEN @ ELSE "none",
            !.reboot = IF same THEN @ ELSE FALSE]

\* emit: the version moves on, the fetches that began before it are old.
Emit(u, st) ==
  Rendered([u EXCEPT !.current = st, !.failed = FALSE, !.fetches = {[f EXCEPT !.old = TRUE] : f \in @}])

\* setRadioWifiState: after a reboot sent from this tab the first state with
\* an address offers to switch to it.
SetState(u, st) ==
  LET v == Emit([u EXCEPT !.timer = IF st.check = "pending" THEN @ ELSE FALSE], st) IN
  IF v.watch # "returning" \/ st.check # "done" THEN v
  ELSE IF st.ip THEN [v EXCEPT !.watch = "idle", !.offered = st.gen]
  ELSE v

\* loadRadioWifi up to its request
Load(u, refresh) == [u EXCEPT !.fetches = @ \cup {[old |-> FALSE, refresh |-> refresh, res |-> NoState]}]

\* noteRadioWifiHealth
NoteHealth(u, up) ==
  CASE up /\ ~u.ready -> Load([u EXCEPT !.ready = TRUE], FALSE)
    [] ~up /\ u.ready ->
         Emit([u EXCEPT !.ready = FALSE, !.timer = FALSE, !.watch = IF @ = "armed" THEN "returning" ELSE @], NoState)
    [] OTHER -> u

\* A message of the socket.
Deliver ==
  /\ ui.wire # <<>>
  /\ LET m == Head(ui.wire) IN LET u == [ui EXCEPT !.wire = Tail(@)] IN
     ui' = IF m.kind = "state" THEN SetState(u, m.st) ELSE NoteHealth(u, m.st.radio # "none")

\* A fetch is answered before another one of the same version begins: of two
\* that overlap the older answer may win.
Alone == ui.fetches = {}

\* The socket is open again: what was on its way is lost, the server says how
\* the radio is, and the state is read again (refreshRadioWifiAfterReconnect).
SocketReconnects ==
  /\ ui.drops + ui.fails < MaxFaults /\ Alone
  /\ LET u == [ui EXCEPT !.drops = @ + 1, !.wire = <<[kind |-> "health", st |-> [NoState EXCEPT !.radio = ui.srv.radio]]>>] IN
     ui' = IF u.ready THEN Load(u, FALSE) ELSE u

FetchServed ==
  \E f \in ui.fetches :
    /\ f.res = NoState /\ ui.srv.radio # "none"
    /\ ui' = [ui EXCEPT !.fetches = (@ \ {f}) \cup {[f EXCEPT !.res = ui.srv]}]

\* A late answer never brings back a radio that went away, or overwrites a
\* newer state.
Current(u, f) == u.ready /\ ~f.old

\* The answer; one that is still pending is asked for once more later.
FetchAnswered ==
  \E f \in ui.fetches :
    /\ f.res # NoState
    /\ LET u == [ui EXCEPT !.fetches = @ \ {f}] IN
       ui' = IF ~Current(u, f) THEN u
             ELSE LET v == SetState(u, f.res) IN
                  IF f.res.check = "pending" /\ ~f.refresh THEN [v EXCEPT !.timer = TRUE] ELSE v

FetchFailed ==
  \E f \in ui.fetches :
    /\ f.res = NoState /\ (ui.drops + ui.fails < MaxFaults \/ ui.srv.radio = "none")
    /\ ui' = [ui EXCEPT !.fetches = @ \ {f}, !.fails = IF ui.srv.radio = "none" THEN @ ELSE @ + 1,
                        !.failed = @ \/ (ui.ready /\ ~f.old /\ ui.current = NoState)]

PendingReload ==
  /\ ui.timer /\ Alone
  /\ ui' = Load([ui EXCEPT !.timer = FALSE], FALSE)

\* Five minutes after the reboot nothing is offered any more.
DeadlinePasses ==
  /\ ui.watch # "idle"
  /\ ui' = [ui EXCEPT !.watch = "idle"]

-----------------------------------------------------------------------------
(* The panel and the prompt *)

\* A change is asked for and answered while the tab knows which radio is
\* there: no news of the radio is on its way.
Steady == \A i \in DOMAIN ui.wire : ui.wire[i].kind # "health"

Click == ui.clicks < MaxClicks

\* retry: the panel offers it when the first fetch failed.
Retry ==
  /\ Click /\ ui.failed /\ ui.current = NoState /\ Alone
  /\ ui' = Load([ui EXCEPT !.clicks = @ + 1], TRUE)

\* openCredentials, or the prompt that opens by itself; a password is typed.
TypePassword ==
  /\ ui.current.check = "done" /\ ui.typed = "none" /\ ui.post = "none"
  /\ ui' = [ui EXCEPT !.typed = ui.current.radio]

\* submitCredentials and store, dismiss, confirmReboot and reboot: the request.
Submit ==
  /\ Click /\ Steady /\ ui.typed # "none" /\ ui.post = "none"
  /\ ui' = [ui EXCEPT !.clicks = @ + 1, !.post = "store"]

Dismiss ==
  /\ Click /\ Steady /\ ui.current.prompt /\ ui.post = "none"
  /\ ui' = [ui EXCEPT !.clicks = @ + 1, !.post = "dismiss", !.answer = ui.current.radio]

ConfirmReboot ==
  /\ Click /\ Steady /\ ui.reboot /\ ui.post = "none"
  /\ ui' = [ui EXCEPT !.clicks = @ + 1, !.post = "reboot"]

\* The server stores the credentials of the connected radio, or keeps for a
\* radio that it is not to be asked about; the answer follows the broadcast.
PostAnswered ==
  /\ ui.post # "none" /\ ui.srv.radio # "none" /\ Steady
  /\ LET u == [ui EXCEPT !.post = "none"] IN
     ui' = CASE ui.post = "store" ->
                  LET v == Broadcast([u EXCEPT !.stored = @ \cup {u.srv.radio}], [u.srv EXCEPT !.pending = TRUE]) IN
                  SetState([v EXCEPT !.typed = "none", !.reboot = TRUE], v.srv)
             [] ui.post = "dismiss" ->
                  LET v == Broadcast([u EXCEPT !.dismissed = @ \cup {ui.answer}], u.srv) IN
                  SetState([v EXCEPT !.typed = "none"], v.srv)
             [] OTHER ->
                  [SetState(u, u.srv) EXCEPT !.watch = "armed", !.sent = u.srv.gen, !.reboot = FALSE]

\* It failed: the password is forgotten all the same.
PostFailed ==
  /\ ui.post # "none" /\ ui.drops + ui.fails < MaxFaults
  /\ ui' = [ui EXCEPT !.post = "none", !.fails = @ + 1, !.typed = IF ui.post = "store" THEN "none" ELSE @]

\* "Later"
RebootLater ==
  /\ ui.reboot /\ ui.post = "none"
  /\ ui' = [ui EXCEPT !.reboot = FALSE]

WifiNext ==
  \/ RadioConnects \/ CheckCompletes \/ RadioGoes \/ Deliver \/ SocketReconnects
  \/ FetchServed \/ FetchAnswered \/ FetchFailed \/ PendingReload \/ DeadlinePasses
  \/ Retry \/ TypePassword \/ Submit \/ Dismiss \/ ConfirmReboot
  \/ PostAnswered \/ PostFailed \/ RebootLater

-----------------------------------------------------------------------------
\* The state is well formed.
WifiTypeOK ==
  /\ ui.srv.radio \in Radios \cup {"none"} /\ ui.current.radio \in Radios \cup {"none"}
  /\ ui.stored \subseteq Radios /\ ui.dismissed \subseteq Radios /\ ui.gens \in 0..MaxGen
  /\ ui.watch \in {"idle", "armed", "returning"} /\ ui.post \in {"none", "store", "dismiss", "reboot"}
  /\ {ui.ready, ui.failed, ui.timer, ui.reboot} \subseteq BOOLEAN

\* When nothing is on its way the tab shows the state of the server, or says
\* that it could not be read: no event lost with the socket, no answer that
\* was dropped as old and no radio that came and went leaves an older state.
StoreCatchesUp ==
  ui.wire = <<>> /\ ui.fetches = {} /\ ~ui.timer /\ ui.fails = 0 =>
    /\ ui.ready = (ui.srv.radio # "none")
    /\ ui.current = ui.srv \/ ~ui.ready

\* "A late answer never brings back a radio that went away"
\* (loadRadioWifi): the tab has a state only of a radio that is connected.
NoGhost == ~ui.ready => ui.current = NoState

\* "a password never waits in state for the next radio": what was typed for
\* one radio is gone when the tab shows another, also when it missed that the
\* first one went away.
PasswordStays == ui.typed \in {"none", ui.current.radio}

\* "States from before the radio went away (a broadcast racing the reboot)
\* never count": the offer to switch is made with a state of a connection
\* newer than the one that was told to reboot.
OfferAfterReturn == ui.offered # 0 /\ ui.watch = "idle" => ui.offered > ui.sent
=============================================================================
