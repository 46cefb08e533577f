-------------------------- MODULE RepeaterDashboard -------------------------
(***************************************************************************)
(* The dashboard of a repeater or room server: login, panes and console.   *)
(***************************************************************************)
EXTENDS Integers, FiniteSets, Sequences, SequencesExt

CONSTANTS LoginWorlds,    \* the sets of circumstances considered
          MaxLoginClicks, \* clicks of a behaviour
          PanesWorlds,    \* the sets of circumstances considered
          MaxRetries,     \* MAX_RETRIES
          MaxAnswers,     \* values fetched from the repeater
          MaxPanesClicks, \* clicks of a behaviour
          Cap,            \* MAX_STORED_CONSOLE_ENTRIES
          Confirm,        \* seconds the reboot button waits for its second click
          MaxSent,        \* commands sent in a behaviour
          MaxKeys         \* clicks and keys of a behaviour

VARIABLE ui

-----------------------------------------------------------------------------
(***************************************************************************)
(* Logging in to a repeater (RepeaterDashboard, useRepeaterDashboard) or   *)
(* to a room server (RoomServerPanel): the form, the banner of the last    *)
(* attempt, the password remembered in memory and, if asked, in the        *)
(* browser's storage, and what a later visit or a reload starts from. A    *)
(* password is "" or one of two.  The panel is mounted anew for every      *)
(* visit; a login answered after the panel was left still runs its code,   *)
(* whose state updates are lost while what it writes to storage is not.    *)
(* Circumstances: "leaves", the panel may be left while a login is on its  *)
(* way; "minds", "re-enter password" may be clicked while one is.          *)
(***************************************************************************)
Passwords == {"", "p", "q"}

Outcomes == {"confirmed", "not_confirmed", "request_failed"}

NoLogin == [on |-> FALSE, password |-> "", remember |-> FALSE, orphan |-> FALSE]

\* The state a closed panel and a panel nobody has used before have.
Blank ==
  [loggedIn |-> FALSE, loading |-> FALSE, field |-> "", remember |-> FALSE, stored |-> "", attempt |-> "none"]

NoCache == [kept |-> FALSE, loggedIn |-> FALSE, attempt |-> "none"]

LoginInit ==
  \E w \in LoginWorlds, kind \in {"repeater", "room"} :
    ui = [world |-> w, kind |-> kind, mounted |-> TRUE, view |-> Blank, login |-> NoLogin,
          disk |-> "", memory |-> "", session |-> FALSE, cache |-> NoCache, persisted |-> NoCache,
          clicks |-> 0, forgot |-> FALSE, ticked |-> ""]

LoginClick == ui.mounted /\ ui.clicks < MaxLoginClicks

LoginClicked == [ui EXCEPT !.clicks = @ + 1]

\* Without a session the panel is its login form, with one its tools.
FormShown == LoginClick /\ ~ui.view.loggedIn

ToolsShown == LoginClick /\ ui.view.loggedIn

-----------------------------------------------------------------------------
(* The remembered password *)

\* loadInitialState
LoadInitialState(u) ==
  IF u.disk # "" THEN [password |-> u.disk, remember |-> TRUE]
  ELSE [password |-> u.memory, remember |-> FALSE]

\* persistAfterLogin, with the checkbox as it was when the login was sent.
PersistAfterLogin(u) ==
  IF u.login.password = "" THEN u
  ELSE [u EXCEPT !.memory = u.login.password,
                 !.disk = IF u.login.remember THEN u.login.password ELSE "",
                 !.view.field = IF u.login.orphan THEN @ ELSE u.login.password]

\* forgetPassword
ForgetPassword(u) ==
  [u EXCEPT !.disk = "", !.memory = "", !.view.field = "", !.view.stored = "", !.view.remember = FALSE]

-----------------------------------------------------------------------------
(* A login *)

\* login and performLogin up to the request.
Send(u, password) ==
  [u EXCEPT !.view.loading = TRUE,
            !.login = [on |-> TRUE, password |-> password, remember |-> u.view.remember, orphan |-> FALSE], !.forgot = FALSE]

\* The login form: the password, the checkbox, the two buttons.
LoginForm ==
  /\ FormShown /\ ~ui.view.loading /\ ~ui.login.on
  /\ \/ \E p \in Passwords : p # ui.view.field /\ ui' = [LoginClicked EXCEPT !.view.field = p]
     \/ ui' = [LoginClicked EXCEPT !.view.remember = ~@]
     \/ ui' = Send(LoginClicked, ui.view.field)
     \/ ui' = Send(LoginClicked, "")

\* The banner of an attempt that was not confirmed, and the room's "sync now",
\* which does not touch the remembered password.
Retry ==
  /\ ToolsShown /\ ~ui.view.loading /\ ~ui.login.on
  /\ \/ /\ ui.view.attempt \in {"not_confirmed", "request_failed"}
        /\ \/ ui.view.field # "" /\ ui' = Send(LoginClicked, ui.view.field)
           \/ ui' = Send(LoginClicked, "")
     \/ /\ ui.kind = "room"
        /\ ui' = Send(LoginClicked, "")

\* "Log in again" and "re-enter password" of the banner, which a confirmed
\* attempt does not show.
HandleReenterPassword ==
  /\ ToolsShown /\ ui.view.attempt # "confirmed"
  /\ ui.kind = "room" => ui.view.attempt # "none"
  /\ ui.view.loading => "minds" \in ui.world
  /\ ui' = [ForgetPassword(LoginClicked) EXCEPT !.view.loggedIn = FALSE, !.view.attempt = "none",
                                           !.session = IF ui.kind = "repeater" THEN FALSE ELSE @,
                                           !.forgot = TRUE]

\* The answer opens the panel whatever it says: the banner tells the rest.
Answered(u, outcome) ==
  LET v == IF u.login.orphan THEN u
           ELSE [u EXCEPT !.view.loading = FALSE, !.view.loggedIn = TRUE, !.view.attempt = outcome]
  IN [v EXCEPT !.session = IF u.kind = "repeater" THEN TRUE ELSE @]

LoginAnswered ==
  /\ ui.login.on
  /\ \E outcome \in Outcomes :
       ui' = [PersistAfterLogin(Answered(ui, outcome)) EXCEPT
                !.login = NoLogin,
                !.ticked = IF ui.login.password = "" THEN @ ELSE IF ui.login.remember THEN ui.login.password ELSE ""]

\* The room logs in by itself, once per visit, with a password it already had
\* when it was opened.
AutoLogin(u) ==
  IF u.kind = "room" /\ ~u.view.loggedIn /\ u.view.stored # "" /\ ~u.login.on THEN Send(u, u.view.stored) ELSE u

-----------------------------------------------------------------------------
(* Visits *)

LoginEntry(v) == [kept |-> TRUE, loggedIn |-> v.loggedIn, attempt |-> v.attempt]

\* Every commit is written to the caches; the repeater's has a copy in storage.
LoginLeave ==
  /\ LoginClick
  /\ ui.login.on => "leaves" \in ui.world
  /\ ui' = [LoginClicked EXCEPT !.mounted = FALSE, !.view = Blank, !.login.orphan = ui.login.on,
                           !.cache = LoginEntry(ui.view),
                           !.persisted = IF ui.kind = "repeater" THEN [LoginEntry(ui.view) EXCEPT !.attempt = "none"] ELSE @]

\* The session is only asked for when no cache knows the repeater.
InitialLogin(u) ==
  IF u.cache.kept THEN u.cache
  ELSE IF u.persisted.kept THEN u.persisted
  ELSE [NoCache EXCEPT !.loggedIn = u.session]

LoginVisit ==
  /\ ~ui.mounted
  /\ LET from == LoadInitialState(ui) known == InitialLogin(ui)
     IN ui' = AutoLogin([ui EXCEPT
                !.mounted = TRUE, !.cache = NoCache, !.persisted = NoCache,
                !.view = [Blank EXCEPT !.field = from.password, !.stored = from.password, !.remember = from.remember,
                                       !.loggedIn = known.loggedIn, !.attempt = known.attempt]])

\* The page is reloaded: what is in memory is gone, a login on its way too.
Reload ==
  /\ ~ui.mounted
  /\ ui' = [ui EXCEPT !.memory = "", !.cache = NoCache, !.login = NoLogin]

\* The stored dashboard and the stored session pass their age.
Expire ==
  /\ ~ui.mounted /\ ~ui.cache.kept
  /\ \/ ui' = [ui EXCEPT !.persisted = NoCache]
     \/ ui' = [ui EXCEPT !.persisted = NoCache, !.session = FALSE]

LoginNext == LoginForm \/ Retry \/ HandleReenterPassword \/ LoginAnswered \/ LoginLeave \/ LoginVisit \/ Reload \/ Expire

-----------------------------------------------------------------------------
(* What is promised *)

\* The panel's state is well formed.
LoginTypeOK ==
  /\ ui.world \in LoginWorlds /\ ui.clicks \in 0..MaxLoginClicks
  /\ {ui.view.field, ui.view.stored, ui.disk, ui.memory, ui.ticked} \subseteq Passwords
  /\ ui.view.attempt \in Outcomes \cup {"none"}

\* A password that was given up stays given up: after "re-enter password", and
\* until the next login is sent, it is nowhere, whatever visits and reloads
\* follow (forgetPassword).  Left out: a login on its way at that click.
ForgottenStays ==
  ui.world = {} /\ ui.forgot => ui.disk = "" /\ ui.memory = ""

\* Only a password sent with "remember" ticked, and not superseded by one sent
\* without, is in the browser's storage (persistAfterLogin).
StoredAsAsked == ui.world = {} => ui.disk \in {"", ui.ticked}

\* A remembered session opens the repeater without its form, after any visits,
\* reloads and expiries ("which sent people back to the login form on every
\* refresh"), as long as no visit ends with a login on its way.
SessionKept ==
  ui.kind = "repeater" /\ ui.world = {} /\ ui.mounted =>
    (ui.session <=> ui.view.loggedIn)

-----------------------------------------------------------------------------
(***************************************************************************)
(* The panes of a repeater's dashboard (useRepeaterDashboard): each one is *)
(* asked for over the air, with retries; "load all" asks for them one      *)
(* after the other and can be cancelled; what was answered is kept in      *)
(* memory, in the browser's storage and by the server, and shown again on  *)
(* the next visit. A value is the time it was fetched at.  The dashboard   *)
(* is mounted anew for every visit, so what an earlier visit still waits   *)
(* for is dropped. A run is one call of refreshPane or loadAll.            *)
(* Circumstance: "leaves", the dashboard may be left or reloaded in the    *)
(* middle of a load-all.  The load-all of the command palette starts when  *)
(* nothing else is being fetched, and the server's own copy of the panes   *)
(* is there before the first click.                                        *)
(***************************************************************************)
\* The panes of the model, in the order of load-all.
LoadOrder == <<"nodeInfo", "neighbors">>

Panes == ToSet(LoadOrder)

\* INITIAL_PANE_STATE
InitialPane == [loading |-> FALSE, attempt |-> 0, error |-> FALSE, at |-> 0, queued |-> FALSE]

EmptyView == [data |-> [p \in Panes |-> 0], st |-> [p \in Panes |-> InitialPane]]

NoRun == [kind |-> "none", left |-> <<>>, now |-> "none", next |-> "none", waits |-> "none"]

PanesInit ==
  \E w \in PanesWorlds, located \in BOOLEAN :
    ui = [world |-> w, located |-> located, mounted |-> TRUE, view |-> EmptyView,
          run |-> NoRun, cancel |-> FALSE, merging |-> TRUE,
          memory |-> EmptyView, kept |-> FALSE, disk |-> EmptyView, stored |-> FALSE,
          server |-> [p \in Panes |-> 0], now |-> 0, clicks |-> 0]

Running(u) == u.run.kind # "none"

LoadingAll(u) == u.run.kind = "all"

AnyLoading(u) == \E p \in Panes : u.view.st[p].loading

-----------------------------------------------------------------------------
(* The steps of a run *)

\* runAttempts, one attempt: the loading state replaces the pane's whole state
\* except for the age of its value.
Ask(u, p, n) ==
  [u EXCEPT !.view.st[p] = [InitialPane EXCEPT !.loading = TRUE, !.attempt = n, !.at = u.view.st[p].at],
            !.run.now = p, !.run.waits = "answer"]

\* needsNodeInfoPrefetch
NeedsNodeInfo(u) ==
  LET st == u.view.st.nodeInfo IN st.error \/ (st.at = 0 /\ u.view.data.nodeInfo = 0)

\* refreshPane: the neighbours are placed relative to the repeater, so its own
\* information comes first when nothing else says where it is.
StartPane(u, p) ==
  IF p = "neighbors" /\ ~u.located /\ NeedsNodeInfo(u)
  THEN Ask([u EXCEPT !.run.next = "neighbors"], "nodeInfo", 1)
  ELSE Ask([u EXCEPT !.run.next = "none"], p, 1)

\* markQueued
MarkQueued(u, pending) ==
  [u EXCEPT !.view.st = [p \in Panes |-> [@[p] EXCEPT !.queued = p \in pending]]]

\* The finally of loadAll.
FinishAll(u) == MarkQueued([u EXCEPT !.run = NoRun, !.cancel = FALSE], {})

\* The loop of loadAll, up to the next await.
LoopAll(u) ==
  LET left == u.run.left
  IN IF u.cancel \/ left = <<>> THEN FinishAll(u)
     ELSE StartPane(MarkQueued([u EXCEPT !.run.left = Tail(left)], ToSet(Tail(left))), Head(left))

\* One request of the run has ended: the neighbours follow their prefetch,
\* whatever it came to, and load-all goes on.
Continue(u) ==
  IF u.run.next # "none" THEN Ask([u EXCEPT !.run.next = "none"], u.run.next, 1)
  ELSE IF u.run.kind = "all" THEN LoopAll(u)
  ELSE [u EXCEPT !.run = NoRun]

\* The last attempt failed: the value shown stays, with its age.
Failed(u, p) == [u EXCEPT !.view.st[p] = [@ EXCEPT !.loading = FALSE, !.error = TRUE, !.queued = FALSE]]

Fetched(u, p) ==
  [u EXCEPT !.view.data[p] = u.now,
            !.view.st[p] = [@ EXCEPT !.loading = FALSE, !.error = FALSE, !.at = u.now, !.queued = FALSE]]

\* The repeater answered; the server keeps its answer for every dashboard.
FetchAnswered ==
  LET p == ui.run.now
    IN /\ ui.run.waits = "answer" /\ ui.now < MaxAnswers
       /\ ui' = Continue(Fetched([ui EXCEPT !.now = @ + 1, !.server[p] = ui.now + 1], p))

\* The request failed: a refusal is final, anything else is tried again.
FetchFailed ==
  \E retryable \in BOOLEAN :
    LET p == ui.run.now
    IN /\ ui.run.waits = "answer"
       /\ ui' = IF ui.view.st[p].attempt = MaxRetries \/ ~retryable THEN Continue(Failed(ui, p))
                ELSE [ui EXCEPT !.run.waits = "delay"]

\* RETRY_DELAY_MS has passed.
RetryDelay ==
  /\ ui.run.waits = "delay"
  /\ ui' = Ask(ui, ui.run.now, ui.view.st[ui.run.now].attempt + 1)

-----------------------------------------------------------------------------
(* The dashboard *)

PanesClick == ui.mounted /\ ui.clicks < MaxPanesClicks

PanesClicked == [ui EXCEPT !.clicks = @ + 1]

\* The buttons of the panes, disabled while any of them loads.
RefreshButtons == PanesClick /\ ~ui.merging /\ ~AnyLoading(ui)

\* The refresh button of a pane.
RefreshPane ==
  \E p \in Panes :
    /\ RefreshButtons
    /\ ui' = StartPane([PanesClicked EXCEPT !.run = [NoRun EXCEPT !.kind = "pane"]], p)

StartAll(u) ==
  LoopAll(MarkQueued([u EXCEPT !.cancel = FALSE, !.run = [NoRun EXCEPT !.kind = "all", !.left = LoadOrder]], Panes))

LoadAll ==
  /\ PanesClick /\ ~ui.merging /\ ~AnyLoading(ui) /\ ~LoadingAll(ui)
  /\ ui' = StartAll(PanesClicked)

\* The login the command palette asked for is over and loads everything.
AutoLoadAll ==
  /\ PanesClick /\ ~ui.merging /\ ~AnyLoading(ui)
  /\ ui' = StartAll(PanesClicked)

CancelLoadAll ==
  /\ PanesClick /\ LoadingAll(ui) /\ ~ui.cancel
  /\ ui' = [PanesClicked EXCEPT !.cancel = TRUE]

\* The cached states as they were.
NormalizeNone(view) == view

\* normalizePaneStates
Normalize(view) == [view EXCEPT !.st = [p \in Panes |-> [@[p] EXCEPT !.loading = FALSE]]]

MayLeave == LoadingAll(ui) => "leaves" \in ui.world

\* Every commit is written to both caches, so what they hold is the view left.
PanesLeave ==
  /\ PanesClick /\ MayLeave
  /\ ui' = [PanesClicked EXCEPT !.mounted = FALSE, !.run = NoRun, !.cancel = FALSE, !.merging = FALSE,
                           !.memory = Normalize(ui.view), !.kept = TRUE, !.disk = ui.view, !.stored = TRUE,
                           !.view = EmptyView]

\* getCachedState, and the request for what the server keeps.
PanesVisit ==
  /\ ~ui.mounted
  /\ ui' = [ui EXCEPT !.mounted = TRUE, !.merging = TRUE,
                      !.view = IF ui.kept THEN ui.memory
                               ELSE IF ui.stored THEN Normalize(ui.disk) ELSE EmptyView,
                      !.memory = EmptyView, !.kept = FALSE, !.disk = EmptyView, !.stored = FALSE]

\* The page is closed, or twenty other repeaters were visited: memory forgets.
\* TTL_MS passes: storage forgets.
Forget ==
  /\ ~ui.mounted
  /\ \/ ui.kept /\ ui' = [ui EXCEPT !.kept = FALSE, !.memory = EmptyView]
     \/ ~ui.kept /\ ui.stored /\ ui' = [ui EXCEPT !.stored = FALSE, !.disk = EmptyView]

\* Another dashboard has the server fetch a pane.
OtherFetch ==
  \E p \in {"nodeInfo"} :
    /\ ui.now < MaxAnswers
    /\ ui' = [ui EXCEPT !.now = @ + 1, !.server[p] = ui.now + 1]

\* repeaterPaneCache answered: it fills the panes that are still empty.
MergeServer(u) ==
  LET filled == {p \in Panes : u.view.data[p] = 0 /\ u.server[p] # 0}
  IN [u EXCEPT !.merging = FALSE,
               !.view.data = [p \in Panes |-> IF p \in filled THEN u.server[p] ELSE @[p]],
               !.view.st = [p \in Panes |-> IF p \in filled
                               THEN [@[p] EXCEPT !.loading = FALSE, !.error = FALSE, !.at = u.server[p]] ELSE @[p]]]

PaneCacheAnswered ==
  /\ ui.mounted /\ ui.merging
  /\ \/ ui' = MergeServer(ui)
     \/ ui' = [ui EXCEPT !.merging = FALSE]

Air == FetchAnswered \/ FetchFailed \/ RetryDelay

PanesNext ==
  Air \/ RefreshPane \/ LoadAll \/ AutoLoadAll \/ CancelLoadAll \/ PanesLeave \/ PanesVisit \/ Forget \/ OtherFetch \/ PaneCacheAnswered

-----------------------------------------------------------------------------
(* What is promised *)

\* The dashboard's state is well formed.
PanesTypeOK ==
  /\ ui.world \in PanesWorlds /\ ui.now \in 0..MaxAnswers /\ ui.clicks \in 0..MaxPanesClicks
  /\ \A p \in Panes : ui.view.data[p] \in 0..MaxAnswers /\ ui.view.st[p].attempt \in 0..MaxRetries
  /\ ui.run.kind \in {"none", "pane", "all"} /\ ui.run.waits \in {"none", "answer", "delay"}

\* The age on a pane is the age of the value it shows, through failures,
\* retries, visits, reloads and values the server fills in ("each pane keeps
\* showing its own fetched_at, so how old the values are stays visible").
AgeTrue == \A p \in Panes : ui.view.st[p].at = ui.view.data[p]

\* A pane says it waits its turn only while a load-all still has it to come.
QueuedOnlyInRun ==
  \A p \in Panes :
    ui.view.st[p].queued => LoadingAll(ui) /\ p \in ToSet(ui.run.left)

\* The same where a load-all is not left in the middle: the
\* marks of markQueued go with the run, cancelled or not.
QueuedTrue == ui.world = {} => QueuedOnlyInRun

\* One request is on the air at a time, and the pane that spins is the one
\* asked for: the neighbours' prefetch, the retries and load-all take turns.
OneOnAir ==
  \A p \in Panes : ui.view.st[p].loading <=> Running(ui) /\ ui.run.now = p

\* Without an advertised location the neighbours are asked for only once the
\* repeater's own information is there or has just been tried in vain.
NeighborsPlaced ==
  ui.run.now = "neighbors" /\ ~ui.located => ui.view.data.nodeInfo # 0 \/ ui.view.st.nodeInfo.error

\* A load-all comes to an end, whatever the repeater answers.
LoadAllEnded == ~LoadingAll(ui)

-----------------------------------------------------------------------------
(***************************************************************************)
(* The console of a repeater (ConsolePane, sendConsoleCommand) and the     *)
(* buttons that send through it (ActionsPane): one command at a time, the  *)
(* arrow keys that recall sent commands, the reboot button that asks once  *)
(* more, and the history kept for the next visit. Commands are told apart  *)
(* by name only.  The console is mounted anew for every visit; the answer  *)
(* to a command whose visit is over is lost.                               *)
(***************************************************************************)
Typed == {"ver", "clock"}

Commands == Typed \cup {"advert", "reboot"}

View0 == [input |-> "", index |-> -1, confirm |-> FALSE, armed |-> 0]

ConsoleInit ==
  ui = [mounted |-> TRUE, view |-> View0, history |-> <<>>, stored |-> <<>>, pending |-> {}, fresh |-> "",
        sent |-> 0, keys |-> 0, rebooted |-> {}]

ConsoleEntry(command, id, outgoing) == [command |-> command, id |-> id, outgoing |-> outgoing]

Loading == ui.pending # {}

Act == ui.mounted /\ ui.keys < MaxKeys

Pressed == [ui EXCEPT !.keys = @ + 1, !.fresh = ""]

-----------------------------------------------------------------------------

\* sentCommands: the newest first, repetitions in a row once.
SentCommands(history) ==
  FoldLeft(LAMBDA acc, e : IF e.outgoing /\ (acc = <<>> \/ acc[1] # e.command) THEN <<e.command>> \o acc ELSE acc,
           <<>>, history)

\* The effect that stores the history after every change.
Save(u) ==
  [u EXCEPT !.stored = IF Len(u.history) > Cap THEN SubSeq(u.history, Len(u.history) - Cap + 1, Len(u.history))
                       ELSE u.history]

\* sendConsoleCommand, up to the request.
SendConsoleCommand(u, command) ==
  Save([u EXCEPT !.history = Append(@, ConsoleEntry(command, u.sent + 1, TRUE)), !.sent = @ + 1, !.pending = @ \cup {u.sent + 1}])

MaySend == ui.sent < MaxSent /\ ~Loading

\* The input field, and a command picked from the help.
Type ==
  /\ Act /\ ~Loading
  /\ \/ \E c \in Typed : c # ui.view.input /\ ui' = [Pressed EXCEPT !.view.input = c]
     \/ \E c \in Typed : ui' = [Pressed EXCEPT !.view.input = c, !.view.index = -1]

\* handleKeyDown: up goes further back, down comes forward to the empty field.
HandleKeyDown ==
  LET sent == SentCommands(ui.history)
  IN /\ Act /\ ~Loading /\ sent # <<>>
     /\ \E next \in {ui.view.index + 1, ui.view.index - 1} :
          /\ next < Len(sent) /\ next >= -1
          /\ ui' = [Pressed EXCEPT !.view.index = next,
                                   !.view.input = IF next = -1 THEN "" ELSE sent[next + 1]]

HandleSubmit ==
  /\ Act /\ MaySend /\ ui.view.input # ""
  /\ ui' = SendConsoleCommand([Pressed EXCEPT !.view.input = "", !.view.index = -1, !.fresh = ui.view.input], ui.view.input)

\* The advert and clock buttons.
SendAdvert ==
  /\ Act /\ MaySend
  /\ ui' = SendConsoleCommand(Pressed, "advert")

\* handleReboot
HandleReboot ==
  /\ Act /\ ~Loading
  /\ \/ ~ui.view.confirm /\ ui' = [Pressed EXCEPT !.view.confirm = TRUE, !.view.armed = 0]
     \/ /\ ui.view.confirm /\ MaySend
        /\ ui' = SendConsoleCommand([Pressed EXCEPT !.view.confirm = FALSE, !.rebooted = @ \cup {ui.view.armed}], "reboot")

\* A second passes; after Confirm of them the timeout takes the question back.
Second ==
  /\ ui.mounted /\ ui.view.confirm
  /\ ui' = [ui EXCEPT !.view.armed = @ + 1, !.view.confirm = ui.view.armed + 1 < Confirm]

\* An answer, or the text of an error, after the command it belongs to.
CommandAnswered ==
  \E id \in ui.pending :
    LET command == CHOOSE c \in Commands : ConsoleEntry(c, id, TRUE) \in ToSet(ui.history)
    IN ui' = Save([ui EXCEPT !.history = Append(@, ConsoleEntry(command, id, FALSE)), !.pending = @ \ {id}])

ConsoleLeave ==
  /\ Act
  /\ ui' = [Pressed EXCEPT !.mounted = FALSE, !.view = View0, !.pending = {}]

\* A visit finds the history in memory, or after a reload what was stored.
ConsoleVisit ==
  /\ ~ui.mounted
  /\ \E h \in {ui.history, ui.stored} : ui' = [ui EXCEPT !.mounted = TRUE, !.history = h, !.stored = h]

ConsoleNext ==
  Type \/ HandleKeyDown \/ HandleSubmit \/ SendAdvert \/ HandleReboot \/ Second \/ CommandAnswered \/ ConsoleLeave \/ ConsoleVisit

-----------------------------------------------------------------------------
(* What is promised *)

\* The console's state is well formed.
ConsoleTypeOK ==
  /\ ui.keys \in 0..MaxKeys /\ ui.sent \in 0..MaxSent /\ ui.view.index \in -1..MaxSent
  /\ \A i \in DOMAIN ui.history : ui.history[i].command \in Commands

\* Every answer stands right below the command it belongs to, whatever
\* commands, buttons, visits and reloads came between (consoleLoading).
AnswersPaired ==
  \A i \in DOMAIN ui.history : i > 1 /\ ~ui.history[i].outgoing =>
    ui.history[i - 1].outgoing /\ ui.history[i - 1].id = ui.history[i].id

\* A reboot is sent only on a second click while the first one still counts:
\* the question never outlives its timeout, its send or its visit.
RebootConfirmed == \A age \in ui.rebooted : age < Confirm

\* What the field recalls has been sent, and "up" right after a command was
\* sent from the field brings back that very command.
RecallNewest ==
  LET sent == SentCommands(ui.history)
  IN /\ ui.view.index < Len(sent)
     /\ ui.fresh # "" => ui.view.index + 2 \in DOMAIN sent /\ sent[ui.view.index + 2] = ui.fresh
=============================================================================
