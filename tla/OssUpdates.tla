---------------------------- MODULE OssUpdates ----------------------------
(***************************************************************************)
(* Installing an update from the browser (useOssUpdates, the update dialog *)
(* and the page on updates).  The server that answers is the one being     *)
(* replaced: it goes away in the middle, and the tab finds out by polling  *)
(* whether the new version came up, the old one came back, or the job      *)
(* failed.  What the tab must remember over its own reload is in the       *)
(* session storage.                                                        *)
(***************************************************************************)
EXTENDS Integers, Sequences, FiniteSets

CONSTANTS Worlds,     \* sets of "held", "refuses", "other", "slow"
          MaxReloads, \* times the page is loaded again
          MaxClicks   \* clicks on Install, Close and Check now

VARIABLE ui

\* A tag of the catalogue may carry a "v"; the running version does not.
Tags == {"2", "v2"}

\* normalizeUpdateVersion
Normalize(v) == IF v = "v2" THEN "2" ELSE v

\* versionsMatch
VersionsMatch(left, right) == left # "none" /\ Normalize(left) = Normalize(right)

NoStatus == [v |-> "none", job |-> "none"]

\* A page that was just loaded: refs are empty, the first status is asked for.
Fresh(u) ==
  [u EXCEPT !.status = NoStatus, !.show = FALSE, !.applying = FALSE, !.error = "none", !.target = "none",
            !.polling = FALSE, !.restart = FALSE, !.stale = FALSE, !.reloading = FALSE, !.checking = FALSE,
            !.ticks = <<>>, !.load = "out", !.apply = "none"]

Init ==
  \E w \in Worlds, latest \in Tags :
    ui = [world |-> w, latest |-> latest, srv |-> [v |-> "1", up |-> TRUE, job |-> "idle"],
          stored |-> "none", seen |-> FALSE, toasts |-> 0, auto |-> 0, loads |-> 0, clicks |-> 0,
          status |-> NoStatus, show |-> FALSE, applying |-> FALSE, error |-> "none", target |-> "none",
          polling |-> FALSE, restart |-> FALSE, stale |-> FALSE, reloading |-> FALSE, checking |-> FALSE,
          ticks |-> <<>>, load |-> "out", apply |-> "none"]

In(w) == w \in ui.world

\* jobs that are still at work
Working == {"applying", "restarting"}

\* An answer takes less than the timeouts, of 15 seconds and of 5 minutes,
\* and the five-minute poll does not cross a click on Install, unless the
\* network is slow.
Quiet == (ui.ticks = <<>> /\ ui.apply = "none" /\ ui.load = "none") \/ In("slow")

Snapshot == IF ui.srv.up THEN [v |-> ui.srv.v, job |-> ui.srv.job] ELSE [v |-> "down", job |-> "none"]

-----------------------------------------------------------------------------
(* The server and its helper *)

StartJob(srv) == [srv EXCEPT !.job = "applying"]

\* The automatic update, or another tab.
OtherStarts ==
  /\ In("other") /\ ui.srv.up /\ ui.srv.v = "1" /\ ui.srv.job = "idle"
  /\ ui' = [ui EXCEPT !.srv = StartJob(@)]

\* The helper downloads, fails, or restarts the server; the server comes back
\* as the new version, or as the old one.
HelperProceeds ==
  \/ /\ ui.srv.job = "applying"
     /\ \E j \in {"restarting", "failed"} : ui' = [ui EXCEPT !.srv.job = j]
  \/ /\ ui.srv.job = "restarting" /\ ui.srv.up
     /\ ui' = [ui EXCEPT !.srv.up = FALSE]
  \/ /\ ~ui.srv.up
     /\ \E next \in {<<"2", "succeeded">>, <<"1", "succeeded">>, <<"1", "failed">>} :
          ui' = [ui EXCEPT !.srv = [v |-> next[1], up |-> TRUE, job |-> next[2]]]

-----------------------------------------------------------------------------
(* Status and toast *)

\* updateHoldNeedsAttention: the banner announces this one.
HoldNeedsAttention == In("held")

\* notifyIfUpdateAvailable
Notify(u, data) ==
  IF data.v # "1" \/ HoldNeedsAttention \/ u.seen THEN u
  ELSE [u EXCEPT !.seen = TRUE, !.toasts = @ + 1]

\* persistStatus
PersistStatus(u, data) == Notify([u EXCEPT !.status = data], data)

\* stopJobPolling
StopJobPolling(u) == [u EXCEPT !.polling = FALSE, !.restart = FALSE, !.stale = FALSE]

\* currentTarget
CurrentTarget(u) ==
  IF u.target # "none" THEN u.target
  ELSE IF u.stored # "none" THEN u.stored
  ELSE IF u.status # NoStatus THEN u.latest ELSE "none"

\* tickJob up to its request
TickJob(u) ==
  IF u.reloading \/ Len(u.ticks) >= (IF In("slow") THEN 2 ELSE 1) THEN u
  ELSE [u EXCEPT !.target = CurrentTarget(u),
                 !.ticks = Append(@, [target |-> CurrentTarget(u), kind |-> "updates", res |-> NoStatus])]

\* startJobPolling
StartJobPolling(u) == [TickJob(u) EXCEPT !.polling = TRUE]

\* flashAndReload up to its pause
FlashAndReload(u) ==
  IF u.reloading THEN u
  ELSE [StopJobPolling(u) EXCEPT !.reloading = TRUE, !.applying = TRUE, !.show = TRUE, !.error = "none"]

-----------------------------------------------------------------------------
(* Loading the status *)

\* applyLoadedStatus: a tab that was reloaded on the new version forgets its
\* target; one that finds an update under way follows it.
ApplyLoadedStatus(u, data) ==
  LET v == PersistStatus(u, data) IN
  CASE v.stored # "none" /\ VersionsMatch(data.v, v.stored) -> [v EXCEPT !.stored = "none", !.target = "none"]
    [] data.job \in Working \/ (v.stored # "none" /\ ~VersionsMatch(data.v, v.stored)) ->
         StartJobPolling([v EXCEPT !.target = IF v.stored # "none" THEN v.stored ELSE v.latest,
                                   !.show = TRUE, !.applying = TRUE, !.error = "none"])
    [] OTHER -> v

\* handleLoadFailure
HandleLoadFailure(u) ==
  IF u.stored = "none" THEN u
  ELSE StartJobPolling([u EXCEPT !.target = u.stored, !.show = TRUE, !.applying = TRUE])

\* loadStatus at mount and every five minutes while no job is polled.
Poll ==
  /\ Quiet /\ ~ui.polling /\ ui.load = "none" /\ ui.status # NoStatus
  /\ ui' = [ui EXCEPT !.load = "out"]

LoadAnswered ==
  /\ ui.load = "out"
  /\ LET u == [ui EXCEPT !.load = "none"] IN
     ui' = IF ui.srv.up THEN ApplyLoadedStatus(u, Snapshot) ELSE HandleLoadFailure(u)

-----------------------------------------------------------------------------
(* Polling the job *)

\* The interval of the poll.
Tick ==
  /\ ui.polling
  /\ ui' = TickJob(ui)
  /\ ui' # ui

\* The server, or nobody, answers a tick.
TickServed ==
  \E i \in DOMAIN ui.ticks :
    /\ ui.ticks[i].res = NoStatus
    /\ ui' = [ui EXCEPT !.ticks[i].res = Snapshot]

Without(s, i) == SubSeq(s, 1, i - 1) \o SubSeq(s, i + 1, Len(s))

\* The rest of tickJob when the status arrived.
TickStatus(u, target, data) ==
  LET v == PersistStatus(u, data) IN
  CASE VersionsMatch(data.v, target) -> FlashAndReload(v)
    [] data.job = "failed" -> [StopJobPolling(v) EXCEPT !.applying = FALSE, !.show = TRUE, !.error = "failed"]
    [] data.job = "succeeded" ->
         [v EXCEPT !.applying = TRUE, !.show = TRUE, !.error = "none", !.restart = FALSE, !.stale = TRUE]
    [] data.job \in Working ->
         [v EXCEPT !.applying = TRUE, !.show = TRUE, !.error = "none", !.stale = FALSE,
                   !.restart = IF data.job = "restarting" THEN TRUE ELSE FALSE]
    [] OTHER -> v

\* The status did not come: the server is restarting; its health is asked.
TickFailed(u, i) ==
  [u EXCEPT !.stale = FALSE, !.applying = TRUE, !.show = TRUE, !.restart = TRUE,
            !.ticks[i] = [target |-> @.target, kind |-> "health", res |-> NoStatus]]

TickAnswered ==
  \E i \in DOMAIN ui.ticks :
    LET t == ui.ticks[i] IN
    LET gone == [ui EXCEPT !.ticks = Without(@, i)] IN
    /\ t.res # NoStatus
    /\ i = 1 \/ In("slow")
    /\ ui' = CASE t.kind = "updates" /\ t.res.v # "down" -> TickStatus(gone, t.target, t.res)
               [] t.kind = "updates" -> TickFailed(ui, i)
               [] t.kind = "health" /\ VersionsMatch(t.res.v, t.target) -> FlashAndReload(gone)
               [] OTHER -> gone

\* failRestartTimeout
RestartTimeout ==
  /\ ui.restart /\ Quiet
  /\ ui' = [StopJobPolling(ui) EXCEPT !.applying = FALSE, !.show = TRUE, !.error = "timeout"]

\* failSucceededStale
SucceededTimeout ==
  /\ ui.stale /\ Quiet
  /\ ui' = [StopJobPolling(ui) EXCEPT !.applying = FALSE, !.show = TRUE, !.error = "unchanged"]

\* The page is loaded again: by flashAndReload, or by the person, who does
\* not do it before the click on Install was answered.
Reload ==
  /\ ui.loads < MaxReloads /\ ui.apply = "none"
  /\ ui' = [Fresh(ui) EXCEPT !.loads = @ + 1, !.auto = IF ui.reloading THEN @ + 1 ELSE @]

-----------------------------------------------------------------------------
(* The dialog and the page on updates *)

Click == ui.clicks < MaxClicks

\* Install: in the dialog while it shows no progress, on the page while
\* nothing runs.
InstallShown == ui.status.v = "1" /\ ~ui.applying /\ ~ui.checking /\ ui.apply = "none"

Apply ==
  /\ Click /\ InstallShown /\ Quiet
  /\ ui' = [ui EXCEPT !.clicks = @ + 1, !.stored = ui.latest, !.target = ui.latest, !.show = TRUE,
                      !.applying = TRUE, !.error = "none", !.apply = "out"]

\* POST /api/updates/apply at the server.
ApplyServed ==
  /\ ui.apply = "out"
  /\ ui' = CASE ~ui.srv.up -> [ui EXCEPT !.apply = "lost"]
             [] ui.srv.up /\ (In("refuses") \/ ui.srv.v = "2") -> [ui EXCEPT !.apply = "refused"]
             [] ui.srv.up /\ ui.srv.v = "1" /\ ui.srv.job \in Working -> [ui EXCEPT !.apply = "busy"]
             [] OTHER -> [ui EXCEPT !.apply = "started", !.srv = StartJob(@)]

\* The rest of apply.
ApplyOutcome(u, outcome) ==
  CASE outcome = "started" -> StartJobPolling(PersistStatus(u, [v |-> "1", job |-> "applying"]))
    [] outcome = "busy"    -> StartJobPolling(u)
    [] outcome = "refused" -> [u EXCEPT !.applying = FALSE, !.error = "refused"]
    [] OTHER               -> StartJobPolling(u)

ApplyAnswered ==
  /\ ui.apply \notin {"none", "out"}
  /\ ui' = ApplyOutcome([ui EXCEPT !.apply = "none"], ui.apply)

\* The dialog cannot be closed while an update runs without an error.
Blocking == ui.show /\ ui.applying /\ ui.error = "none"

\* dismissProgress
DismissProgress ==
  /\ Click /\ ui.show /\ ~Blocking
  /\ ui' = [ui EXCEPT !.clicks = @ + 1, !.show = FALSE, !.error = "none"]

\* checkNow: the button of the page.
CheckNow ==
  /\ Click /\ ~ui.checking /\ ~ui.applying /\ ui.status # NoStatus
  /\ ui' = [ui EXCEPT !.clicks = @ + 1, !.checking = TRUE]

CheckAnswered ==
  /\ ui.checking
  /\ LET u == [ui EXCEPT !.checking = FALSE] IN
     ui' = IF ui.srv.up THEN PersistStatus(u, Snapshot) ELSE u

Next ==
  \/ OtherStarts \/ HelperProceeds \/ Poll \/ LoadAnswered \/ Tick \/ TickServed \/ TickAnswered
  \/ RestartTimeout \/ SucceededTimeout \/ Reload \/ Apply \/ ApplyServed \/ ApplyAnswered
  \/ DismissProgress \/ CheckNow \/ CheckAnswered

-----------------------------------------------------------------------------
\* The state is well formed.
TypeOK ==
  /\ ui.world \in Worlds /\ ui.loads \in 0..MaxReloads /\ ui.clicks \in 0..MaxClicks
  /\ ui.stored \in Tags \cup {"none"} /\ ui.target \in Tags \cup {"none"} /\ Len(ui.ticks) <= 2
  /\ ui.error \in {"none", "failed", "timeout", "unchanged", "refused"}
  /\ ui.srv.job \in {"idle", "failed", "succeeded"} \cup Working
  /\ {ui.show, ui.applying, ui.polling, ui.restart, ui.stale, ui.reloading, ui.checking} \subseteq BOOLEAN

\* An update is announced by one toast in the life of a tab, also over the
\* reloads of the page, and by none when the banner announces it
\* (updateHoldNeedsAttention: "so this update is announced once").
AnnouncedOnce == ui.toasts <= (IF In("held") THEN 0 ELSE 1)

\* The page reloads itself on the new version only, and once: the stored
\* target that let it follow the restart does not make the new page follow
\* it again (applyLoadedStatus).
ReloadsOnce == ui.auto + (IF ui.reloading THEN 1 ELSE 0) <= (IF ui.srv.v = "2" THEN 1 ELSE 0)

\* The dialog comes to say that the version is unchanged only when the
\* version last seen is not the one that was wanted, however either is
\* written (versionsMatch).
UnchangedTrue ==
  ui.error # "unchanged" /\ ui'.error = "unchanged" => Normalize(ui.status.v) # Normalize(ui.latest)

\* A dialog that cannot be closed is never left alone: the job is polled, a
\* timeout runs, or an answer that settles it is on its way; and unless the
\* server refused the installation there is a job to wait for.
BlockedIsDriven ==
  Blocking /\ ~In("slow") =>
    /\ ui.polling \/ ui.restart \/ ui.stale \/ ui.reloading \/ ui.apply # "none" \/ ui.ticks # <<>>
    /\ In("refuses") \/ ui.srv.job # "idle" \/ ui.apply # "none"
=============================================================================
