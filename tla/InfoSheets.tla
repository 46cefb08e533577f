---------------------------- MODULE InfoSheets ----------------------------
(***************************************************************************)
(* The two sheets that slide in over a conversation: the one about a       *)
(* contact (ContactInfoPane) and the one about a channel                   *)
(* (ChannelInfoPane).  A sheet asks the server about what it shows each    *)
(* time it is opened; the answers of an earlier opening may arrive after   *)
(* the sheet was closed and opened again, for the same contact or for      *)
(* another one.                                                            *)
(*                                                                         *)
(* An opening of a sheet has a number, and everything the server answers   *)
(* carries the number of the opening that asked.                           *)
(***************************************************************************)
EXTENDS Integers, FiniteSets

CONSTANTS Worlds,    \* sets of "fails", "late"
          MaxVisits, \* openings in a behaviour
          MaxFetches \* live telemetry requests in a behaviour

VARIABLE ui

Full == {"c1", "c2"}              \* contacts with a public key
SheetKeys == Full \cup {"name:x"}      \* a sender known by name only
Channels == {"h1", "h2"}

Unasked == [of |-> "none", visit |-> 0]

Init ==
  \E w \in Worlds, listed \in {{}, Full} :
    ui = [world |-> w, contacts |-> listed,
          contact |-> "none", visit |-> 0, result |-> Unasked, found |-> FALSE, asks |-> {},
          history |-> Unasked, reads |-> {}, loaded |-> 0, live |-> {}, fetching |-> FALSE, fetches |-> 0,
          channel |-> "none", detail |-> Unasked, settledKey |-> "none", details |-> {},
          settled |-> FALSE, timers |-> {}, since |-> 0, elapsed |-> 0]

In(w) == w \in ui.world

-----------------------------------------------------------------------------
(* Opening and closing the contact sheet *)

\* useEntranceSettled: charts are mounted once the sheet has been open for as
\* long as its animation takes; the timer is dropped when it closes.
Entrance(u, open) ==
  CASE open /\ u.contact = "none" -> [u EXCEPT !.timers = {u.visit + 1}, !.since = u.visit + 1]
    [] ~open                      -> [u EXCEPT !.timers = {}, !.settled = FALSE, !.since = 0]
    [] OTHER                      -> u

\* prevContactKey: what is dropped when the sheet shows another contact.
Reset(u, k) ==
  [u EXCEPT !.contact = k, !.result = Unasked, !.found = FALSE,
            !.history = IF k \in Full THEN @ ELSE Unasked]

\* The effects of the sheet: analytics for every contact, the stored
\* telemetry for one with a public key.  What the last opening asked for is
\* aborted (analytics) or ignored (history): its number is not the current one.
Effects(u, k) ==
  LET ask == [of |-> k, visit |-> u.visit + 1] IN
  [u EXCEPT !.visit = @ + 1, !.asks = @ \cup {ask}, !.reads = IF k \in Full THEN @ \cup {ask} ELSE @]

\* handleOpenContactInfo
HandleOpenContactInfo ==
  \E k \in SheetKeys \ {ui.contact} :
    /\ ui.visit < MaxVisits /\ ui.channel = "none"
    /\ ui.live = {} \/ In("late")
    /\ ui' = Effects(Reset(Entrance(ui, TRUE), k), k)

\* handleCloseContactInfo
HandleCloseContactInfo ==
  /\ ui.contact # "none"
  /\ ui.live = {} \/ In("late")
  /\ ui' = Reset(Entrance(ui, FALSE), "none")

EntranceTimer ==
  \E n \in ui.timers :
    ui' = [ui EXCEPT !.timers = @ \ {n}, !.settled = TRUE, !.elapsed = n]

-----------------------------------------------------------------------------
(* What the contact sheet asks *)

AbortedNever(ask) == ui.contact # ask.of

Aborted(ask) == ask.visit # ui.visit \/ ui.contact # ask.of

\* getContactAnalytics answered.
AnalyticsAnswered ==
  \E ask \in ui.asks :
    ui' = IF Aborted(ask) THEN [ui EXCEPT !.asks = @ \ {ask}]
          ELSE [ui EXCEPT !.asks = @ \ {ask}, !.result = ask, !.found = TRUE]

\* It failed: the sheet says that it found nothing.
AnalyticsFailed ==
  \E ask \in ui.asks :
    /\ In("fails")
    /\ ui' = IF Aborted(ask) THEN [ui EXCEPT !.asks = @ \ {ask}]
             ELSE [ui EXCEPT !.asks = @ \ {ask}, !.result = IF @.of = ask.of THEN @ ELSE ask]

\* contactTelemetryHistory answered; a failure reads as no history.
HistoryAnswered ==
  \E ask \in ui.reads :
    ui' = IF Aborted(ask) THEN [ui EXCEPT !.reads = @ \ {ask}]
          ELSE [ui EXCEPT !.reads = @ \ {ask}, !.history = ask, !.loaded = ask.visit]

HistoryFailed ==
  \E ask \in ui.reads :
    /\ In("fails")
    /\ ui' = IF Aborted(ask) THEN [ui EXCEPT !.reads = @ \ {ask}]
             ELSE [ui EXCEPT !.reads = @ \ {ask}, !.history = Unasked, !.loaded = ask.visit]

\* The contact shown: the live one, or the one of the analytics.
Shown == IF ui.contact \in ui.contacts THEN ui.contact
         ELSE IF ui.found /\ ui.result.of = ui.contact /\ ui.contact \in Full THEN ui.result.of ELSE "none"

Loading == ui.contact # "none" /\ ui.result.of # ui.contact

\* What the sheet is made of.
Body ==
  CASE ui.contact = "none"           -> "closed"
    [] ui.contact \notin Full        -> "name"
    [] Loading /\ Shown = "none"     -> "loading"
    [] Shown # "none"                -> "contact"
    [] OTHER                         -> "missing"

\* Counts, names used, adverts, repeaters in between and active channels: the
\* sections that are made from the analytics.
AnalyticsSections ==
  IF Body \in {"name", "contact"} /\ ui.found /\ ui.result.of = ui.contact THEN ui.result ELSE Unasked

\* The charts of the analytics wait for the sheet to settle.
ChartsShown == AnalyticsSections # Unasked /\ ui.settled

\* The section on telemetry: its sensors, position and chart are those of
\* the history kept by the sheet.
TelemetrySection == IF Body = "contact" THEN ui.history ELSE Unasked

\* An active channel is opened, or the messages of the sender are searched:
\* the sheet closes.
HandleNavigateToChannel ==
  /\ AnalyticsSections # Unasked /\ (ui.live = {} \/ In("late"))
  /\ ui' = Reset(Entrance(ui, FALSE), "none")

HandleOpenSearchWithQuery ==
  /\ Body \in {"name", "contact"} /\ (ui.live = {} \/ In("late"))
  /\ ui' = Reset(Entrance(ui, FALSE), "none")

\* handleFetchTelemetry: the button, disabled while a request runs.
HandleFetchTelemetry ==
  /\ Body = "contact" /\ ~ui.fetching /\ ui.fetches < MaxFetches
  /\ ui' = [ui EXCEPT !.fetching = TRUE, !.live = @ \cup {[of |-> ui.contact, visit |-> ui.visit]}, !.fetches = @ + 1]

\* The mesh answered: whatever sheet is open takes the history.
TelemetryAnswered ==
  \E ask \in ui.live :
    ui' = [ui EXCEPT !.live = @ \ {ask}, !.fetching = FALSE, !.history = ask]

TelemetryFailed ==
  \E ask \in ui.live :
    /\ In("fails")
    /\ ui' = [ui EXCEPT !.live = @ \ {ask}, !.fetching = FALSE]

-----------------------------------------------------------------------------
(* The channel sheet *)

\* prevChannelKey and the effect of the channel sheet: the detail of the last
\* channel is dropped when the sheet closes.
ShowChannel(u, k) ==
  IF k = "none" THEN [u EXCEPT !.channel = k, !.settledKey = "none", !.detail = Unasked]
  ELSE [u EXCEPT !.channel = k, !.settledKey = "none", !.visit = @ + 1, !.details = @ \cup {[of |-> k, visit |-> u.visit + 1]}]

\* handleOpenChannelInfo: from the header of the open conversation.
HandleOpenChannelInfo ==
  \E k \in Channels :
    /\ ui.channel = "none" /\ ui.contact = "none" /\ ui.visit < MaxVisits
    /\ ui' = ShowChannel(ui, k)

HandleCloseChannelInfo == ui.channel # "none" /\ ui' = ShowChannel(ui, "none")

Cancelled(ask) == ask.visit # ui.visit \/ ui.channel # ask.of

DetailAnswered ==
  \E ask \in ui.details :
    ui' = IF Cancelled(ask) THEN [ui EXCEPT !.details = @ \ {ask}]
          ELSE [ui EXCEPT !.details = @ \ {ask}, !.detail = ask, !.settledKey = ask.of]

DetailFailed ==
  \E ask \in ui.details :
    /\ In("fails")
    /\ ui' = IF Cancelled(ask) THEN [ui EXCEPT !.details = @ \ {ask}]
             ELSE [ui EXCEPT !.details = @ \ {ask}, !.settledKey = ask.of]

\* The sections of the sheet on messages, hop widths and senders.
DetailShown == IF ui.channel = "none" THEN Unasked ELSE ui.detail

Next ==
  \/ HandleOpenContactInfo \/ HandleCloseContactInfo \/ EntranceTimer
  \/ HandleNavigateToChannel \/ HandleOpenSearchWithQuery
  \/ AnalyticsAnswered \/ AnalyticsFailed \/ HistoryAnswered \/ HistoryFailed
  \/ HandleFetchTelemetry \/ TelemetryAnswered \/ TelemetryFailed
  \/ HandleOpenChannelInfo \/ HandleCloseChannelInfo \/ DetailAnswered \/ DetailFailed

-----------------------------------------------------------------------------
\* The state is well formed.
TypeOK ==
  /\ ui.world \in Worlds /\ ui.visit \in 0..MaxVisits /\ ui.contact \in SheetKeys \cup {"none"}
  /\ ui.channel \in Channels \cup {"none"} /\ ui.settledKey \in Channels \cup {"none"}
  /\ {ui.result, ui.history, ui.detail} \cup ui.asks \cup ui.reads \cup ui.live \cup ui.details
       \subseteq [of : SheetKeys \cup Channels \cup {"none"}, visit : 0..MaxVisits]

\* "reopening a contact shows the spinner and fresh data, never a stale
\* result" (prevContactKey): the analytics shown were asked for by this very
\* opening, however late those of an earlier opening arrive.
AnalyticsFresh ==
  AnalyticsSections # Unasked => AnalyticsSections = [of |-> ui.contact, visit |-> ui.visit]

\* The spinner is there exactly as long as an answer is still to come: no
\* failed or aborted request leaves it turning (the finally of the request).
SpinnerEnds ==
  /\ ui.contact # "none" => (Loading <=> \E ask \in ui.asks : ~Aborted(ask))
  /\ Body = "loading" => \E ask \in ui.asks : ~Aborted(ask)

\* The telemetry of a sheet is that of its contact once its history was read,
\* when nobody left an earlier sheet with a live request still out.
TelemetryOfContact ==
  ui.loaded = ui.visit /\ ~In("late") => TelemetrySection.of \in {ui.contact, "none"}

\* The button is disabled exactly while a live request is out, also one that
\* an earlier sheet made.
FetchingTrue == ui.fetching <=> ui.live # {}

\* "false until open has been continuously true for delayMs"
\* (useEntranceSettled): charts appear only in a sheet whose own timer ran
\* out, never because of the timer of a sheet closed before.
ChartsSettled == ChartsShown => ui.elapsed = ui.since

\* The channel sheet never shows the counts of another channel or of an
\* earlier opening, and once it has settled it no longer says that it loads.
DetailFresh ==
  /\ DetailShown # Unasked => DetailShown.of = ui.channel /\ DetailShown.visit = ui.visit
  /\ ui.channel # "none" /\ ui.settledKey # ui.channel => \E ask \in ui.details : ~Cancelled(ask)
=============================================================================
