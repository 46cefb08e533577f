--------------------------- MODULE TransportPanel ---------------------------
(***************************************************************************)
(* Where the radio is attached: the transport panel, and the way back from *)
(* TCP.                                                                    *)
(***************************************************************************)
EXTENDS Integers, Sequences, FiniteSets

CONSTANTS PanelWorlds,
          MaxMoves,
          MaxClicks,   \* switches and reverts asked for
          MaxOther     \* changes made on another device

VARIABLE ui

-----------------------------------------------------------------------------
(***************************************************************************)
(* How the radio is reached: RadioTransportPanel with the saved transport, *)
(* its draft, the scan, Save and connect, and inside it RadioBlePairing,   *)
(* which shows the bond of the saved Bluetooth radio and mends it.         *)
(* RadioBlePairing is mounted while the draft's kind is Bluetooth; its     *)
(* state dies with it and its late answers are dropped.  Requests that     *)
(* read the status are answered in the order the server read it.           *)
(* Circumstances of a world: "crosses" - the reader presses Save while a   *)
(* pairing request is under way; "slow" - the reader edits before the      *)
(* first answer; "overtakes" - the answer to a request overtakes the       *)
(* readings before it.                                                     *)
(***************************************************************************)
Addresses == {"x", "y"}
Statuses == {"none", "not_paired", "paired", "pairing", "rejected", "not_configured"}

PanelInit ==
  \E w \in PanelWorlds :
    ui = [world |-> w, saved |-> [kind |-> "ble", addr |-> "x"],
          bond |-> [a \in Addresses |-> "not_paired"], pairing |-> "none", connected |-> FALSE,
          loaded |-> FALSE, snapshot |-> [kind |-> "serial", addr |-> ""],
          form |-> [kind |-> "serial", addr |-> "", pin |-> FALSE],
          busy |-> "no", sent |-> [kind |-> "serial", addr |-> ""], scanning |-> FALSE,
          status |-> "none", request |-> "none", error |-> FALSE, reads |-> <<>>, orphan |-> 0,
          scanOff |-> FALSE, moves |-> 0]

Mounted(u) == u.form.kind = "ble"
\* applicable: the saved radio is the one on the screen.
Applicable(u) == /\ Mounted(u) /\ u.snapshot.kind = "ble"
                 /\ u.snapshot.addr # "" /\ u.snapshot.addr = u.form.addr
Saving(u) == u.busy # "no"

\* GET /radio/ble/pairing
ServerStatus(u) ==
  IF u.saved.kind # "ble" THEN "not_configured"
  ELSE IF u.pairing # "none" THEN "pairing" ELSE u.bond[u.saved.addr]

\* refresh: the status as the server answers it; of two equal answers in a
\* row the second changes nothing.
Refresh(u) ==
  IF u.reads # <<>> /\ u.reads[Len(u.reads)] = ServerStatus(u) THEN u
  ELSE [u EXCEPT !.reads = Append(@, ServerStatus(u))]

BusyNow(u) == Saving(u) \/ u.status = "pairing" \/ u.request # "none"

\* The pairing panel leaves the page: its state goes, its answers too, and
\* the cleanup of its effect tells the panel that it is not busy.
Unmount(u) ==
  [u EXCEPT !.status = "none", !.request = "none", !.error = FALSE, !.reads = <<>>,
            !.orphan = IF u.request = "none" THEN @ ELSE 1, !.scanOff = FALSE]

\* The effects and the adjustments after a render that led from ui to u.
Effects(u) ==
  LET fresh == Mounted(u) /\ ~Mounted(ui)
      changed == \/ fresh \/ Applicable(u) # Applicable(ui)
                 \/ Saving(u) # Saving(ui) \/ u.connected # ui.connected
      v == IF changed /\ Applicable(u) /\ ~Saving(u) THEN Refresh(u) ELSE u
  IN  IF ~Mounted(u) THEN (IF Mounted(ui) THEN Unmount(u) ELSE u)
      ELSE [v EXCEPT !.scanOff = BusyNow(u),
                     !.error = @ /\ ~(u.status = "paired" /\ u.request = "none")]

Moved(u) == ui.moves < MaxMoves /\ ui' = Effects([u EXCEPT !.moves = @ + 1])

-----------------------------------------------------------------------------
(* The transport panel.                                                    *)

\* applySnapshot
ApplySnapshot(u, s) ==
  [u EXCEPT !.snapshot = s, !.form = [kind |-> s.kind, addr |-> s.addr, pin |-> FALSE]]

Load ==
  /\ ~ui.loaded
  /\ ui' = Effects(ApplySnapshot([ui EXCEPT !.loaded = TRUE], ui.saved))

CanEdit == ui.loaded \/ "slow" \in ui.world

InOrder == ui.reads = <<>> \/ "overtakes" \in ui.world

SetKind(k) == CanEdit /\ k # ui.form.kind /\ Moved([ui EXCEPT !.form.kind = k])

TypeAddress(a) ==
  CanEdit /\ Mounted(ui) /\ a # ui.form.addr /\ Moved([ui EXCEPT !.form.addr = a])

TypePin == CanEdit /\ Mounted(ui) /\ Moved([ui EXCEPT !.form.pin = ~@])

\* handleRefreshHost: the lists are read again, the draft stays.
RefreshHost ==
  /\ ui.loaded /\ ui.form.kind = "serial" /\ ui.snapshot # ui.saved
  /\ ui' = Effects([ui EXCEPT !.snapshot = ui.saved])

\* handleScanBle
Scan ==
  /\ Mounted(ui) /\ ~ui.scanning /\ ~ui.scanOff
  /\ Moved([ui EXCEPT !.scanning = TRUE])

Scanned ==
  /\ ui.scanning
  /\ ui' = Effects([ui EXCEPT !.scanning = FALSE])

\* handleApply
Apply ==
  /\ ui.busy = "no" /\ CanEdit
  /\ (ui.request = "none" /\ ui.orphan = 0) \/ "crosses" \in ui.world
  /\ Moved([ui EXCEPT !.busy = "sent", !.sent = [kind |-> ui.form.kind, addr |-> ui.form.addr]])

\* The server keeps an address that is not given.
ApplyArrives ==
  /\ ui.busy = "sent"
  /\ LET saved == [kind |-> ui.sent.kind,
                   addr |-> IF ui.sent.kind = "ble" /\ ui.sent.addr # "" THEN ui.sent.addr ELSE ui.saved.addr]
     IN  ui' = Effects([ui EXCEPT !.busy = "stored", !.saved = saved, !.connected = FALSE])

ApplyAnswered(ok) ==
  /\ (ok /\ ui.busy = "stored") \/ (~ok /\ ui.busy = "sent")
  /\ ui' = Effects(IF ok THEN ApplySnapshot([ui EXCEPT !.busy = "no"], ui.saved)
                   ELSE [ui EXCEPT !.busy = "no"])

-----------------------------------------------------------------------------
(* The pairing panel.                                                      *)

CanPair == ui.status \in {"not_paired", "rejected"}
CanForget == ui.status \in {"paired", "rejected"}

\* handlePair: Pair uses the saved PIN, so it waits for Save.
HandlePair ==
  /\ Applicable(ui) /\ CanPair /\ ~BusyNow(ui) /\ ~ui.form.pin
  /\ Moved([ui EXCEPT !.request = "pair", !.error = FALSE])

\* handleForget, confirmed.
HandleForget ==
  /\ Applicable(ui) /\ CanForget /\ ~BusyNow(ui)
  /\ Moved([ui EXCEPT !.request = "forget", !.error = FALSE])

\* The server begins with the radio that is saved now.
PairBegins ==
  /\ ui.request = "pair" /\ ui.pairing = "none" /\ ui.saved.kind = "ble"
  /\ ui' = Effects([ui EXCEPT !.pairing = ui.saved.addr, !.request = "pairing"])

\* It ends well or not; the answer, and after a refusal one more reading.
Answered(u, ok) ==
  IF u.request = "none" THEN [u EXCEPT !.orphan = 0]
  ELSE LET v == [u EXCEPT !.request = "none"]
       IN  IF ok THEN [v EXCEPT !.status = ServerStatus(v)] ELSE Refresh([v EXCEPT !.error = TRUE])

PairEnds(result) ==
  /\ ui.pairing # "none" /\ (ui.request = "pairing" => InOrder)
  /\ LET u == [ui EXCEPT !.bond[ui.pairing] = result, !.pairing = "none"]
     IN  ui' = Effects(IF ui.request = "pairing" \/ ui.orphan = 1 THEN Answered(u, result = "paired") ELSE u)

\* Nothing can be begun: another transport was saved, or an attempt of the
\* monitor is under way.
PairRefused ==
  /\ InOrder /\ ui.request = "pair" /\ (ui.saved.kind # "ble" \/ ui.pairing # "none")
  /\ ui' = Effects(Answered(ui, FALSE))

Forgotten ==
  /\ InOrder /\ ui.request = "forget"
  /\ ui' = Effects(IF ui.saved.kind = "ble"
                   THEN Answered([ui EXCEPT !.bond[ui.saved.addr] = "not_paired"], TRUE)
                   ELSE Answered(ui, FALSE))

\* A request whose panel has gone is served all the same.
OrphanServed ==
  /\ ui.orphan = 1 /\ ui.pairing = "none"
  /\ ui' = Effects([ui EXCEPT !.orphan = 0])

\* backgroundPolling: the monitor may pair while the radio is away.
BackgroundPolling(u) == Applicable(u) /\ ~u.connected /\ u.status # "not_configured"

FastPolling(u) == Applicable(u) /\ BusyNow(u)

Poll ==
  /\ ui.reads = <<>> /\ (FastPolling(ui) \/ BackgroundPolling(ui))
  /\ ServerStatus(ui) # ui.status
  /\ ui' = Refresh(ui)

ReadLands ==
  /\ ui.reads # <<>>
  /\ ui' = Effects([ui EXCEPT !.status = Head(ui.reads), !.reads = Tail(@)])

\* The connection monitor on the server: it pairs by itself, connects with
\* the bond, and loses the radio.
MonitorPairs ==
  /\ ~ui.connected /\ ui.saved.kind = "ble" /\ ui.pairing = "none" /\ ui.bond[ui.saved.addr] # "paired"
  /\ ui.request = "none" /\ ui.orphan = 0 /\ ui.moves < MaxMoves
  /\ ui' = Effects([ui EXCEPT !.pairing = ui.saved.addr, !.moves = @ + 1])

MonitorConnects ==
  /\ ~ui.connected /\ ui.saved.kind = "ble" /\ ui.bond[ui.saved.addr] = "paired" /\ ui.pairing = "none"
  /\ ui' = Effects([ui EXCEPT !.connected = TRUE])

PanelNext ==
  \/ Load
  \/ \E k \in {"serial", "tcp", "ble"} : SetKind(k)
  \/ \E a \in Addresses : TypeAddress(a)
  \/ TypePin
  \/ RefreshHost
  \/ Scan
  \/ Scanned
  \/ Apply
  \/ ApplyArrives
  \/ \E ok \in BOOLEAN : ApplyAnswered(ok)
  \/ HandlePair
  \/ HandleForget
  \/ PairBegins
  \/ \E result \in {"paired", "rejected"} : PairEnds(result)
  \/ PairRefused
  \/ Forgotten
  \/ OrphanServed
  \/ Poll
  \/ ReadLands
  \/ MonitorPairs
  \/ MonitorConnects

-----------------------------------------------------------------------------
(* Properties.                                                             *)

PanelTypeOK ==
  /\ ui.status \in Statuses /\ ui.busy \in {"no", "sent", "stored"} /\ ui.moves \in 0 .. MaxMoves
  /\ ui.request \in {"none", "pair", "pairing", "forget"} /\ Len(ui.reads) <= 5

\* Scan is held back only while the pairing panel on the page is busy: it is
\* never left disabled by a panel that has gone (onBusyChange).
ScanFreed == ui.scanOff => Mounted(ui) /\ BusyNow(ui)

\* Once nothing is awaited and no poll is due, the state on the screen is the
\* one the server holds, though the monitor pairs by itself and the reader
\* moves between the transports (refresh and the two polls).
StatusTrue ==
  /\ ui.world \cap {"crosses", "overtakes"} = {} /\ Applicable(ui) /\ ui.reads = <<>>
  /\ ~FastPolling(ui) /\ ~BackgroundPolling(ui)
  => ui.status = ServerStatus(ui)

-----------------------------------------------------------------------------
(***************************************************************************)
(* Moving Meshloom to the radio's Wi-Fi address: from the panel            *)
(* (RadioWifiSettings) or from the toast shown after a reboot              *)
(* (radioWifiSwitchToast).  The request saves the transport and reconnects *)
(* the radio; it can be refused before anything is saved, fail after it    *)
(* was, or succeed although the radio is then not reached.  The way back   *)
(* is offered when the radio stays unreachable. The transport is "ble"     *)
(* (where it starts), "tcp" (the radio's address) or "serial" (set         *)
(* meanwhile on another device).                                           *)
(***************************************************************************)
Kinds == {"ble", "tcp", "serial"}

TcpInit ==
  ui = [saved |-> "ble", prev |-> "none", link |-> "ble", health |-> "ble", other |-> 0, clicks |-> 0,
        transport |-> "none", reads |-> {[latest |-> TRUE, res |-> "none"]},
        phase |-> "idle", timer |-> FALSE, put |-> "none",
        toast |-> "due", tput |-> "none", ttimer |-> FALSE, check |-> "none", way |-> "none", mine |-> FALSE]

-----------------------------------------------------------------------------
(* The server *)

\* The transport is saved, the one before it is kept as the way back, and the
\* radio is connected again or not; what is saved already changes nothing.
Save(u, kind, reached) ==
  IF kind = u.saved THEN u ELSE
  [u EXCEPT !.saved = kind, !.prev = u.saved, !.link = IF reached THEN kind ELSE "none"]

\* transportSeqRef moves on: the reads on their way are no longer the latest.
Overtaken(reads) == {[r EXCEPT !.latest = FALSE] : r \in reads}

\* Health reaches the tab: only a connection tells it, not a failed one.
HealthArrives ==
  /\ ui.link # "none" /\ ui.health # ui.link
  /\ ui' = [ui EXCEPT !.health = ui.link, !.reads = Overtaken(@) \cup {[latest |-> TRUE, res |-> "none"]}]

\* The radio is reached after all.
Reconnects ==
  /\ ui.link # ui.saved
  /\ ui' = [ui EXCEPT !.link = ui.saved]

\* The transport panel, or another device, moves it elsewhere.
OtherChanges ==
  \E reached \in BOOLEAN :
    /\ ui.other < MaxOther /\ ui.saved # "serial"
    /\ ui' = [Save(ui, "serial", reached) EXCEPT !.other = @ + 1, !.mine = FALSE]

\* A request to switch: refused, lost after it was saved, or answered.
Outcome(u, kind) ==
  {[u |-> u, res |-> "refused"]} \cup
  {[u |-> [Save(u, kind, r) EXCEPT !.mine = TRUE], res |-> s] : r \in BOOLEAN, s \in {"lost", "ok"}}

-----------------------------------------------------------------------------
(* The panel *)

\* The transport is read when the panel appears and when the connection
\* changes; only the latest answer counts.
ReadServed ==
  \E r \in ui.reads :
    /\ r.res = "none"
    /\ ui' = [ui EXCEPT !.reads = (@ \ {r}) \cup {[r EXCEPT !.res = ui.saved]}]

Latest(r) == r.latest

ReadAnswered ==
  \E r \in ui.reads :
    /\ r.res # "none"
    /\ ui' = [ui EXCEPT !.reads = @ \ {r}, !.transport = IF Latest(r) THEN r.res ELSE @]

\* adoptTransport
Adopt(u, kind) == [u EXCEPT !.reads = Overtaken(@), !.transport = kind]

\* connectedOverTcp: health from before the switch never counts.
ConnectedOverTcp(health) == health = "tcp"

\* The phase the panel shows: back over TCP, the offer is moot.
Phase == IF ui.phase \in {"waiting", "offerRevert"} /\ ConnectedOverTcp(ui.health) THEN "idle" ELSE ui.phase

\* showTcpOffer
OfferShown == ui.transport \notin {"none", "tcp"} /\ Phase = "idle"

\* switchToTcp
SwitchToTcp ==
  /\ OfferShown /\ ui.clicks < MaxClicks
  /\ ui' = [ui EXCEPT !.clicks = @ + 1, !.timer = FALSE, !.phase = "switching", !.put = "out"]

PutServed ==
  \E o \in Outcome(ui, "tcp") :
    /\ ui.put = "out"
    /\ ui' = [o.u EXCEPT !.put = o.res]

\* tcpSwitchApplied: the saved transport is the one asked for.
TcpSwitchApplied(kind) == kind = "tcp"

\* It was answered: wait for the radio; it was not: read what was saved.
PutAnswered ==
  /\ ui.put \in {"ok", "lost", "refused"}
  /\ ui' = IF ui.put = "ok" THEN [Adopt(ui, "tcp") EXCEPT !.put = "none", !.phase = "waiting", !.timer = TRUE]
           ELSE [ui EXCEPT !.put = "reread"]

\* The way back is offered only when the server saved the switch.
Reread ==
  /\ ui.put = "reread"
  /\ \/ ui' = [Adopt(ui, ui.saved) EXCEPT !.put = "none", !.phase = IF TcpSwitchApplied(ui.saved) THEN "offerRevert" ELSE "idle"]
     \/ ui' = [ui EXCEPT !.put = "none", !.phase = "idle"]

\* Thirty seconds later.
RevertTimer ==
  /\ ui.timer
  /\ ui' = [ui EXCEPT !.timer = FALSE, !.phase = IF ConnectedOverTcp(ui.health) THEN "idle" ELSE "offerRevert"]

\* revertTransport: the button of the offer.
RevertTransport ==
  /\ Phase = "offerRevert" /\ ui.prev # "none" /\ ui.clicks < MaxClicks
  /\ ui' = [ui EXCEPT !.clicks = @ + 1, !.phase = "reverting"]

RevertAnswered ==
  /\ ui.phase = "reverting"
  /\ \/ /\ ui.prev # "none"
        /\ \E reached \in BOOLEAN :
             LET u == Save(ui, ui.prev, reached) IN
             ui' = [Adopt(u, u.saved) EXCEPT !.phase = "idle", !.mine = FALSE]
     \/ ui' = [ui EXCEPT !.phase = "offerRevert"]

-----------------------------------------------------------------------------
(* The toast *)

\* showWifiSwitchToast: unless TCP is used already, or the transport cannot be read.
ShowToast ==
  /\ ui.toast = "due"
  /\ ui' = [ui EXCEPT !.toast = IF ui.saved = "tcp" THEN "none" ELSE "offer"]

\* switchToTcpFromToast
ToastSwitch ==
  /\ ui.toast = "offer" /\ ui.clicks < MaxClicks
  /\ ui' = [ui EXCEPT !.clicks = @ + 1, !.toast = "none", !.tput = "out"]

ToastServed ==
  \E o \in Outcome(ui, "tcp") :
    /\ ui.tput = "out"
    /\ ui' = [o.u EXCEPT !.tput = o.res]

\* offerRevert
OfferRevert(u) == IF u.prev = "none" THEN u ELSE [u EXCEPT !.way = "offered"]

ToastAnswered ==
  /\ ui.tput \notin {"none", "out"}
  /\ \E read \in BOOLEAN : LET u == [ui EXCEPT !.tput = "none"] IN
     ui' = CASE ui.tput = "ok" -> [u EXCEPT !.ttimer = TRUE]
             [] ui.tput # "ok" /\ TcpSwitchApplied(IF read THEN ui.saved ELSE "none") -> OfferRevert(u)
             [] OTHER -> u

\* Thirty seconds later health is asked, then what is saved: a transport
\* changed meanwhile is not this tab's to undo.
ToastTimer ==
  /\ ui.ttimer
  /\ ui' = [ui EXCEPT !.ttimer = FALSE, !.check = IF ConnectedOverTcp(ui.link) THEN "none" ELSE "saved"]

ToastCheck ==
  /\ ui.check = "saved"
  /\ LET u == [ui EXCEPT !.check = "none"] IN
     ui' = IF TcpSwitchApplied(ui.saved) THEN OfferRevert(u) ELSE u

\* Its button, once: the server goes back to the transport before this one.
ToastRevert ==
  /\ ui.way = "offered"
  /\ \/ ui' = [ui EXCEPT !.way = "none"]
     \/ \E reached \in BOOLEAN : ui' = [Save(ui, ui.prev, reached) EXCEPT !.way = "none", !.mine = FALSE]

TcpNext ==
  \/ HealthArrives \/ Reconnects \/ OtherChanges \/ ReadServed \/ ReadAnswered \/ SwitchToTcp \/ PutServed
  \/ PutAnswered \/ Reread \/ RevertTimer \/ RevertTransport \/ RevertAnswered
  \/ ToastSwitch \/ ToastServed \/ ToastAnswered \/ ToastTimer \/ ToastCheck \/ ToastRevert \/ ShowToast

-----------------------------------------------------------------------------
\* The state is well formed.
TcpTypeOK ==
  /\ ui.saved \in Kinds /\ ui.prev \in Kinds \cup {"none"} /\ ui.transport \in Kinds \cup {"none"}
  /\ ui.phase \in {"idle", "switching", "waiting", "offerRevert", "reverting"}
  /\ ui.clicks \in 0..MaxClicks /\ ui.other \in 0..MaxOther
  /\ ui.way \in {"none", "offered"} /\ {ui.timer, ui.ttimer, ui.mine} \subseteq BOOLEAN

\* "Only the latest transport answer counts (a re-read racing the switch's
\* own)": an answer that is older than the switch never puts back the
\* transport the panel switched away from.
TransportLatest ==
  ui.reads = {} /\ ui.other = 0 /\ ui.put = "none" /\ ui.toast # "none" /\ ui.health = ui.link /\ ui.saved = ui.link =>
    ui.transport = ui.saved

\* "The way back only when the server saved the switch": when the panel comes
\* to offer it, the switch of this tab was saved and stands.  (The timer of the
\* panel does not look again at what is saved: a switch undone meanwhile from
\* the toast or on another device is left out.)
OfferOnlySaved ==
  ui.phase # "offerRevert" /\ ui'.phase = "offerRevert" => ui'.mine \/ ui.other > 0 \/ ui.toast = "none"

\* "Changed again meanwhile (by the user, or another tab): not ours to undo":
\* the toast offers the way back only while the saved transport is the one
\* it asked for.
ToastNotOurs == ui.way = "none" /\ ui'.way = "offered" => ui.saved = "tcp"

\* "Health from before the switch ... never counts": a radio that is not
\* reached at its new address leaves the panel waiting, with the timer that
\* offers the way back, or offering it; it is never taken for reached because
\* the old connection was.
WayBackComes ==
  /\ ui.phase = "waiting" => ui.timer
  /\ ui.mine /\ ui.saved = "tcp" /\ ui.transport = "tcp" /\ ui.toast # "none" /\ ui.link # "tcp" /\ ui.health # "tcp"
       /\ ui.put = "none" /\ ui.other = 0 /\ ui.reads = {} => Phase \in {"waiting", "offerRevert", "reverting"}
=============================================================================
