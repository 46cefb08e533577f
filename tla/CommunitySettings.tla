-------------------------- MODULE CommunitySettings --------------------------
(***************************************************************************)
(* What the browser knows of Community (communityStore.ts), and the         *)
(* settings page that joins it, changes its region and leaves it            *)
(* (SettingsCommunitySection.tsx, useCommunityLeave.tsx). The server, other *)
(* tabs and the radio change the membership too; the browser learns of it   *)
(* from a `community_live` notice, which only tells it to read again.       *)
(*                                                                         *)
(* A request has two ends: when the server answers it, and when the answer  *)
(* arrives. In the world "crosses" a change may fall between the two, and a *)
(* notice that arrives while an older reading is on its way shares it. In   *)
(* "meets" another tab may change the membership while this one does. In    *)
(* "fails" readings fail too, codes are suggested, and nothing changes      *)
(* elsewhere.                                                               *)
(***************************************************************************)
EXTENDS Integers, Sequences, FiniteSets

CONSTANTS Worlds,     \* the sets of circumstances looked at
          MaxChanges, \* changes made elsewhere
          MaxTurns    \* what the reader does, and losses of the socket

VARIABLE ui

Codes == {"A", "B"}
Status(on, iata, wait, pend) == [known |-> TRUE, on |-> on, iata |-> iata, wait |-> wait, pend |-> pend]
Unknown == [known |-> FALSE, on |-> FALSE, iata |-> "", wait |-> FALSE, pend |-> FALSE]

\* communityStatusActive: on, and not waiting for a position.
Active(s) == s.on /\ ~s.wait

\* needsOverride
NeedsOverride(c) == c = "mismatch"

NoGet == [st |-> "none", val |-> Unknown]
NoFlow == [kind |-> "none", st |-> "none", val |-> Unknown, live |-> FALSE]
NoStats == [com |-> FALSE, me |-> "", err |-> FALSE]

Init ==
  \E w \in Worlds, s \in {Status(FALSE, "", FALSE, FALSE), Status(TRUE, "A", FALSE, FALSE)} :
    ui = [world |-> w, server |-> s, store |-> Unknown, seed |-> FALSE, get |-> [st |-> "asked", val |-> Unknown], news |-> FALSE, sock |-> TRUE,
          open |-> FALSE, error |-> FALSE, draft |-> "", bind |-> "none", stats |-> NoStats, loads |-> {}, flow |-> NoFlow,
          leave |-> "none", phase |-> "idle", chips |-> {}, changes |-> 0, turns |-> 0]

Turn(u) == [u EXCEPT !.turns = @ + 1]
MayAct(u) == u.turns < MaxTurns

\* No answer already given is on its way.
Uncrossed(u) == "crosses" \in u.world \/ (u.get.st # "read" /\ u.flow.st # "read")

-----------------------------------------------------------------------------
\* The server: a change is announced on the sockets that are up.
Announced(u, s) == [u EXCEPT !.server = s, !.news = @ \/ u.sock]

\* Another tab leaves, joins or changes the region; the radio loses or finds
\* its position.
ChangedElsewhere ==
  \E s \in {Status(FALSE, ui.server.iata, FALSE, FALSE)} \cup {Status(TRUE, c, ui.server.wait, FALSE) : c \in Codes}
            \cup (IF ui.server.on THEN {[ui.server EXCEPT !.wait = ~@]} ELSE {}) :
    /\ ui.changes < MaxChanges /\ "fails" \notin ui.world /\ s # ui.server /\ Uncrossed(ui)
    /\ ui.flow # NoFlow => "meets" \in ui.world
    /\ ui' = Announced([ui EXCEPT !.changes = @ + 1], s)

SocketFalls == ui.sock /\ MayAct(ui) /\ ui' = Turn([ui EXCEPT !.sock = FALSE, !.news = FALSE])

-----------------------------------------------------------------------------

\* The draft follows the saved code when that changes.
AdoptIata(u, s) == IF u.open /\ (~u.store.known \/ s.iata # u.store.iata) THEN [u EXCEPT !.draft = s.iata] ELSE u

\* The bind's result goes with the membership.
DropBind(u, s) == IF u.open /\ ~s.on /\ (u.store.on \/ ~u.store.known) THEN [u EXCEPT !.bind = "none"] ELSE u

\* The statistics go when Community stops being active, and are read again
\* for every status that is stored, as setCommunityStatus has it: a new object.
DropStats(u, s) == IF u.open /\ ~Active(s) /\ Active(u.store) THEN [u EXCEPT !.stats = NoStats] ELSE u

LoadStats(u, s) == IF u.open /\ Active(s) THEN [u EXCEPT !.loads = @ \cup {s.iata}] ELSE u

\* A form of the other kind (join, or change) has suggestions of its own.
RemountForm(u, s) == IF s.on # u.store.on THEN [u EXCEPT !.phase = "idle", !.chips = {}] ELSE u

\* setCommunityStatus, and the rendering that follows at once.
SetStatus(u, s) == [RemountForm(LoadStats(DropStats(DropBind(AdoptIata(u, s), s), s), s), s) EXCEPT !.store = s, !.seed = FALSE]

\* seedCommunityEnabled: counts only until something answered.
Seed == ~ui.store.known /\ ~ui.seed /\ ui' = [ui EXCEPT !.seed = TRUE]

\* loadCommunityStatus: concurrent callers share one request.
Load(u) == IF u.get.st = "none" THEN [u EXCEPT !.get = [st |-> "asked", val |-> Unknown]] ELSE u
GetReads == ui.get.st = "asked" /\ ui' = [ui EXCEPT !.get = [st |-> "read", val |-> ui.server]]
GetAnswers == ui.get.st = "read" /\ ui' = SetStatus([ui EXCEPT !.get = NoGet, !.error = FALSE], ui.get.val)

\* A failure keeps the last state; the page says why.
GetFails == ui.get.st = "asked" /\ "fails" \in ui.world /\ ui' = [ui EXCEPT !.get = NoGet, !.error = ui.open]

\* noteCommunityLiveOptedOut: reads again, once something was known.
Note(u) == IF u.store.known \/ u.seed THEN Load(u) ELSE u
NewsArrives == ui.news /\ ui' = Note([ui EXCEPT !.news = FALSE])

\* onReconnect
SocketReturns == ~ui.sock /\ ui' = Load([ui EXCEPT !.sock = TRUE])

-----------------------------------------------------------------------------
\* The page.
\* Where Community is known, and its buttons while no request of the page is
\* on its way (the reader waits for the retry of an opt-out too).
Shows(u) == u.open /\ u.store.known
Free(u) == Shows(u) /\ u.flow = NoFlow /\ u.leave = "none" /\ MayAct(u)

\* The reader does not come back to the page before a change they left there
\* is answered.
Open ==
  /\ ~ui.open /\ MayAct(ui) /\ ui.flow = NoFlow
  /\ LET u == [ui EXCEPT !.open = TRUE, !.draft = ui.store.iata] IN
     ui' = Load(IF u.store.known THEN LoadStats(Turn(u), u.store) ELSE Turn(u))
Close ==
  /\ ui.open /\ MayAct(ui)
  /\ ui' = Turn([ui EXCEPT !.open = FALSE, !.error = FALSE, !.draft = "", !.bind = "none", !.stats = NoStats, !.loads = {}, !.flow.live = FALSE,
                           !.leave = IF @ = "open" THEN "none" ELSE @, !.phase = "idle", !.chips = {}])

TypeIata == \E d \in Codes \cup {""} : Shows(ui) /\ MayAct(ui) /\ d # ui.draft /\ ui' = Turn([ui EXCEPT !.draft = d])

\* ask: suggestions are applied only by a click.
Suggest == Free(ui) /\ "fails" \in ui.world /\ ui.phase # "loading" /\ ui' = Turn([ui EXCEPT !.phase = "loading"])
SuggestAnswers == \E c \in {{}, {"B"}} : ui.phase = "loading" /\ ui' = [ui EXCEPT !.phase = "done", !.chips = c]

SuggestFailed(u) == [u EXCEPT !.phase = "failed", !.chips = {}]
SuggestFails == ui.phase = "loading" /\ ui' = SuggestFailed(ui)
PickIata == \E c \in ui.chips : Free(ui) /\ ui.phase = "done" /\ ui' = Turn([ui EXCEPT !.draft = c])

Start(u, kind) == [Turn(u) EXCEPT !.flow = [kind |-> kind, st |-> "post", val |-> Unknown, live |-> TRUE]]
IataValid(u) == u.draft \in Codes
Sent(u, kind, iata) == [Start(u, kind) EXCEPT !.flow.val = Status(TRUE, iata, FALSE, FALSE)]

HandleJoin == Free(ui) /\ ~ui.store.on /\ IataValid(ui) /\ ui' = Sent(ui, "join", ui.draft)
HandleBind == Free(ui) /\ ui.store.on /\ IataValid(ui) /\ ui' = Sent(ui, "bind", ui.draft)
HandleOverride == Free(ui) /\ ui.store.on /\ NeedsOverride(ui.bind) /\ ui' = Start(ui, "override")
HandleRetryOptOut == Free(ui) /\ ~ui.store.on /\ ui.store.pend /\ ui' = Start(ui, "retry")

\* requestLeave, the dialog, and its confirmation.
RequestLeave == Free(ui) /\ ui.store.on /\ ui' = Turn([ui EXCEPT !.leave = "open"])
DismissLeave == ui.leave = "open" /\ ui' = [ui EXCEPT !.leave = "none"]
ConfirmLeave == ui.leave = "open" /\ ui' = [ui EXCEPT !.leave = "sent", !.flow = [kind |-> "leave", st |-> "post", val |-> Unknown, live |-> TRUE]]

-----------------------------------------------------------------------------
Step(u, st) == [u EXCEPT !.flow.st = st]

\* The server serves the request. A bind turns Community on only to join; an
\* opt-out may stay unconfirmed.
ServerServes ==
  /\ ui.flow.st = "post" /\ Uncrossed(ui)
  /\ \/ /\ ui.flow.kind \in {"join", "bind"} /\ (ui.flow.kind = "bind" => ui.server.on)
        /\ ui' = Step(Announced(ui, Status(TRUE, ui.flow.val.iata, ui.server.wait, FALSE)), "served")
     \/ /\ ui.flow.kind = "leave"
        /\ \E p \in BOOLEAN : ui' = [Announced(ui, Status(FALSE, ui.server.iata, FALSE, p)) EXCEPT !.flow.st = "read", !.flow.val = Status(FALSE, ui.server.iata, FALSE, p)]
     \/ /\ ui.flow.kind = "retry" /\ ui.server.pend
        /\ LET s == [ui.server EXCEPT !.pend = FALSE] IN ui' = [ui EXCEPT !.server = s, !.flow.st = "read", !.flow.val = s]
     \/ ui.flow.kind = "override" /\ ui.server.on /\ ui' = Step(ui, "served")

\* loadStats, called by what the reader did: also while waiting for a position.
ThenStats(u, iata) == IF u.flow.live THEN [u EXCEPT !.loads = @ \cup {iata}, !.flow.st = "load"] ELSE [u EXCEPT !.flow = NoFlow]

\* setBindResult; then the membership is read again, or only the statistics.
BindAnswers ==
  \E c \in {"ok", "mismatch"} :
    /\ ui.flow.st = "served"
    /\ LET u == IF ui.flow.live THEN [ui EXCEPT !.bind = c] ELSE ui IN
       ui' = IF u.flow.kind = "override" THEN ThenStats(u, u.store.iata) ELSE Step(u, "asked")
FlowReads == ui.flow.st = "asked" /\ ui' = [ui EXCEPT !.flow.st = "read", !.flow.val = ui.server]

\* onLeft, for a leave.
Left(u, f) == IF f.kind = "leave" /\ f.live THEN [u EXCEPT !.leave = "none", !.bind = "none"] ELSE [u EXCEPT !.leave = "none"]
FlowAnswers ==
  /\ ui.flow.st = "read"
  /\ LET u == SetStatus(ui, ui.flow.val) IN
     ui' = IF ui.flow.kind \in {"join", "bind"} THEN ThenStats(u, ui.flow.val.iata) ELSE Left([u EXCEPT !.flow = NoFlow], ui.flow)

\* finally: the statistics, or the reading after a refusal, are in.
FlowEnds ==
  /\ \/ ui.flow.st = "load" /\ (ui.flow.live => ui.loads = {})
     \/ ui.flow.st = "reload" /\ ui.get = NoGet
  /\ ui' = [ui EXCEPT !.flow = NoFlow]

\* A refused join or retry reads the membership again; a refused leave keeps
\* the dialog open.
FlowFailed(u) ==
  IF u.flow.kind \in {"join", "retry"} THEN Load(Step(u, "reload"))
  ELSE [u EXCEPT !.flow = NoFlow, !.leave = IF @ = "sent" /\ u.flow.live THEN "open" ELSE "none"]
FlowFails == ui.flow.st \in {"post", "asked"} /\ (ui.flow.st = "asked" => "fails" \in ui.world) /\ ui' = FlowFailed(ui)

StatsAnswers ==
  \E i \in ui.loads :
    ui' = [ui EXCEPT !.loads = @ \ {i}, !.stats = [com |-> TRUE, me |-> IF i = "" THEN "" ELSE ui.server.iata, err |-> FALSE]]
StatsFail ==
  \E i \in ui.loads, c \in BOOLEAN :
    "fails" \in ui.world /\ ui' = [ui EXCEPT !.loads = @ \ {i}, !.stats.err = TRUE, !.stats.com = @ \/ c]

Next ==
  \/ ChangedElsewhere \/ SocketFalls \/ Seed \/ GetReads \/ GetAnswers \/ GetFails \/ NewsArrives \/ SocketReturns \/ Open \/ Close \/ TypeIata
  \/ Suggest \/ SuggestAnswers \/ SuggestFails \/ PickIata \/ HandleJoin \/ HandleBind \/ HandleOverride \/ HandleRetryOptOut \/ RequestLeave
  \/ DismissLeave \/ ConfirmLeave \/ ServerServes \/ BindAnswers \/ FlowReads \/ FlowAnswers \/ FlowFails \/ FlowEnds \/ StatsAnswers \/ StatsFail

-----------------------------------------------------------------------------
\* The state is well formed.
TypeOK == ui.store \in [known : BOOLEAN, on : BOOLEAN, iata : Codes \cup {""}, wait : BOOLEAN, pend : BOOLEAN] /\ ui.loads \subseteq Codes \cup {""}

Quiet(u) == u.sock /\ ~u.news /\ u.get = NoGet /\ u.flow = NoFlow

\* Once every notice was followed and every request answered, the browser knows
\* the membership the server has, through changes made elsewhere, lost sockets,
\* refused requests and a page left in the middle of one; if no change falls
\* between an answer and its arrival (a notice that finds an older reading on
\* its way asks no other) and no reading fails.
StatusFollows == ui.world \cap {"crosses", "fails"} = {} /\ Quiet(ui) /\ ui.store.known => ui.store = ui.server

\* The statistics that stay on the page of an active member are those of the
\* region they are now in, whoever changed it.
StatsFollow ==
  ui.world \cap {"crosses", "fails"} = {} /\ Quiet(ui) /\ ui.loads = {} /\ Shows(ui) /\ Active(ui.store) => ui.stats.me = ui.server.iata

\* The result of a bind does not outlive the membership it was given for, even
\* where another tab or the radio ends it; if no other tab changes the
\* membership between the bind and the reading that follows it, nor does a
\* reading fail.
BindEnds == ui.world \cap {"crosses", "fails", "meets"} = {} /\ Quiet(ui) /\ Shows(ui) /\ ~ui.store.on => ui.bind = "none"

\* A code being typed is left alone unless the saved code changes: no notice,
\* reading or statistics replace it (the comment at savedIata).
TypingKept ==
  ui.open /\ ui'.open /\ ui.store.known /\ ui'.store.iata = ui.store.iata /\ ui'.turns = ui.turns => ui'.draft = ui.draft

\* Every request of the page ends: the buttons it disabled come back.
PageFreed == ui.flow = NoFlow /\ ui.phase # "loading"
=============================================================================
