----------------------------- MODULE Navigation -----------------------------
(***************************************************************************)
(* Where the reader is: the open conversation (useConversationRouter), the *)
(* settings screen (useAppShell), the phone's bar and the desktop rail     *)
(* (AppShell), and the browser's history, which two popstate listeners     *)
(* read and four effects and handlers write.                               *)
(*                                                                         *)
(* A handler and the effects of the commits it causes are one step, since  *)
(* React flushes the updates of a click or a popstate before anything else *)
(* runs.  Two things are left for later steps: opening and closing the     *)
(* settings is a transition (startTransition), which commits on its own,   *)
(* and history.back() is a request whose popstate arrives afterwards.      *)
(* The world holds the circumstances of a behaviour: "phone" the narrow    *)
(* layout, "reopen" the preference to reopen the last conversation,        *)
(* "rail" that tools are opened from the rail while settings are open,     *)
(* "fails" that a deletion may fail, "bare" that the address is to follow  *)
(* even a popstate that changed nothing, "unsettled" that a conversation   *)
(* closed before the initial routing is to stay closed, "reloads" that the *)
(* page may be reloaded, "hasty" that the reader acts before the first     *)
(* answers, "arrives" that the page is first opened at an address.         *)
(***************************************************************************)
EXTENDS Integers, Sequences, FiniteSets, SequencesExt

CONSTANTS Worlds, MaxMoves, MaxHistory

VARIABLE ui

Channels == {"public", "chan"}
Contacts == {"contact"}
\* Views that need no data; every tool but search is remembered when viewed.
Tools == {"map", "search"}
\* The radio test exists only while the Community directory does.
Conversations == Channels \cup Contacts \cup Tools \cup {"test"}
\* What the address bar holds: nothing, a settings section, or a conversation.
Hashes == {"bare", "settings"} \cup Conversations

-----------------------------------------------------------------------------
(* The address bar and its history.                                        *)

Hash(u) == u.hist[u.pos]

Replace(u, h) == [u EXCEPT !.hist[u.pos] = h]

Push(u, h) ==
  IF h = Hash(u) THEN u
  ELSE [u EXCEPT !.hist = Append(SubSeq(u.hist, 1, u.pos), h), !.pos = @ + 1]

\* parseHashConversation: the conversation a hash names, resolvable or not.
HashConversation(u) == IF Hash(u) \in Conversations THEN Hash(u) ELSE "none"

\* resolveConversationFromHash over what is loaded now.
Resolvable(u, c) ==
  \/ c \in Tools
  \/ c = "test" /\ u.directory
  \/ c \in u.channels \cup u.contacts

\* getLastViewedConversation: the radio test and the search are not supported.
LastViewed(u) ==
  IF "reopen" \in u.world /\ u.last \notin {"test", "search"} THEN u.last ELSE "none"

Phone(u) == "phone" \in u.world

-----------------------------------------------------------------------------
(* The effects of useConversationRouter, in their order.  Each reads the   *)
(* conversation of the commit (active) and queues the next one (next).     *)

Open(u, c) == [u EXCEPT !.next = c, !.renewed = TRUE, !.settled = TRUE]

\* Mutant: the radio test is given up before the settings are known.
PhaseOneHasty(u) ==
  LET asked == HashConversation(u)
      last == IF asked = "none" THEN LastViewed(u) ELSE "none"
      ToPublic == IF "public" \in u.channels THEN Open(u, "public") ELSE u
  IN  CASE u.settled \/ u.active # "none" -> u
        [] asked \in Tools -> Open(u, asked)
        [] asked = "test" /\ u.directory -> Open(u, asked)
        [] last \in Tools -> Open(u, last)
        [] u.channels = {} -> u
        [] asked \in u.channels -> Open(u, asked)
        [] asked \in Contacts -> u
        [] last \in u.channels -> Open(u, last)
        [] last \in Contacts -> u
        [] asked = "none" /\ Phone(u) -> u
        [] OTHER -> ToPublic

\* Initial routing that needs no contacts: the hash, the last view, Public.
PhaseOne(u) ==
  LET asked == HashConversation(u)
      last == IF asked = "none" THEN LastViewed(u) ELSE "none"
      ToPublic == IF "public" \in u.channels THEN Open(u, "public") ELSE u
  IN  CASE u.settled \/ u.active # "none" -> u
        [] asked \in Tools -> Open(u, asked)
        [] asked = "test" /\ ~u.loaded -> u
        [] asked = "test" /\ u.directory -> Open(u, asked)
        [] last \in Tools -> Open(u, last)
        [] u.channels = {} -> u
        [] asked \in u.channels -> Open(u, asked)
        [] asked \in Contacts -> u
        [] last \in u.channels -> Open(u, last)
        [] last \in Contacts -> u
        [] asked = "none" /\ Phone(u) -> u
        [] OTHER -> ToPublic

\* The page of the radio test vanishes with the directory.
CommunityOff(u) ==
  IF u.loaded /\ ~u.directory /\ u.active = "test" /\ "public" \in u.channels
    THEN [u EXCEPT !.next = "public", !.renewed = TRUE, !.sync = TRUE]
    ELSE u

\* Initial routing to a contact, once the contacts are loaded.
PhaseTwo(u) ==
  LET asked == HashConversation(u)
      wanted == IF asked = "none" THEN LastViewed(u) ELSE asked
  IN  CASE u.settled \/ u.active # "none" -> u
        [] wanted \notin Contacts \/ ~u.contactsLoaded -> u
        [] wanted \in u.contacts -> Open(u, wanted)
        [] OTHER -> IF "public" \in u.channels THEN Open(u, "public") ELSE u

\* The address follows the conversation unless the conversation came from it.
HashSync(u) ==
  LET saved == IF u.active \in Conversations \ {"search"}
                 THEN [u EXCEPT !.last = u.active] ELSE u
  IN  CASE u.popping -> [saved EXCEPT !.popping = FALSE]
        [] u.active = "none" \/ ~u.sync \/ u.settings -> saved
        [] u.push -> [Push(saved, u.active) EXCEPT !.push = FALSE]
        [] OTHER -> Replace(saved, u.active)

\* A deletion that left nothing open recovers to Public.
DeleteFallback(u) ==
  CASE ~u.deleted -> u
    [] u.active # "none" -> [u EXCEPT !.deleted = FALSE]
    [] "public" \notin u.channels -> u
    [] OTHER -> [Open(u, "public") EXCEPT !.deleted = FALSE]

\* useAppShell's effect: the settings write their own address.
SettingsHash(u) ==
  CASE ~u.settings -> u
    [] u.opening -> [Push(u, "settings") EXCEPT !.opening = FALSE]
    [] OTHER -> Replace(u, "settings")

\* What an effect's dependency list compares between two commits.
Seen(u) ==
  [active |-> u.active, settings |-> u.settings, channels |-> u.channels,
   contacts |-> <<u.contacts, u.contactsLoaded>>, community |-> <<u.loaded, u.directory>>]

\* The effects in the order React runs them, and what each depends on.
EffectOrder == <<"shell", "one", "off", "two", "hash", "fallback">>

Dependencies ==
  [shell |-> {"settings"}, one |-> {"active", "channels", "community"},
   off |-> {"active", "channels", "community"}, two |-> {"active", "channels", "contacts"},
   hash |-> {"active", "settings"}, fallback |-> {"active", "channels"}]

Effect(u, name) ==
  CASE name = "shell" -> SettingsHash(u)
    [] name = "one" -> PhaseOne(u)
    [] name = "off" -> CommunityOff(u)
    [] name = "two" -> PhaseTwo(u)
    [] name = "hash" -> HashSync(u)
    [] name = "fallback" -> DeleteFallback(u)

Changed(u) ==
  {f \in DOMAIN Seen(u) : Seen(u)[f] # u.seen[f]} \cup (IF u.renewed THEN {"active"} ELSE {})

\* One commit: every effect whose dependencies changed, in order.
Effects(u) ==
  LET run == SelectSeq(EffectOrder, LAMBDA e : Dependencies[e] \cap Changed(u) # {})
      c == [u EXCEPT !.next = u.active, !.renewed = FALSE, !.seen = Seen(u)]
  IN  FoldLeft(Effect, c, run)

Commit(u) == LET e == Effects(u) IN [e EXCEPT !.active = e.next]

\* A chain of commits ends after at most three: routing, its address, rest.
Settle(u) == FoldLeft(LAMBDA v, i : Commit(v), u, <<1, 2, 3, 4>>)

-----------------------------------------------------------------------------
(* The handlers.  goal is where the reader asked to be: what the property  *)
(* LandsWhereAsked compares the screen with.                               *)

SetActive(u, c) ==
  [u EXCEPT !.active = c, !.renewed = (c # "none"), !.sync = TRUE, !.push = TRUE]

\* Asking for nothing: with the preference to reopen, the initial routing runs
\* again unless it has latched, and "unsettled" asks for nothing even so.
Nothing(u) ==
  IF u.settled \/ "reopen" \notin u.world \/ "unsettled" \in u.world
    THEN "none" ELSE "any"

\* onClearActiveConversation takes the hash away with the conversation.
Clear(u) ==
  [SetActive(Replace(u, "bare"), "none") EXCEPT !.goal = Nothing(u)]

\* handleCloseSettingsView; opened records an entry pushed for the settings.
CloseSettings(u, restore) ==
  LET shut == [u EXCEPT !.wanted = FALSE, !.opened = FALSE]
  IN  CASE ~restore -> IF Hash(u) = "settings" THEN Replace(shut, "bare") ELSE shut
        [] restore /\ u.opened -> [shut EXCEPT !.backs = @ + 1]
        [] OTHER -> IF Hash(u) = "settings" THEN Replace(shut, u.before) ELSE shut

\* handleToggleSettingsView
ToggleSettings(u) ==
  IF u.settings THEN CloseSettings(u, TRUE)
  ELSE [u EXCEPT !.before = IF Hash(u) = "settings" THEN @ ELSE Hash(u),
                 !.opening = TRUE, !.opened = TRUE, !.wanted = TRUE]

Start(world, hash, last) ==
  [world |-> world, hist |-> <<hash>>, pos |-> 1, backs |-> 0, moves |-> 0, since |-> 0,
   active |-> "none", next |-> "none", renewed |-> FALSE, settled |-> FALSE,
   sync |-> hash \notin {"bare", "settings"}, push |-> FALSE, popping |-> FALSE, silent |-> FALSE,
   channels |-> {}, contacts |-> {}, contactsLoaded |-> FALSE,
   loaded |-> FALSE, directory |-> FALSE, deleted |-> FALSE, removing |-> "none",
   settings |-> hash = "settings", wanted |-> hash = "settings",
   opening |-> FALSE, opened |-> FALSE, before |-> "bare",
   screen |-> "conversations", index |-> TRUE, last |-> last,
   goal |-> "start", arrival |-> hash, recalled |-> last,
   seen |-> [active |-> "unset", settings |-> ~(hash = "settings"),
             channels |-> {}, contacts |-> <<>>, community |-> <<>>]]

Init ==
  \E world \in Worlds, hash \in Hashes, last \in {"none", "chan", "contact", "map"} :
    /\ "arrives" \notin world => hash = "bare"
    /\ "reopen" \notin world => last = "none"
    /\ ui = Settle(Start(world, hash, last))

Does(u) == ui' = Settle(u)

\* The first load is over.
Answered(u) == u.channels # {} /\ u.contactsLoaded /\ u.loaded

Counted(u) == ui.moves < MaxMoves /\ Does([u EXCEPT !.moves = @ + 1])

\* A step the reader takes.  The browser serves a history.back() and React a
\* closing transition at once, before anything else the reader does; opening
\* the settings may wait for their code to load.
Move(u) ==
  /\ ui.backs = 0 /\ (ui.settings => ui.wanted)
  /\ Answered(ui) \/ "hasty" \in ui.world
  /\ Counted(u)

\* The answers of the first load, in any order.
ChannelsLoad ==
  /\ ui.channels = {}
  /\ Does([ui EXCEPT !.channels = Channels])

ContactsLoad ==
  /\ ~ui.contactsLoaded
  /\ \E some \in {{}, Contacts} :
       Does([ui EXCEPT !.contacts = some, !.contactsLoaded = TRUE])

SettingsLoad ==
  /\ ~ui.loaded
  /\ \E on \in BOOLEAN : Does([ui EXCEPT !.loaded = TRUE, !.directory = on])

\* The Community directory is switched on or off from the settings.
DirectorySwitch ==
  /\ ui.loaded /\ ui.settings
  /\ LET goal == IF ui.directory /\ "test" \in {ui.active, ui.goal} THEN "public" ELSE ui.goal
     IN  Move([ui EXCEPT !.directory = ~@, !.goal = goal])

\* The settings' transition commits.
CommitTransition ==
  /\ ui.wanted # ui.settings
  /\ Does([ui EXCEPT !.settings = ui.wanted])

\* A conversation picked in the list, the catalogue of tools or a link.
Select(c) ==
  /\ ~ui.settings /\ Resolvable(ui, c)
  /\ Move([SetActive(ui, c) EXCEPT !.goal = c])

\* The way back out of a conversation or a tool, and handleBackToTools.
GoBack ==
  /\ ~ui.settings /\ ui.active # "none"
  /\ \E s \in {ui.screen, "tools"} : Move([Clear(ui) EXCEPT !.screen = s])

\* handleBottomNav, from the phone's bar and from the rail.
BottomNav(target) ==
  LET left == IF ui.settings THEN CloseSettings(ui, FALSE) ELSE ui
      entered == IF ui.settings THEN ui ELSE ToggleSettings(ui)
  IN  CASE target = "settings" -> Move([entered EXCEPT !.index = TRUE])
        [] target = "map" ->
             Move([SetActive(left, "map") EXCEPT !.screen = "conversations", !.goal = "map"])
        [] OTHER -> Move([Clear(left) EXCEPT !.screen = target])

\* A tool of the desktop rail: settings are toggled shut, then it is opened.
RailTool(c) ==
  /\ ~Phone(ui) /\ (ui.settings => "rail" \in ui.world)
  /\ c = "test" => ui.directory
  /\ LET left == IF ui.settings THEN ToggleSettings(ui) ELSE ui
     IN  Move([SetActive(left, c) EXCEPT !.goal = c])

\* handleOpenSettings: a section named by a banner, a dialog or the palette.
OpenSettings ==
  Move([(IF ui.settings THEN ui ELSE ToggleSettings(ui)) EXCEPT !.index = FALSE])

\* The settings are closed by their own button.
LeaveSettings ==
  /\ ui.settings
  /\ LET under == IF ui.opened /\ ui.pos > 1 THEN ui.hist[ui.pos - 1] ELSE ui.before
         goal == IF Resolvable(ui, under) THEN ui.goal ELSE "any"
     IN  Move([CloseSettings(ui, TRUE) EXCEPT !.goal = goal])

\* A channel or contact is deleted: the request, then its outcome.
Delete(c) ==
  /\ ~ui.settings /\ ui.removing = "none" /\ ui.active = c /\ c \in {"chan"} \cup Contacts
  /\ Move([ui EXCEPT !.removing = c, !.deleted = TRUE])

Deleted ==
  /\ ui.removing # "none"
  /\ Does([SetActive(ui, "public") EXCEPT
             !.channels = Channels \ {ui.removing}, !.contacts = @ \ {ui.removing},
             !.settled = TRUE, !.removing = "none",
             !.goal = IF Phone(ui) THEN "any" ELSE "public"])

DeleteFails ==
  /\ ui.removing # "none" /\ "fails" \in ui.world
  /\ Does([ui EXCEPT !.removing = "none"])

\* onChannelDeleted and onContactDeleted: deleted on another screen.
RemoteDelete(c) ==
  /\ c \in (ui.channels \cup ui.contacts) \ {"public"}
  /\ LET gone == [ui EXCEPT !.channels = @ \ {c}, !.contacts = @ \ {c}]
         goal == IF c \notin {ui.goal, ui.active} THEN ui.goal
                 ELSE IF Phone(ui) THEN "any" ELSE "public"
         shut == IF ui.active = c THEN [SetActive(gone, "none") EXCEPT !.deleted = TRUE]
                                  ELSE gone
     IN  Counted([shut EXCEPT !.goal = goal])

\* The two popstate listeners: the settings' one, then the router's.
Popped(u) ==
  LET shell == [u EXCEPT !.wanted = Hash(u) = "settings"]
      from == HashConversation(u)
      conv == IF Resolvable(u, from) THEN from ELSE "none"
      arrive(c) == [shell EXCEPT !.sync = TRUE, !.popping = TRUE, !.active = c,
                                 !.renewed = (c # "none"),
                                 !.goal = IF c = "none" THEN Nothing(u) ELSE c]
      lost == [arrive("none") EXCEPT !.goal = IF from = "none" THEN @ ELSE "any"]
  IN  CASE Hash(u) = "settings" -> shell
        [] conv # "none" -> arrive(conv)
        [] Phone(u) -> lost
        [] "public" \in u.channels -> arrive("public")
        [] OTHER -> shell

\* A popstate that leaves the phone's list as it is: no commit follows, so the
\* popstate flag stays up for the next conversation the reader opens.
Silent(u) == Phone(u) /\ u.active = "none" /\ ~u.settings
             /\ Hash(u) # "settings" /\ ~Resolvable(u, HashConversation(u))

\* Back or forward in the browser.
Traverse(d) ==
  /\ ui.pos + d \in 1 .. Len(ui.hist)
  /\ LET at == [ui EXCEPT !.pos = ui.pos + d]
     IN  Move([Popped(at) EXCEPT !.silent = Silent(at)])

\* The popstate of a history.back() asked for by the code.
BackArrives ==
  /\ ui.backs > 0
  /\ LET at == [ui EXCEPT !.backs = @ - 1, !.pos = IF @ > 1 THEN @ - 1 ELSE @]
     IN  Does(IF ui.pos > 1 THEN [Popped(at) EXCEPT !.goal = ui.goal, !.silent = Silent(at)]
                         ELSE at)

\* The page is loaded again at the same address.
Reload ==
  /\ "reloads" \in ui.world /\ ui.backs = 0 /\ ui.moves < MaxMoves
  /\ LET new == Start(ui.world, Hash(ui), ui.last)
     IN  ui' = Settle([new EXCEPT !.hist = ui.hist, !.pos = ui.pos,
                                 !.moves = ui.moves + 1, !.since = ui.moves + 1])

\* handleIdentityAdopted: another identity starts on the map.
IdentityAdopted ==
  /\ ui.contactsLoaded
  /\ Move([SetActive(Replace(ui, "map"), "map") EXCEPT !.contacts = {},
                          !.goal = IF ui.settings THEN "any" ELSE "map",
                          !.last = IF @ \in Contacts THEN "none" ELSE @])

Next ==
  \/ ChannelsLoad
  \/ ContactsLoad
  \/ SettingsLoad
  \/ DirectorySwitch
  \/ CommitTransition
  \/ \E c \in Conversations : Select(c)
  \/ GoBack
  \/ \E target \in {"conversations", "tools", "map", "settings"} : BottomNav(target)
  \/ \E c \in Tools \cup {"test"} : RailTool(c)
  \/ OpenSettings
  \/ LeaveSettings
  \/ \E c \in Conversations : Delete(c)
  \/ Deleted
  \/ DeleteFails
  \/ \E c \in Conversations : RemoteDelete(c)
  \/ Traverse(1)
  \/ Traverse(-1)
  \/ BackArrives
  \/ Reload
  \/ IdentityAdopted

-----------------------------------------------------------------------------
(* Properties.                                                             *)

TypeOK ==
  /\ ui.world \in Worlds
  /\ ui.hist \in Seq(Hashes) /\ ui.pos \in 1 .. Len(ui.hist) /\ Len(ui.hist) <= MaxHistory
  /\ {ui.active, ui.last, ui.removing} \subseteq Conversations \cup {"none"}
  /\ ui.next = ui.active /\ ~ui.renewed /\ Effects(ui) = ui
  /\ ui.channels \subseteq Channels /\ ui.contacts \subseteq Contacts
  /\ ui.screen \in {"conversations", "tools"} /\ ui.backs \in 0 .. MaxMoves

\* Nothing is on its way: no transition, popstate, deletion or first answer.
Quiet ==
  /\ ui.wanted = ui.settings /\ ui.backs = 0 /\ ui.removing = "none"
  /\ Answered(ui)

\* Once nothing is on its way the reader is where they last asked to be,
\* whatever the order in which the transition of the settings, the popstate
\* of a history.back() and the deletions of others arrived
\* (handleCloseSettingsView, handleBottomNav, the popstate listeners).
LandsWhereAsked ==
  Quiet /\ "fails" \notin ui.world => ui.goal \in {"start", "any", ui.active}

\* An address opens what it names, in whatever order the lists and the
\* settings answer; without one, the last viewed conversation is reopened
\* where that is asked for, and Public or the phone's list otherwise
\* (the two phases of the initial routing).
AddressHonoured ==
  LET named == IF ui.arrival \in Conversations THEN ui.arrival
               ELSE IF "reopen" \in ui.world /\ ui.recalled # "test" THEN ui.recalled
               ELSE "none"
      fallback == IF named = "none" /\ Phone(ui) THEN "none" ELSE "public"
  IN  Quiet /\ ui.moves = ui.since
        => ui.active = IF Resolvable(ui, named) THEN named ELSE fallback

\* The address names what is on the screen, so that a reload or a shared
\* link leads to it; Public also answers to the bare address, and to one that
\* no longer resolves (the hash effect and its popstate flag).
AddressTrue ==
  Quiet /\ ~ui.settings /\ ui.sync /\ ui.active # "none" /\ (ui.silent => "bare" \in ui.world)
    => \/ Hash(ui) = ui.active
       \/ ui.active = "public" /\ Hash(ui) # "settings" /\ ~Resolvable(ui, Hash(ui))
=============================================================================
