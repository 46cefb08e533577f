------------------------------ MODULE MCReading -----------------------------
(***************************************************************************)
(* Instances of what a reader of messages works with: the messages of the  *)
(* open conversation, the way between conversations, the unread counts and *)
(* the list on the screen. The parts are independent of each other: the    *)
(* initial state chooses the part, the steps are those of that part, and   *)
(* the state of the others stays initial.                                  *)
(***************************************************************************)
EXTENDS ConversationMessages

CONSTANTS NavigationMoves, NavigationHistory, UnreadPosts, UnreadMoves,
          ScrollTotal, ScrollMoves, RowMessages, RowClicks, RowsClicked,
          ResendTicks, ResendTolerance, ResendDelay, ResendNow,
          ResendRenders

VARIABLES part, ui

partsVars == <<part, ui, vars>>

MCWorlds == {{"hasty", "cuts", "sends"}, {"hasty", "searches", "cuts"}, {"hasty", "acks"},
             {"hasty", "deletes"}, {"hasty", "resolves"}, {"hasty", "deferred"},
             {"hasty", "fails", "floods"}}

NavigationWorlds == {{"fails"}, {"arrives"}, {"arrives", "phone"}, {"phone",
  "reopen"}, {"reopen", "reloads"}}
Nav == INSTANCE Navigation WITH
         Worlds <- NavigationWorlds, MaxMoves <- NavigationMoves, MaxHistory <-
         NavigationHistory

UnreadCountsWorlds == {{}, {"returns", "resolves"}, {"overlaps", "stays"},
  {"fails"}}
Unr == INSTANCE UnreadCounts WITH
         Worlds <- UnreadCountsWorlds, MaxPosts <- UnreadPosts, MaxMoves <-
         UnreadMoves

MessageScrollWorlds == {{}, {"reactions"}, {"between"}}
Scr == INSTANCE MessageScroll WITH
         Worlds <- MessageScrollWorlds, MaxTotal <- ScrollTotal, MaxMoves <-
         ScrollMoves

RowsWorlds == {{"channel"}, {"room"}, {"direct", "hurries"}}
Mrw == INSTANCE MessageRows WITH
         MaxMessages <- RowMessages, MaxClicks <- RowClicks, Clicked <-
         RowsClicked, Window <- ResendTicks, Tolerance <- ResendTolerance,
         Delay <- ResendDelay, MaxNow <- ResendNow, MaxRenders <- ResendRenders

PagesInit ==
  \/ part = "navigation" /\ Nav!Init
  \/ part = "unread" /\ Unr!Init
  \/ part = "scroll" /\ Scr!Init
  \/ part = "rows" /\ Mrw!RowsInit
  \/ part = "resend" /\ Mrw!ResendInit

PartsInit ==
  /\ Init
  /\ \/ part = "messages" /\ ui = "closed"
     \/ world = {"hasty", "acks"} /\ PagesInit

PagesNext ==
  \/ part = "navigation" /\ Nav!Next
  \/ part = "unread" /\ Unr!Next
  \/ part = "scroll" /\ Scr!Next
  \/ part = "rows" /\ Mrw!RowsNext
  \/ part = "resend" /\ Mrw!ResendNext

PartsNext ==
  \/ part = "messages" /\ Next /\ UNCHANGED <<part, ui>>
  \/ PagesNext /\ UNCHANGED <<part, vars>>

PartsSpec == PartsInit /\ [][PartsNext]_partsVars

-----------------------------------------------------------------------------
\* Every part keeps its state well formed.
PartsTypeOK ==
  /\ part = "messages" => TypeOK
  /\ part = "navigation" => Nav!TypeOK
  /\ part = "unread" => Unr!TypeOK
  /\ part = "scroll" => Scr!TypeOK
  /\ part = "rows" => Mrw!RowsTypeOK
  /\ part = "resend" => Mrw!ResendTypeOK

\* What a page shows is true: it is what the server, the radio or the store
\* has, or what was asked for last, once the answers it waits for have come.
ShownTrue ==
  /\ ShownBelongs /\ AckCurrent /\ NoGhosts
  /\ part = "navigation" => Nav!AddressTrue
  /\ part = "unread" => Unr!BadgesTrue /\ Unr!OpenUncounted /\ Unr!DividerAtFirstUnread /\ Unr!IconTrue
  /\ part = "rows" => Mrw!GroupedUnderSender /\ Mrw!OneMenu /\ Mrw!InspectorTrue
  /\ part = "resend" => Mrw!AgeTrue

\* What was begun is carried through, once: nothing received, sent or queued
\* is lost or done twice, no indicator is left hanging and nothing stops half
\* way.
CarriedThrough ==
  /\ NoHoles /\ NoDuplicates /\ NoStuckLoading
  /\ part = "rows" => Mrw!NothingLost /\ Mrw!TextKept
  /\ part = "resend" => Mrw!OfferEnds /\ Mrw!NotRearmed

\* The reader decides: what they wrote, chose, closed or confirmed is kept
\* and goes out as they asked, whatever arrives meanwhile.
ReaderKept ==
  /\ [](/\ part = "navigation" => Nav!LandsWhereAsked /\ Nav!AddressHonoured
        /\ part = "scroll" => Scr!NewestFollowed /\ Scr!TargetShown)
  /\ [][/\ part = "scroll" => Scr!ReadingKept
        /\ part = "scroll" => Scr!OlderKeepsPlace]_partsVars
=============================================================================
