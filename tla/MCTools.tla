------------------------------- MODULE MCTools ------------------------------
(***************************************************************************)
(* Instances of the parts of the client that wait for something to happen: *)
(* the live socket with the lists it keeps, and the pages that ask, send,  *)
(* search, poll and draw. The parts are independent of each other: the     *)
(* initial state chooses the part, the steps are those of that part, and   *)
(* the state of the others stays initial.                                  *)
(***************************************************************************)
EXTENDS AppSync

CONSTANTS FinderLength, FinderTimers, FinderClicks, PaneRetries,
          PaneAnswers, PaneClicks, LoginClicks, ConsoleCap, ConsoleConfirm,
          ConsoleSent, ConsoleKeys, SessionTurns, SessionBeats,
          CanvasChoices, GraphArrivals, GraphWindow, GraphProcessed,
          GraphTime, GraphTurns, PendingHeard, PendingWindow,
          PendingEntries, PendingResets, NamesTurns, FocusTurns, FocusHeard,
          SceneChanges, SceneClicks, SceneParticles, ComposerTurns,
          ComposerLetters, ReplaceLetters, ReplaceTurns, SearchPage,
          SearchMessages, SearchTurns, ReachTurns, TestRuns, TestTurns,
          LocateTurns, CommunityChanges, CommunityTurns

VARIABLES part, ui

partsVars == <<part, ui, vars>>

SyncWorlds == {{"loads"}, {"remounts"}, {"fails", "late"}}

ChannelFinderWorlds == {{}, {"errors", "hurries"}}
Fnd == INSTANCE ChannelFinder WITH
         Worlds <- ChannelFinderWorlds, LengthCap <- FinderLength, MaxTimers <-
         FinderTimers, MaxClicks <- FinderClicks

PanesWorlds == {{}, {"leaves"}}
LoginWorlds == {{}}
Rep == INSTANCE RepeaterDashboard WITH
         MaxRetries <- PaneRetries, MaxAnswers <- PaneAnswers, MaxPanesClicks
         <- PaneClicks, MaxLoginClicks <- LoginClicks, Cap <- ConsoleCap,
         Confirm <- ConsoleConfirm, MaxSent <- ConsoleSent, MaxKeys <-
         ConsoleKeys

SessionWorlds == {{"hurries"}, {"forgets"}}
Liv == INSTANCE LivePage WITH
         MaxTurns <- SessionTurns, MaxBeats <- SessionBeats, MaxChoices <-
         CanvasChoices

PendingWorlds == {{}, {"late"}}
Vda == INSTANCE VisualizerData WITH
         MaxArrivals <- GraphArrivals, MaxWindow <- GraphWindow, MaxProcessed
         <- GraphProcessed, MaxTime <- GraphTime, MaxTurns <- GraphTurns,
         MaxHeard <- PendingHeard, Window <- PendingWindow, MaxPending <-
         PendingEntries, MaxResets <- PendingResets

Vvi == INSTANCE VisualizerView WITH
         MaxNamesTurns <- NamesTurns, MaxFocusTurns <- FocusTurns, MaxHeard <-
         FocusHeard, MaxChanges <- SceneChanges, MaxClicks <- SceneClicks,
         MaxParticles <- SceneParticles

ComposerWorlds == {{}, {"crosses"}}
Cmp == INSTANCE Composer WITH
         MaxComposerTurns <- ComposerTurns, MaxComposerLetters <-
         ComposerLetters, MaxReplaceLetters <- ReplaceLetters, MaxReplaceTurns
         <- ReplaceTurns

SearchWorlds == {{}, {"clears"}}
ReachWorlds == {{}}
Loo == INSTANCE MessageLookup WITH
         PageSize <- SearchPage, MaxMessages <- SearchMessages, MaxSearchTurns
         <- SearchTurns, MaxReachTurns <- ReachTurns

TestWorlds == {{}, {"returns"}}
LocateWorlds == {{}, {"hurries"}, {"backs"}}
Rto == INSTANCE RadioTools WITH
         MaxRuns <- TestRuns, MaxTestTurns <- TestTurns, MaxLocateTurns <-
         LocateTurns

CommunitySettingsWorlds == {{}, {"meets"}, {"fails"}}
Coy == INSTANCE CommunitySettings WITH
         Worlds <- CommunitySettingsWorlds, MaxChanges <- CommunityChanges,
         MaxTurns <- CommunityTurns

PagesInit ==
  \/ part = "finder" /\ Fnd!Init
  \/ part = "panes" /\ Rep!PanesInit
  \/ part = "login" /\ Rep!LoginInit
  \/ part = "console" /\ Rep!ConsoleInit
  \/ part = "session" /\ Liv!SessionInit
  \/ part = "canvas" /\ Liv!CanvasInit
  \/ part = "graph" /\ Vda!GraphInit
  \/ part = "pending" /\ Vda!PendingInit
  \/ part = "names" /\ Vvi!NamesInit
  \/ part = "focus" /\ Vvi!FocusInit
  \/ part = "scene" /\ Vvi!SceneInit
  \/ part = "composer" /\ Cmp!ComposerInit
  \/ part = "replace" /\ Cmp!ReplaceInit
  \/ part = "search" /\ Loo!SearchInit
  \/ part = "reach" /\ Loo!ReachInit
  \/ part = "meshtest" /\ Rto!TestInit
  \/ part = "locate" /\ Rto!LocateInit
  \/ part = "community" /\ Coy!Init

PartsInit ==
  /\ Init
  /\ \/ part = "sync" /\ ui = "closed"
     \/ world = {"loads"} /\ server = [kind \in Kinds |-> NoRows] /\ PagesInit

PagesNext ==
  \/ part = "finder" /\ Fnd!Next
  \/ part = "panes" /\ Rep!PanesNext
  \/ part = "login" /\ Rep!LoginNext
  \/ part = "console" /\ Rep!ConsoleNext
  \/ part = "session" /\ Liv!SessionNext
  \/ part = "canvas" /\ Liv!CanvasNext
  \/ part = "graph" /\ Vda!GraphNext
  \/ part = "pending" /\ Vda!PendingNext
  \/ part = "names" /\ Vvi!NamesNext
  \/ part = "focus" /\ Vvi!FocusNext
  \/ part = "scene" /\ Vvi!SceneNext
  \/ part = "composer" /\ Cmp!ComposerNext
  \/ part = "replace" /\ Cmp!ReplaceNext
  \/ part = "search" /\ Loo!SearchNext
  \/ part = "reach" /\ Loo!ReachNext
  \/ part = "meshtest" /\ Rto!TestNext
  \/ part = "locate" /\ Rto!LocateNext
  \/ part = "community" /\ Coy!Next

PartsNext ==
  \/ part = "sync" /\ Next /\ UNCHANGED <<part, ui>>
  \/ PagesNext /\ UNCHANGED <<part, vars>>

\* Fairness: the part never changes, so the fairness of a slot is the fairness of
\* the one action its part has there.
Fair1 ==
  \/ part = "sync" /\ Start /\ UNCHANGED <<part, ui>>
  \/ part = "finder" /\ Fnd!Loop /\ UNCHANGED <<part, vars>>
  \/ part = "panes" /\ Rep!Air /\ UNCHANGED <<part, vars>>
  \/ part = "session" /\ Liv!Beat /\ UNCHANGED <<part, vars>>
  \/ part = "canvas" /\ Liv!LookupAnswers /\ UNCHANGED <<part, vars>>
  \/ part = "names" /\ Vvi!Flush /\ UNCHANGED <<part, vars>>
  \/ part = "scene" /\ Vvi!Frame /\ UNCHANGED <<part, vars>>
  \/ part = "composer" /\ Cmp!SendAnswers /\ UNCHANGED <<part, vars>>
  \/ part = "search" /\ Loo!SearchDebounce /\ UNCHANGED <<part, vars>>
  \/ part = "reach" /\ Loo!ReachDebounce /\ UNCHANGED <<part, vars>>
  \/ part = "meshtest" /\ Rto!PollAnswers /\ UNCHANGED <<part, vars>>
  \/ part = "locate" /\ Rto!LocateAnswers /\ UNCHANGED <<part, vars>>
  \/ part = "community" /\ Coy!GetReads /\ UNCHANGED <<part, vars>>

Fair2 ==
  \/ part = "sync" /\ Opened /\ UNCHANGED <<part, ui>>
  \/ part = "session" /\ Liv!RelaySubscribes /\ UNCHANGED <<part, vars>>
  \/ part = "scene" /\ Vvi!Commit /\ UNCHANGED <<part, vars>>
  \/ part = "search" /\ Loo!SearchAnswers /\ UNCHANGED <<part, vars>>
  \/ part = "reach" /\ Loo!WakeUp /\ UNCHANGED <<part, vars>>
  \/ part = "meshtest" /\ Rto!PollTimer /\ UNCHANGED <<part, vars>>
  \/ part = "locate" /\ Rto!LocateAmbiguous /\ UNCHANGED <<part, vars>>
  \/ part = "community" /\ Coy!GetAnswers /\ UNCHANGED <<part, vars>>

Fair3 ==
  \/ part = "sync" /\ Receive /\ UNCHANGED <<part, ui>>
  \/ part = "session" /\ Liv!RelayUnsubscribes /\ UNCHANGED <<part, vars>>
  \/ part = "reach" /\ Loo!ReachAnswers /\ UNCHANGED <<part, vars>>
  \/ part = "meshtest" /\ Rto!TimePasses /\ UNCHANGED <<part, vars>>
  \/ part = "locate" /\ Rto!CommunityAnswers /\ UNCHANGED <<part, vars>>
  \/ part = "community" /\ Coy!SuggestAnswers /\ UNCHANGED <<part, vars>>

Fair4 ==
  \/ part = "sync" /\ (ReconnectTimer /\ UNCHANGED <<world, dataVars>>) /\ UNCHANGED <<part, ui>>
  \/ part = "session" /\ Liv!Subscribed /\ UNCHANGED <<part, vars>>
  \/ part = "reach" /\ Loo!Tick /\ UNCHANGED <<part, vars>>
  \/ part = "community" /\ Coy!FlowReads /\ UNCHANGED <<part, vars>>

Fair5 ==
  \/ part = "sync" /\ (\E r \in asked : Serve(r)) /\ UNCHANGED <<part, ui>>
  \/ part = "session" /\ Liv!Refreshed /\ UNCHANGED <<part, vars>>
  \/ part = "community" /\ Coy!ServerServes /\ UNCHANGED <<part, vars>>

Fair6 ==
  \/ part = "sync" /\ (\E r \in asked : Deliver(r)) /\ UNCHANGED <<part, ui>>
  \/ part = "community" /\ Coy!BindAnswers /\ UNCHANGED <<part, vars>>

Fair7 ==
  \/ part = "community" /\ Coy!FlowAnswers /\ UNCHANGED <<part, vars>>

Fair8 ==
  \/ part = "community" /\ Coy!FlowFails /\ UNCHANGED <<part, vars>>

Fair9 ==
  \/ part = "community" /\ Coy!FlowEnds /\ UNCHANGED <<part, vars>>

Fair10 ==
  \/ part = "community" /\ Coy!StatsAnswers /\ UNCHANGED <<part, vars>>

PartsSpec ==
  /\ PartsInit /\ [][PartsNext]_partsVars
  /\ WF_partsVars(Fair1) /\ WF_partsVars(Fair2) /\ WF_partsVars(Fair3)
  /\ WF_partsVars(Fair4) /\ WF_partsVars(Fair5) /\ WF_partsVars(Fair6)
  /\ WF_partsVars(Fair7) /\ WF_partsVars(Fair8) /\ WF_partsVars(Fair9)
  /\ WF_partsVars(Fair10)

-----------------------------------------------------------------------------
\* Every part keeps its state well formed.
PartsTypeOK ==
  /\ part = "sync" => TypeOK
  /\ part = "finder" => Fnd!TypeOK
  /\ part = "panes" => Rep!PanesTypeOK
  /\ part = "login" => Rep!LoginTypeOK
  /\ part = "console" => Rep!ConsoleTypeOK
  /\ part = "session" => Liv!SessionTypeOK
  /\ part = "canvas" => Liv!CanvasTypeOK
  /\ part = "graph" => Vda!GraphTypeOK
  /\ part = "pending" => Vda!PendingTypeOK
  /\ part = "names" => Vvi!NamesTypeOK
  /\ part = "focus" => Vvi!FocusTypeOK
  /\ part = "scene" => Vvi!SceneTypeOK
  /\ part = "composer" => Cmp!ComposerTypeOK
  /\ part = "replace" => Cmp!ReplaceTypeOK
  /\ part = "search" => Loo!SearchTypeOK
  /\ part = "reach" => Loo!ReachTypeOK
  /\ part = "meshtest" => Rto!TestTypeOK
  /\ part = "locate" => Rto!LocateTypeOK
  /\ part = "community" => Coy!TypeOK

\* What a page shows is true: it is what the server, the radio or the store
\* has, or what was asked for last, once the answers it waits for have come.
ShownTrue ==
  /\ part = "panes" => Rep!AgeTrue /\ Rep!QueuedTrue
  /\ part = "console" => Rep!AnswersPaired /\ Rep!RecallNewest
  /\ part = "canvas" => Liv!PinsCurrent
  /\ part = "graph" => Vda!RenderedCurrent /\ Vda!SolidIsHeard
  /\ part = "names" => Vvi!NamesTrue
  /\ part = "scene" => Vvi!TargetsDrawn
  /\ part = "search" => Loo!ResultsBelong
  /\ part = "reach" => Loo!ShownIsKnown
  /\ part = "meshtest" => Rto!ReportBelongs /\ Rto!FarthestIsExact
  /\ part = "locate" => Rto!ResultBelongs
  /\ part = "community" => Coy!StatusFollows /\ Coy!StatsFollow /\ Coy!BindEnds

\* What was begun is carried through, once: nothing received, sent or queued
\* is lost or done twice, no indicator is left hanging and nothing stops half
\* way.
CarriedThrough ==
  /\ part = "finder" => Fnd!NeverStalls /\ Fnd!OneAtATime /\ Fnd!LengthsCovered /\ Fnd!NoneForgotten
  /\ part = "panes" => Rep!OneOnAir /\ Rep!NeighborsPlaced
  /\ part = "session" => Liv!LeftMeansGone /\ Liv!StraysBounded
  /\ part = "graph" => Vda!GraphClosed /\ Vda!IngestedOnce
  /\ part = "pending" => Vda!PendingArmed /\ Vda!AnimatedOnce /\ Vda!CopiesKept
  /\ part = "names" => Vvi!AskedOnce
  /\ part = "composer" => Cmp!SentFits
  /\ part = "replace" => Cmp!MapSettles
  /\ part = "search" => Loo!PagesJoin
  /\ part = "reach" => Loo!SealedIsFinal
  /\ part = "meshtest" => Rto!RunKept
  /\ part = "locate" => Rto!NoHopLost

\* The reader decides: what they wrote, chose, closed or confirmed is kept
\* and goes out as they asked, whatever arrives meanwhile.
ReaderKept ==
  /\ [](/\ part = "login" => Rep!ForgottenStays /\ Rep!StoredAsAsked /\ Rep!SessionKept
        /\ part = "console" => Rep!RebootConfirmed
        /\ part = "canvas" => Liv!FrameIsChoice
        /\ part = "focus" => Vvi!FocusIsAsked
        /\ part = "composer" => Cmp!DraftsKept /\ Cmp!NothingCrosses
        /\ part = "replace" => Cmp!CursorStays
        /\ part = "locate" => Rto!SubmitTakesTyped)
  /\ [][/\ part = "canvas" => Liv!MovedIsKept
        /\ part = "focus" => Vvi!ReaderDecides
        /\ part = "community" => Coy!TypingKept]_partsVars

\* At rest: nothing of the part is awaited.  Where several things are, i is one of
\* them.
AtRest(i) ==
  /\ part = "finder" => Fnd!AllTried
  /\ part = "panes" => Rep!LoadAllEnded
  /\ part = "names" => Vvi!Asked(<<"hop", "key">>[i])
  /\ part = "scene" => Vvi!ParticlesEnded
  /\ part = "composer" => Cmp!SendingEnded
  /\ part = "search" => Loo!SearchSettled
  /\ part = "reach" => Loo!Polled(<<"h1", "h2">>[i])
  /\ part = "meshtest" => Rto!ListeningEnded
  /\ part = "locate" => Rto!LocateSettled
  /\ part = "community" => Coy!PageFreed

\* Settled: what the part ends up with is what it should have.
Settled ==
  /\ part = "sync" /\ world \cap {"fails", "late"} = {} => cur = "open" /\ lists = server
  /\ part = "session" => Liv!RegionsSettled /\ Liv!SessionStands
  /\ part = "canvas" => Liv!Framed
  /\ part = "scene" => Vvi!SceneSettled

\* Every wait ends, under the fairness above: what is asked, sent, searched,
\* polled, loaded or drawn comes to rest again and again, and in the end the
\* lists, the relay session, the frame and the scene are right for good.
WaitsEnd == (\A i \in 1..2 : []<>AtRest(i)) /\ <>[]Settled
=============================================================================
