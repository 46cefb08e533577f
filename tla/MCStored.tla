------------------------------ MODULE MCStored ------------------------------
(***************************************************************************)
(* Instances of what is stored: the channels in the slots of the radio,    *)
(* with and without mesh tests, the direct messages received, and the      *)
(* pages whose settings, devices and packets the server keeps. The parts   *)
(* are independent of each other: the initial state chooses the part, the  *)
(* steps are those of that part, and the state of the others stays         *)
(* initial.                                                                *)
(***************************************************************************)
EXTENDS ChannelSlots, IncomingMessages, Integers, Sequences, TLC

CONSTANTS m1, m2, k1

CONSTANTS DraftEdits, FanoutJobs, FanoutTyped, FormTyped, FormChains,
          FormPolls, WifiRadios, WifiGen, WifiFaults, WifiWire, WifiClicks,
          PanelMoves, TcpClicks, TcpOther, AppJobs, AppTyped,
          PreferenceEdits, DeviceEndpoints, DeviceClicks, NotifyWire,
          NotifyClicks, DestinationEdits, AlertNodes, AlertFailures,
          AlertEdits, SheetVisits, SheetFetches, UpdateReloads,
          UpdateClicks, FeedPackets, FeedObservations, FeedWindow, FeedCaps,
          FeedHeard, FeedNow, HistoryPeriods, HistoryLimit, HistoryClicks,
          JournalPackets, JournalTurns, RestoreJobs, RestoreFailures,
          RestorePolls, RestoreSwaps, RestoreClicks, TraceHops, TraceRecent,
          TraceNodes, TraceRuns, TraceClicks, LaserTime, LaserConcurrent,
          LaserPending, LaserPauses, RoutePackets, RouteWindow, RouteIndexed

VARIABLES part, ui,
          mSlotByKey, mKeyBySlot, mOlder, mRadio, mForce, mOp, mMeshTest, mLastTx

mapsVars == <<mSlotByKey, mKeyBySlot, mOlder, mRadio, mForce, mOp, mMeshTest, mLastTx>>
partsVars == <<part, ui, vars, incomingVars, mapsVars>>

MCMsgs == {m1, m2}
MCPeers == {k1}
MCFrom == [m \in MCMsgs |-> k1]
MapKeys == CHOOSE ks \in SUBSET Keys : Cardinality(ks) = 2
Symmetry == Permutations(MCMsgs) \cup Permutations(Observers) \cup Permutations(Adds)

\* The slots with every feature: mesh tests, the setting that forbids reuse, and
\* a backup restore whose writes may go unanswered; two channels over one slot.
Maps == INSTANCE ChannelSlots WITH
          Keys <- MapKeys, Capacity <- 1, MeshTests <- TRUE, Toggles <- TRUE,
          RestoreReplies <- {"ok", "rejected", "silent"},
          slotByKey <- mSlotByKey, keyBySlot <- mKeyBySlot, older <- mOlder,
          radio <- mRadio, force <- mForce, op <- mOp, meshTest <-
          mMeshTest, lastTx <- mLastTx

FanoutWorlds == {{"refuses"}, {"reorders"}, {"leaves", "hurries"}}
Fan == INSTANCE FanoutSettings WITH
         MaxEdits <- DraftEdits, MaxJobs <- FanoutJobs, MaxTyped <- FanoutTyped

FormWorlds == {{}, {"refuses", "crosses"}}
Rad == INSTANCE RadioForm WITH
         MaxTyped <- FormTyped, MaxChains <- FormChains, MaxPolls <- FormPolls,
         Radios <- WifiRadios, MaxGen <- WifiGen, MaxFaults <- WifiFaults,
         MaxWire <- WifiWire, MaxClicks <- WifiClicks

PanelWorlds == {{}, {"crosses", "slow"}}
Tra == INSTANCE TransportPanel WITH
         MaxMoves <- PanelMoves, MaxClicks <- TcpClicks, MaxOther <- TcpOther

AppWorlds == {{}, {"refuses"}, {"reorders"}, {"legacy"}, {"legacy",
  "closes"}}
PreferenceWorlds == {{}, {"served"}, {"two"}, {"hurries"}, {"rail",
  "reloads"}, {"rail", "old", "reloads"}, {"old", "refuses"}}
App == INSTANCE AppSettings WITH
         MaxJobs <- AppJobs, MaxTyped <- AppTyped, MaxEdits <- PreferenceEdits

DevicesWorlds == {{}, {"fails"}, {"resets"}, {"crosses"}}
BellWorlds == {{}, {"fails"}}
DestinationsWorlds == {{}, {"fails"}, {"hurries"}}
Ntf == INSTANCE Notifications WITH
         MaxEndpoints <- DeviceEndpoints, MaxDevicesClicks <- DeviceClicks,
         MaxWire <- NotifyWire, MaxBellClicks <- NotifyClicks, MaxEdits <-
         DestinationEdits

Alr == INSTANCE AlertRules WITH
         Nodes <- AlertNodes, MaxFailures <- AlertFailures, MaxEdits <-
         AlertEdits

InfoSheetsWorlds == {{}, {"fails"}, {"late"}}
Inf == INSTANCE InfoSheets WITH
         Worlds <- InfoSheetsWorlds, MaxVisits <- SheetVisits, MaxFetches <-
         SheetFetches

OssUpdatesWorlds == {{}, {"held", "other"}, {"refuses"}}
Oss == INSTANCE OssUpdates WITH
         Worlds <- OssUpdatesWorlds, MaxReloads <- UpdateReloads, MaxClicks <-
         UpdateClicks

FeedWorlds == {{}, {"bursts", "restarts"}}
Pkt == INSTANCE PacketTools WITH
         MaxFeedPackets <- FeedPackets, MaxObservations <- FeedObservations,
         Window <- FeedWindow, Caps <- FeedCaps, MaxHeard <- FeedHeard, MaxNow
         <- FeedNow, Periods <- HistoryPeriods, Limit <- HistoryLimit,
         MaxClicks <- HistoryClicks, MaxJournalPackets <- JournalPackets,
         MaxTurns <- JournalTurns

BackupRestoreWorlds == {{}}
Bak == INSTANCE BackupRestore WITH
         Worlds <- BackupRestoreWorlds, MaxJobs <- RestoreJobs, MaxFailures <-
         RestoreFailures, MaxPolls <- RestorePolls, MaxSwaps <- RestoreSwaps,
         MaxClicks <- RestoreClicks

Trc == INSTANCE TracePath WITH
         MaxHops <- TraceHops, MaxRecent <- TraceRecent, MaxNodes <-
         TraceNodes, MaxRuns <- TraceRuns, MaxClicks <- TraceClicks

RoutesWorlds == {{"routes"}, {"regions"}}
Map == INSTANCE LiveMap WITH
         MaxTime <- LaserTime, MaxConcurrent <- LaserConcurrent, MaxPending <-
         LaserPending, MaxPauses <- LaserPauses, MaxPackets <- RoutePackets,
         MaxWindow <- RouteWindow, MaxIndexed <- RouteIndexed

PagesInit ==
  \/ part = "draft" /\ Fan!DraftInit
  \/ part = "fanout" /\ Fan!FanoutInit
  \/ part = "radio" /\ Rad!FormInit
  \/ part = "transport" /\ Tra!PanelInit
  \/ part = "tcp" /\ Tra!TcpInit
  \/ part = "app" /\ App!AppInit
  \/ part = "preferences" /\ App!PreferenceInit
  \/ part = "devices" /\ Ntf!DevicesInit
  \/ part = "notify" /\ Ntf!BellInit
  \/ part = "destinations" /\ Ntf!DestinationsInit
  \/ part = "alerts" /\ Alr!Init
  \/ part = "info" /\ Inf!Init
  \/ part = "updates" /\ Oss!Init
  \/ part = "wifi" /\ Rad!WifiInit
  \/ part = "feed" /\ Pkt!FeedInit
  \/ part = "history" /\ Pkt!HistoryInit
  \/ part = "journal" /\ Pkt!JournalInit
  \/ part = "restore" /\ Bak!Init
  \/ part = "trace" /\ Trc!Init
  \/ part = "lasers" /\ Map!LasersInit
  \/ part = "routes" /\ Map!RoutesInit

PartsInit ==
  /\ Init /\ IncomingInit /\ Maps!Init
  /\ \/ part \in {"slots", "maps", "incoming"} /\ ui = "closed"
     \/ PagesInit

PagesNext ==
  \/ part = "draft" /\ Fan!DraftNext
  \/ part = "fanout" /\ Fan!FanoutNext
  \/ part = "radio" /\ Rad!FormNext
  \/ part = "transport" /\ Tra!PanelNext
  \/ part = "tcp" /\ Tra!TcpNext
  \/ part = "app" /\ App!AppNext
  \/ part = "preferences" /\ App!PreferenceNext
  \/ part = "devices" /\ Ntf!DevicesNext
  \/ part = "notify" /\ Ntf!BellNext
  \/ part = "destinations" /\ Ntf!DestinationsNext
  \/ part = "alerts" /\ Alr!Next
  \/ part = "info" /\ Inf!Next
  \/ part = "updates" /\ Oss!Next
  \/ part = "wifi" /\ Rad!WifiNext
  \/ part = "feed" /\ Pkt!FeedNext
  \/ part = "history" /\ Pkt!HistoryNext
  \/ part = "journal" /\ Pkt!JournalNext
  \/ part = "restore" /\ Bak!Next
  \/ part = "trace" /\ Trc!Next
  \/ part = "lasers" /\ Map!LasersNext
  \/ part = "routes" /\ Map!RoutesNext

PartsNext ==
  \/ part = "slots" /\ Next /\ UNCHANGED <<part, ui, incomingVars, mapsVars>>
  \/ part = "maps" /\ Maps!Next /\ UNCHANGED <<part, ui, vars, incomingVars>>
  \/ part = "incoming" /\ IncomingNext /\ UNCHANGED <<part, ui, vars, mapsVars>>
  \/ PagesNext /\ UNCHANGED <<part, vars, incomingVars, mapsVars>>

PartsSpec == PartsInit /\ [][PartsNext]_partsVars

-----------------------------------------------------------------------------
\* Every part keeps its state well formed; the maps of the slots also stay
\* inverse with mesh tests, setting changes and writes that go unanswered.
PartsTypeOK ==
  /\ part = "slots" => TypeOK
  /\ part = "maps" => Maps!TypeOK /\ Maps!MapsInverse
  /\ part = "incoming" => IncomingTypeOK
  /\ part = "draft" => Fan!DraftTypeOK
  /\ part = "fanout" => Fan!FanoutTypeOK
  /\ part = "radio" => Rad!FormTypeOK
  /\ part = "transport" => Tra!PanelTypeOK
  /\ part = "tcp" => Tra!TcpTypeOK
  /\ part = "app" => App!AppTypeOK
  /\ part = "preferences" => App!PreferenceTypeOK
  /\ part = "devices" => Ntf!DevicesTypeOK
  /\ part = "notify" => Ntf!BellTypeOK
  /\ part = "destinations" => Ntf!DestinationsTypeOK
  /\ part = "alerts" => Alr!TypeOK
  /\ part = "info" => Inf!TypeOK
  /\ part = "updates" => Oss!TypeOK
  /\ part = "wifi" => Rad!WifiTypeOK
  /\ part = "feed" => Pkt!FeedTypeOK
  /\ part = "history" => Pkt!HistoryTypeOK
  /\ part = "journal" => Pkt!JournalTypeOK
  /\ part = "restore" => Bak!TypeOK
  /\ part = "trace" => Trc!TypeOK
  /\ part = "lasers" => Map!LasersTypeOK
  /\ part = "routes" => Map!RoutesTypeOK

\* What a page shows is true: it is what the server, the radio or the store
\* has, or what was asked for last, once the answers it waits for have come.
ShownTrue ==
  /\ [](/\ part = "draft" => Fan!BodyFollowsFlavour
        /\ part = "fanout" => Fan!ListTrue
        /\ part = "radio" => Rad!MarkedTrue
        /\ part = "transport" => Tra!StatusTrue
        /\ part = "tcp" => Tra!TransportLatest
        /\ part = "app" => App!SettledTrue
        /\ part = "preferences" => App!RailUsable /\ App!PaintedAsStored
        /\ part = "devices" => Ntf!ThisDevice
        /\ part = "notify" => Ntf!BellTrue
        /\ part = "destinations" => Ntf!FormTrue
        /\ part = "alerts" => Alr!NodesCurrent /\ Alr!StartsFromShown
        /\ part = "info" => Inf!AnalyticsFresh /\ Inf!TelemetryOfContact /\ Inf!FetchingTrue /\ Inf!ChartsSettled /\ Inf!DetailFresh
        /\ part = "wifi" => Rad!StoreCatchesUp /\ Rad!NoGhost /\ Rad!OfferAfterReturn
        /\ part = "feed" => Pkt!CoverageTrue /\ Pkt!DerivedTrue
        /\ part = "history" => Pkt!ReplayNewest /\ Pkt!PreviewTrue
        /\ part = "journal" => Pkt!SelectedStands /\ Pkt!FiledSurely /\ Pkt!PairsTrue
        /\ part = "trace" => Trc!ResultForPath /\ Trc!RecentTrue
        /\ part = "routes" => Map!ExactIsHeard /\ Map!OriginCertain /\ Map!PlacedOnce /\ Map!RegionFollows)
  /\ [][/\ part = "tcp" => Tra!OfferOnlySaved
        /\ part = "updates" => Oss!UnchangedTrue]_partsVars

\* What was begun is carried through, once: nothing received, sent or queued
\* is lost or done twice, no indicator is left hanging and nothing stops half
\* way.
CarriedThrough ==
  /\ [](/\ part = "draft" => Fan!NothingStoredBlank /\ Fan!CommunityNeverMessages
        /\ part = "radio" => Rad!KeyRestarts
        /\ part = "transport" => Tra!ScanFreed
        /\ part = "tcp" => Tra!WayBackComes
        /\ part = "app" => App!FavouritesMigrated
        /\ part = "devices" => Ntf!SameSubscription /\ Ntf!KeyAgrees
        /\ part = "info" => Inf!SpinnerEnds
        /\ part = "updates" => Oss!AnnouncedOnce /\ Oss!ReloadsOnce /\ Oss!BlockedIsDriven
        /\ part = "feed" => Pkt!StatsComplete
        /\ part = "restore" => Bak!FinishedOnce /\ Bak!EndHandled /\ Bak!SecretsDropped
        /\ part = "trace" => Trc!OneWidth
        /\ part = "lasers" => Map!LoopAlive /\ Map!NothingLost /\ Map!DrawnOnce /\ Map!WaveSpaced)
  /\ [][/\ part = "restore" => Bak!EndStays]_partsVars

\* The reader decides: what they wrote, chose, closed or confirmed is kept
\* and goes out as they asked, whatever arrives meanwhile.
ReaderKept ==
  /\ [](/\ part = "draft" => Fan!PresetsTrue /\ Fan!StoredAsShown
        /\ part = "fanout" => Fan!AskedStored /\ Fan!UnsavedKept
        /\ part = "radio" => Rad!AskedReached
        /\ part = "app" => App!SavedAndShown
        /\ part = "preferences" => App!RemovedStays /\ App!LabelKept
        /\ part = "notify" => Ntf!TestUnderAddress
        /\ part = "destinations" => Ntf!SecretKept /\ Ntf!HostStored
        /\ part = "alerts" => Alr!ChangesStored
        /\ part = "wifi" => Rad!PasswordStays
        /\ part = "restore" => Bak!ConsentForThisRadio /\ Bak!StepsCoherent)
  /\ [][/\ part = "radio" => Rad!TabStays
        /\ part = "tcp" => Tra!ToastNotOurs
        /\ part = "feed" => Pkt!PausedFrozen
        /\ part = "history" => Pkt!LateLoadDropped
        /\ part = "trace" => Trc!OutAndBack
        /\ part = "lasers" => Map!ClockHolds]_partsVars
=============================================================================
