------------------------------ MODULE WifiProofs ------------------------------
(***************************************************************************)
(* The safety properties of Wifi, for every set of networks and any number *)
(* of retries, attempts, trials, pages, drops and resets.                  *)
(***************************************************************************)
EXTENDS Wifi, TLAPS

-------------------------------------------------------------------------------
(* The inductive invariant.                                                *)

RadioSorts ==
    /\ mode \in {"sta", "ap", "apsta"}
    /\ sta \in {"off", "idle", "joining", "joined", "leased"}
    /\ config \in Nets \cup {"torn"}
    /\ posted \in Seq({"lost", "got"})

(* The station is off exactly where the access point has the radio alone,  *)
(* which is never so while a join is awaited.                              *)
Interface ==
    /\ (mode = "ap") = (sta = "off")
    /\ mode = "ap" => apUp
    /\ step = "redo" => sta # "off"

(* The page's calls are made with the page up, and but for opening and     *)
(* closing it the access point is too; between calls it stands alone.      *)
PageCalls ==
    /\ step \in {"past", "drop", "back", "raise", "scan", "scanned", "lower",
                 "rejoin"} => page
    /\ page /\ step \notin {"past", "raise", "rejoin"} => apUp
    /\ page /\ step \in {"rest", "scan"} => mode = "ap"
    /\ page => for # "boot"

(* What each call has told the driver, unless the saved network could not  *)
(* be read when it was needed.                                             *)
Told ==
    /\ step \in {"begin", "redo", "wait"} => for # "page"
    /\ step = "sync" => for = "trial"
    /\ step \in {"redo", "wait", "sync"} /\ for = "trial" => config = tried
    /\ step \in {"redo", "wait"} /\ for # "trial" => config = Saved
    /\ step \in {"save", "saving"} => tried \in Timed /\ config = tried
    /\ step \in Steps \ {"begin", "redo", "wait", "sync", "save", "saving"}
         => Saved = "torn" \/ config \in Timed \/ skipped

WifiInv ==
    /\ RadioSorts /\ CallTypeOK
    /\ Interface /\ PageCalls /\ Told /\ SavedIsProven

Others == <<page, step, for, tried, ssid, pass, skipped>>

-------------------------------------------------------------------------------
(* The initial state.                                                      *)
LEMMA WifiInit == ASSUME Init PROVE WifiInv
<1>1. Home \in Timed /\ Home \in Nets
  BY NetKinds
<1>2. Saved = Home
  BY DEF Init, Saved
<1>3. posted \in Seq({"lost", "got"})
  BY DEF Init
<1>4. RadioSorts /\ CallTypeOK
  BY <1>1, <1>3 DEF Init, RadioSorts, CallTypeOK, Steps
<1>5. Interface /\ PageCalls
  BY DEF Init, Interface, PageCalls
<1>6. Told /\ SavedIsProven
  BY <1>1, <1>2 DEF Init, Told, SavedIsProven, Steps
<1> QED
  BY <1>4, <1>5, <1>6 DEF WifiInv

(* What the network, the event task and the timer task change is the        *)
(* station and its events: no call, no credentials, no mode.                *)
LEMMA AroundChanges ==
    ASSUME Network \/ NetRefuses \/ NetDrops \/ EventTask \/ TimerTask
    PROVE  /\ UNCHANGED Others
           /\ UNCHANGED <<mode, config, apUp>>
           /\ sta' # "off" \/ sta' = sta
           /\ sta = "off" => sta' = "off"
<1>1. CASE Network \/ NetRefuses \/ NetDrops
  BY <1>1 DEF Network, NetJoins, NetLeases, NetRefuses, NetDrops, NetworkUnchanged,
              Linked, Others, callVars, flashVars, netVars
<1>2. CASE EventTask
  <2>1. CASE HandleLost
    BY <2>1 DEF HandleLost, Handled, Connecting, Others, callVars, flashVars,
         counters
  <2>2. CASE HandleGot
    BY <2>2 DEF HandleGot, Handled, Others, callVars, flashVars, counters
  <2> QED
    BY <1>2, <2>1, <2>2 DEF EventTask
<1>3. CASE TimerTask
  <2>1. CASE TimerFires
    BY <2>1 DEF TimerFires, driverVars, Others, callVars, flashVars, counters
  <2>2. CASE Rejoin
    BY <2>2 DEF Rejoin, Connecting, Others, callVars, flashVars, counters
  <2> QED
    BY <1>3, <2>1, <2>2 DEF TimerTask
<1> QED
  BY <1>1, <1>2, <1>3

(* The driver's own values keep their kinds.                               *)
LEMMA AroundSorts ==
    ASSUME RadioSorts, Network \/ NetRefuses \/ NetDrops \/ EventTask \/ TimerTask
    PROVE  RadioSorts'
<1> DEFINE Event == {"lost", "got"}
<1>1. UNCHANGED <<mode, config>>
  BY AroundChanges
<1>2. sta' \in {"off", "idle", "joining", "joined", "leased"}
  <2>1. CASE Network \/ NetRefuses \/ NetDrops
    BY <2>1 DEF Network, NetJoins, NetLeases, NetRefuses, NetDrops
  <2>2. CASE HandleLost
    BY <2>2 DEF HandleLost, Connecting, RadioSorts
  <2>3. CASE HandleGot
    BY <2>3 DEF HandleGot, RadioSorts
  <2>4. CASE TimerTask
    BY <2>4 DEF TimerTask, TimerFires, Rejoin, driverVars, Connecting, RadioSorts
  <2> QED
    BY <2>1, <2>2, <2>3, <2>4 DEF EventTask
<1>3. posted' \in Seq(Event)
  <2>0. posted \in Seq(Event)
    BY DEF RadioSorts
  <2>1. CASE NetJoins
    BY <2>0, <2>1 DEF NetJoins
  <2>2. CASE NetLeases \/ NetRefuses \/ NetDrops
    <3>1. posted' = Append(posted, "lost") \/ posted' = Append(posted, "got")
      BY <2>2 DEF NetLeases, NetRefuses, NetDrops, counters
    <3> QED
      BY <2>0, <3>1
  <2>3. CASE EventTask
    <3>1. posted # <<>> /\ posted' = Tail(posted)
      BY <2>3 DEF EventTask, HandleLost, HandleGot, Handled
    <3> QED
      BY <2>0, <3>1
  <2>4. CASE TimerTask
    BY <2>0, <2>4 DEF TimerTask, TimerFires, Rejoin, driverVars
  <2> QED
    BY <2>1, <2>2, <2>3, <2>4 DEF Network
<1> QED
  BY <1>1, <1>2, <1>3 DEF RadioSorts

(* So none of the three touches what the calls rely on.                    *)
LEMMA AroundStep ==
    ASSUME WifiInv, Network \/ NetRefuses \/ NetDrops \/ EventTask \/ TimerTask
    PROVE  WifiInv'
<1>1. RadioSorts'
  BY AroundSorts DEF WifiInv
<1>2. UNCHANGED Others /\ UNCHANGED <<mode, config, apUp>>
  BY AroundChanges
<1>3. (sta' # "off" \/ sta' = sta) /\ (sta = "off" => sta' = "off")
  BY AroundChanges
<1>4. CallTypeOK' /\ SavedIsProven'
  BY <1>2 DEF WifiInv, CallTypeOK, SavedIsProven, Others
<1>5. Interface'
  BY <1>2, <1>3 DEF WifiInv, Interface, Others
<1>6. PageCalls'
  BY <1>2 DEF WifiInv, PageCalls, Others
<1>7. Told'
  BY <1>2 DEF WifiInv, Told, Others, Saved
<1> QED
  BY <1>1, <1>4, <1>5, <1>6, <1>7 DEF WifiInv

-------------------------------------------------------------------------------
(* The calls of net_wifi_connect.                                          *)
LEMMA DroppedSort == ASSUME posted \in Seq({"lost", "got"})
                     PROVE  Dropped \in Seq({"lost", "got"})
<1>1. CASE sta \in {"off", "idle"}
  BY <1>1 DEF Dropped
<1>2. CASE sta \notin {"off", "idle"}
  <2>1. Dropped = Append(posted, "lost")
    BY <1>2 DEF Dropped
  <2> QED
    BY <2>1
<1> QED
  BY <1>1, <1>2

(* The saved credentials are a proven network's, or join nothing.          *)
LEMMA SavedKind == ASSUME SavedIsProven
                   PROVE  Saved \in Timed \cup {"torn"}
  BY DEF Saved, SavedIsProven

LEMMA KindsKnown == Timed \subseteq Nets
  BY NetKinds

(* The driver is told a network, and to forget the one before.             *)
LEMMA BeginStep == ASSUME WifiInv, Begin PROVE WifiInv'
<1>1. Target \in Nets \cup {"torn"}
  BY SavedKind, KindsKnown DEF WifiInv, Target, CallTypeOK
<1>2. RadioSorts'
  BY <1>1 DEF WifiInv, Begin, RadioSorts
<1>3. CallTypeOK' /\ SavedIsProven'
  BY DEF WifiInv, Begin, CallTypeOK, Steps, SavedIsProven, CallUnchanged, flashVars
<1>4. Interface'
  BY DEF WifiInv, Begin, Interface, RadioSorts, CallUnchanged
<1>5. PageCalls'
  BY DEF WifiInv, Begin, PageCalls, CallUnchanged
<1>6. Told'
  <2>1. Saved' = Saved
    BY DEF Begin, CallUnchanged, flashVars, Saved
  <2> QED
    BY <2>1 DEF WifiInv, Begin, Told, Target
<1> QED
  BY <1>2, <1>3, <1>4, <1>5, <1>6 DEF WifiInv

LEMMA RedoStep == ASSUME WifiInv, Redo PROVE WifiInv'
<1>1. posted' \in Seq({"lost", "got"})
  BY DroppedSort DEF WifiInv, RadioSorts, Redo
<1>2. RadioSorts'
  BY <1>1 DEF WifiInv, Redo, RadioSorts
<1>3. CallTypeOK' /\ SavedIsProven'
  BY DEF WifiInv, Redo, CallTypeOK, Steps, SavedIsProven, CallUnchanged, flashVars
<1>4. Interface'
  BY DEF WifiInv, Redo, Interface, CallUnchanged
<1>5. PageCalls'
  BY DEF WifiInv, Redo, PageCalls, CallUnchanged
<1>6. Told'
  <2>1. Saved' = Saved
    BY DEF Redo, CallUnchanged, flashVars, Saved
  <2> QED
    BY <2>1 DEF WifiInv, Redo, Told
<1> QED
  BY <1>2, <1>3, <1>4, <1>5, <1>6 DEF WifiInv

(* The answers to a join: what was told stays told.                        *)
Answer == WaitJoined \/ BootFails \/ RollBackFails

LEMMA AnswerStep == ASSUME WifiInv, Answer PROVE WifiInv'
<1>1. /\ UNCHANGED driverVars
      /\ UNCHANGED <<apUp, page, tried, ssid, pass, skipped>>
      /\ step = "wait"
  BY DEF Answer, WaitJoined, BootFails, RollBackFails, CallUnchanged,
         flashVars, WaitFails, counters
<1>2. \/ step' \in {"rest", "begin"} /\ for' = "boot" /\ for = "boot"
      \/ step' = "sync" /\ for' = "trial" /\ for = "trial"
      \/ step' = "drop" /\ for' = "rollback" /\ for = "rollback" /\ page
      \/ step' = "rest" /\ for' = "rollback" /\ for = "rollback" /\ ~page
  <2>1. for \in {"boot", "trial", "rollback"}
    BY <1>1 DEF WifiInv, Told, CallTypeOK
  <2>2. CASE WaitJoined
    BY <2>1, <2>2 DEF WaitJoined
  <2>3. CASE BootFails
    BY <2>3 DEF BootFails, KeepTrying
  <2>4. CASE RollBackFails
    BY <2>4 DEF RollBackFails, KeepTrying
  <2> QED
    BY <2>2, <2>3, <2>4 DEF Answer
<1>3. RadioSorts' /\ SavedIsProven' /\ Saved' = Saved
  BY <1>1 DEF WifiInv, RadioSorts, SavedIsProven, driverVars, Saved
<1>4. CallTypeOK'
  BY <1>1, <1>2 DEF WifiInv, CallTypeOK, Steps
<1>5. Interface'
  BY <1>1, <1>2 DEF WifiInv, Interface, driverVars
<1>6. PageCalls'
  BY <1>1, <1>2 DEF WifiInv, PageCalls, driverVars
<1>7. Told'
  <2>1. Saved = "torn" \/ Saved \in Timed
    BY SavedKind DEF WifiInv
  <2>2. config' = config
    BY <1>1 DEF driverVars
  <2> QED
    BY <1>1, <1>2, <1>3, <2>1, <2>2 DEF WifiInv, Told
<1> QED
  BY <1>3, <1>4, <1>5, <1>6, <1>7 DEF WifiInv, counters

-------------------------------------------------------------------------------
(* The trial: what is saved has given the time, whatever the flash refuses. *)
TrialStep == Synced \/ (\E n \in Nets : Try(n))

LEMMA TrialKeeps == ASSUME WifiInv, TrialStep PROVE WifiInv'
<1>1. /\ UNCHANGED driverVars
      /\ UNCHANGED <<apUp, page, ssid, pass>>
  BY DEF TrialStep, Synced, Try, CallUnchanged, flashVars, netVars
<1>2. \/ /\ step = "sync" /\ step' = "save" /\ config \in Timed
         /\ UNCHANGED <<for, tried>>
      \/ step = "rest" /\ step' = "begin" /\ for' = "trial" /\ tried' \in Nets
  BY DEF TrialStep, Synced, Try
<1>3. RadioSorts' /\ SavedIsProven'
  BY <1>1 DEF WifiInv, RadioSorts, SavedIsProven, driverVars
<1>4. CallTypeOK'
  BY <1>1, <1>2 DEF WifiInv, CallTypeOK, Steps
<1>5. Interface'
  BY <1>1, <1>2 DEF WifiInv, Interface, driverVars
<1>6. PageCalls'
  BY <1>1, <1>2 DEF WifiInv, PageCalls, driverVars
<1>7. Told'
  BY <1>1, <1>2 DEF WifiInv, Told, driverVars
<1> QED
  BY <1>3, <1>4, <1>5, <1>6, <1>7 DEF WifiInv

(* A network that was not joined, or gave no time: back to the saved one,   *)
(* and if there is none to read, a page is still left alone on the air.    *)
Rejected == TrialFails \/ NotSynced

LEMMA RejectedStep == ASSUME WifiInv, Rejected PROVE WifiInv'
<1>1. /\ UNCHANGED driverVars
      /\ UNCHANGED <<apUp, page, tried, ssid, pass>>
      /\ for' = "rollback" /\ for = "trial" /\ step \in {"wait", "sync"}
  BY DEF Rejected, TrialFails, NotSynced, WaitFails, RollBack, netVars, flashVars,
         WifiInv, Told
<1>2. \/ step' = "begin"
      \/ step' = "drop" /\ page /\ skipped'
      \/ step' = "rest" /\ ~page /\ skipped'
  BY DEF Rejected, TrialFails, NotSynced, RollBack
<1>3. RadioSorts' /\ SavedIsProven'
  BY <1>1 DEF WifiInv, RadioSorts, SavedIsProven, driverVars
<1>4. CallTypeOK'
  BY <1>1, <1>2 DEF WifiInv, CallTypeOK, Steps
<1>5. Interface'
  BY <1>1, <1>2 DEF WifiInv, Interface, driverVars
<1>6. PageCalls'
  BY <1>1, <1>2 DEF WifiInv, PageCalls, driverVars
<1>7. Told'
  BY <1>1, <1>2 DEF Told
<1> QED
  BY <1>3, <1>4, <1>5, <1>6, <1>7 DEF WifiInv

LEMMA SaveStep == ASSUME WifiInv, SaveName \/ SavePassword PROVE WifiInv'
<1>1. UNCHANGED driverVars /\ UNCHANGED <<apUp, page, for, tried>>
  BY DEF SaveName, SavePassword, netVars
<1>2. tried \in Timed /\ config = tried
  BY DEF WifiInv, Told, SaveName, SavePassword
<1>3. ssid' \in {ssid, tried} /\ pass' \in {pass, tried}
  BY DEF SaveName, SavePassword
<1>4. \/ step = "save" /\ step' = "saving"
      \/ step = "saving" /\ step' = "lower" /\ page
      \/ step = "saving" /\ step' = "rest" /\ ~page
  BY DEF SaveName, SavePassword
<1>5. RadioSorts'
  BY <1>1 DEF WifiInv, RadioSorts, driverVars
<1>6. CallTypeOK' /\ SavedIsProven'
  BY <1>1, <1>2, <1>3, <1>4 DEF WifiInv, CallTypeOK, SavedIsProven, Steps
<1>7. Interface'
  BY <1>1, <1>4 DEF WifiInv, Interface, driverVars
<1>8. PageCalls'
  BY <1>1, <1>4 DEF WifiInv, PageCalls, driverVars
<1>9. Told'
  BY <1>1, <1>2, <1>4 DEF WifiInv, Told, driverVars
<1> QED
  BY <1>5, <1>6, <1>7, <1>8, <1>9 DEF WifiInv, counters

-------------------------------------------------------------------------------
(* The page's calls.                                                       *)
ApAlone == DropLink \/ ScanReturn \/ RaiseAp

LEMMA ApAloneStep == ASSUME WifiInv, ApAlone PROVE WifiInv'
<1>1. /\ UNCHANGED <<config, page, for, tried, ssid, pass, skipped>>
      /\ mode' = "ap" /\ sta' = "off" /\ posted' = Dropped
  BY DEF ApAlone, DropLink, ScanReturn, RaiseAp, CallUnchanged, flashVars,
         counters
<1>2. \/ step \in {"back", "scanned"} /\ step' \in {"scan", "rest"} /\ apUp' = apUp
      \/ step = "raise" /\ step' = "rest" /\ apUp' = TRUE
  BY DEF ApAlone, DropLink, ScanReturn, RaiseAp, CallUnchanged, netVars
<1>3. posted' \in Seq({"lost", "got"})
  BY <1>1, DroppedSort DEF WifiInv, RadioSorts
<1>4. RadioSorts'
  BY <1>1, <1>3 DEF WifiInv, RadioSorts, counters
<1>5. CallTypeOK' /\ SavedIsProven'
  BY <1>1, <1>2 DEF WifiInv, CallTypeOK, SavedIsProven, Steps
<1>6. page /\ apUp'
  BY <1>2 DEF WifiInv, PageCalls
<1>7. Interface'
  BY <1>1, <1>2, <1>6 DEF Interface
<1>8. PageCalls'
  BY <1>1, <1>2, <1>6 DEF WifiInv, PageCalls
<1>9. Told'
  <2>1. Saved' = Saved
    BY <1>1 DEF Saved
  <2> QED
    BY <1>1, <1>2, <2>1 DEF WifiInv, Told, Steps
<1> QED
  BY <1>4, <1>5, <1>7, <1>8, <1>9 DEF WifiInv

(* The calls that change no interface.                                     *)
Quiet == DropRetries \/ AskScan \/ OpenPage \/ ClosePage

LEMMA QuietStep == ASSUME WifiInv, Quiet PROVE WifiInv'
<1>1. /\ UNCHANGED driverVars
      /\ UNCHANGED <<apUp, tried, ssid, pass, skipped>>
  BY DEF Quiet, DropRetries, AskScan, OpenPage, ClosePage, CallUnchanged, flashVars,
         netVars, counters
<1>2. \/ step = "drop" /\ step' = "back" /\ UNCHANGED <<page, for>>
      \/ step = "past" /\ step' = "raise" /\ UNCHANGED <<page, for>>
      \/ /\ step = "rest" /\ step' \in {"scan", "lower"} /\ page
         /\ UNCHANGED <<page, for>>
      \/ step = "rest" /\ step' = "past" /\ page' = TRUE /\ for' = "page"
  BY DEF Quiet, DropRetries, AskScan, OpenPage, ClosePage
<1>3. RadioSorts' /\ SavedIsProven' /\ Saved' = Saved
  BY <1>1 DEF WifiInv, RadioSorts, SavedIsProven, driverVars, Saved
<1>4. CallTypeOK'
  BY <1>1, <1>2 DEF WifiInv, CallTypeOK, Steps
<1>5. Interface'
  BY <1>1, <1>2 DEF WifiInv, Interface, driverVars
<1>6. PageCalls'
  BY <1>1, <1>2 DEF WifiInv, PageCalls, driverVars
<1>7. Told'
  BY <1>1, <1>2, <1>3 DEF WifiInv, Told, driverVars, Steps
<1> QED
  BY <1>3, <1>4, <1>5, <1>6, <1>7 DEF WifiInv

(* The calls that give the station its interface back.                     *)
Station == ScanBorrow \/ LowerAp \/ PutBack

LEMMA StationStep == ASSUME WifiInv, Station PROVE WifiInv'
<1>1. UNCHANGED <<config, posted, for, tried, ssid, pass, skipped>>
  BY DEF Station, ScanBorrow, LowerAp, PutBack, flashVars, counters
<1>2. \/ /\ step = "scan" /\ step' = "scanned" /\ mode' = "apsta" /\ sta' # "off"
         /\ UNCHANGED <<page, apUp>>
      \/ /\ step = "lower" /\ step' = "rejoin" /\ mode' = "sta" /\ sta' # "off"
         /\ page' = page
      \/ /\ step = "rejoin" /\ step' = "rest" /\ page' = FALSE
         /\ UNCHANGED <<mode, apUp>> /\ (sta' = "off") = (sta = "off")
  BY DEF Station, ScanBorrow, LowerAp, PutBack, Connecting, netVars
<1>3. sta' \in {"off", "idle", "joining", "joined", "leased"}
  BY DEF WifiInv, RadioSorts, Station, ScanBorrow, LowerAp, PutBack, Connecting
<1>4. RadioSorts'
  BY <1>1, <1>2, <1>3 DEF WifiInv, RadioSorts
<1>5. CallTypeOK' /\ SavedIsProven' /\ Saved' = Saved
  BY <1>1, <1>2 DEF WifiInv, CallTypeOK, SavedIsProven, Steps, Saved
<1>6. Interface'
  BY <1>2 DEF WifiInv, Interface
<1>7. PageCalls'
  BY <1>1, <1>2 DEF WifiInv, PageCalls
<1>8. Told'
  BY <1>1, <1>2, <1>5 DEF WifiInv, Told, Steps
<1> QED
  BY <1>4, <1>5, <1>6, <1>7, <1>8 DEF WifiInv

LEMMA ResetStep == ASSUME WifiInv, Reset PROVE WifiInv'
<1>1. RadioSorts'
  BY DEF WifiInv, RadioSorts, Reset
<1>2. CallTypeOK' /\ SavedIsProven'
  BY NetKinds DEF WifiInv, CallTypeOK, SavedIsProven, Reset, Steps, flashVars
<1>3. Interface' /\ PageCalls'
  BY DEF Interface, PageCalls, Reset
<1>4. Told'
  BY DEF Told, Reset
<1> QED
  BY <1>1, <1>2, <1>3, <1>4 DEF WifiInv

LEMMA StutterStep == ASSUME WifiInv, UNCHANGED vars PROVE WifiInv'
<1> QED
  BY DEF WifiInv, RadioSorts, CallTypeOK, Interface, PageCalls, Told, SavedIsProven,
         Saved, vars, driverVars, netVars, callVars, flashVars, counters

LEMMA WifiStep == ASSUME WifiInv, [Next]_vars PROVE WifiInv'
<1>1. CASE Network \/ NetRefuses \/ NetDrops \/ EventTask \/ TimerTask
  BY <1>1, AroundStep
<1>2. CASE Begin
  BY <1>2, BeginStep
<1>3. CASE Redo
  BY <1>3, RedoStep
<1>4. CASE Answer
  BY <1>4, AnswerStep
<1>5. CASE TrialStep
  BY <1>5, TrialKeeps
<1>6. CASE SaveName \/ SavePassword
  BY <1>6, SaveStep
<1>7. CASE ApAlone
  BY <1>7, ApAloneStep
<1>8. CASE Quiet
  BY <1>8, QuietStep
<1>9. CASE Station
  BY <1>9, StationStep
<1>10. CASE Reset
  BY <1>10, ResetStep
<1>11. CASE UNCHANGED vars
  BY <1>11, StutterStep
<1>12. CASE Rejected
  BY <1>12, RejectedStep
<1> QED
  BY <1>1, <1>2, <1>3, <1>4, <1>5, <1>6, <1>7, <1>8, <1>9, <1>10, <1>11,
     <1>12
     DEF Next, Call, Answer, TrialStep, Rejected, ApAlone, Quiet, Station

LEMMA WifiInvariant == Spec => []WifiInv
<1>1. Init => WifiInv
  BY WifiInit
<1>2. WifiInv /\ [Next]_vars => WifiInv'
  BY WifiStep
<1> QED
  BY <1>1, <1>2, PTL DEF Spec

-------------------------------------------------------------------------------
(* What is saved is of a network that was joined and gave the time: a name *)
(* or a password reaches the flash only from a trial whose clock sync ran  *)
(* over the network the driver was told for that trial (main.cpp:368-377). *)
THEOREM ProvenSound == Spec => []SavedIsProven
<1>1. WifiInv => SavedIsProven
  BY DEF WifiInv
<1> QED
  BY <1>1, WifiInvariant, PTL

(* Between calls the page's access point has the radio alone: no retry,    *)
(* re-join or address that was on its way joins a network behind it        *)
(* (net.cpp:243-247).                                                      *)
THEOREM OffLanSound == Spec => []PageOffTheLan
<1>1. WifiInv => PageOffTheLan
  BY DEF WifiInv, PageCalls, Interface, PageOffTheLan, Linked
<1> QED
  BY <1>1, WifiInvariant, PTL

(* What the background goes on joining is a proven network                 *)
(* (net.cpp:389-391), or the two halves saved are not of one.              *)
THEOREM KeepsSound == Spec => []KeepsProven
<1>1. WifiInv => KeepsProven
  BY DEF WifiInv, Told, KeepsProven, Steps
<1> QED
  BY <1>1, WifiInvariant, PTL
-------------------------------------------------------------------------------
(* The other types.                                                        *)
RetryOK == retry \in 0..MaxRetry

LEMMA RetryStep == ASSUME RetryOK, [Next]_vars PROVE RetryOK'
<1>0. 0 \in 0..MaxRetry /\ MaxRetry \in 0..MaxRetry
  BY NetKinds
<1>1. \/ retry' = retry \/ retry' = 0 \/ retry' = MaxRetry
      \/ retry < MaxRetry /\ retry' = retry + 1
  <2>1. CASE Network \/ NetRefuses \/ NetDrops
    BY <2>1 DEF Network, NetJoins, NetLeases, NetRefuses, NetDrops,
                NetworkUnchanged, netVars
  <2>2. CASE EventTask \/ TimerTask
    BY <2>2 DEF EventTask, HandleLost, HandleGot, TimerTask, TimerFires, Rejoin
  <2>3. CASE \/ Begin \/ Redo \/ Answer \/ Rejected \/ Synced \/ SaveName
             \/ SavePassword
    BY <2>3 DEF Begin, Redo, Answer, WaitJoined, BootFails, RollBackFails, Rejected,
       TrialFails, NotSynced, RollBack, Synced, SaveName, SavePassword,
       CallUnchanged, netVars, callVars
  <2>4. CASE ApAlone \/ Quiet \/ Station
    BY <2>4 DEF ApAlone, DropLink, ScanReturn, RaiseAp, Quiet, DropRetries, AskScan,
       OpenPage, ClosePage, Station, ScanBorrow, LowerAp, PutBack, netVars
  <2>5. CASE Reset \/ (\E n \in Nets : Try(n)) \/ UNCHANGED vars
    BY <2>5 DEF Reset, Try, vars, netVars
  <2> QED
    BY <2>1, <2>2, <2>3, <2>4, <2>5 DEF Next, Call, Answer, Rejected, ApAlone,
       Quiet, Station
<1>2. CASE retry < MaxRetry /\ retry' = retry + 1
  BY <1>2, NetKinds DEF RetryOK
<1> QED
  BY <1>0, <1>1, <1>2 DEF RetryOK

AttemptOK == attempt \in 0..Attempts

LEMMA AttemptStep == ASSUME AttemptOK, [Next]_vars PROVE AttemptOK'
<1>1. attempt' = attempt \/ attempt' = 1 \/ (attempt < Attempts /\ attempt' = attempt + 1)
  <2>1. CASE Network \/ NetRefuses \/ NetDrops
    BY <2>1 DEF Network, NetJoins, NetLeases, NetRefuses, NetDrops,
                NetworkUnchanged, callVars
  <2>2. CASE EventTask \/ TimerTask
    BY <2>2 DEF EventTask, HandleLost, HandleGot, Handled, TimerTask, TimerFires,
       Rejoin, callVars
  <2>3. CASE \/ Begin \/ Redo \/ Answer \/ Rejected \/ Synced \/ SaveName
             \/ SavePassword
    BY <2>3 DEF Begin, Redo, Answer, WaitJoined, BootFails, RollBackFails, Rejected,
       TrialFails, NotSynced, RollBack, Synced, SaveName, SavePassword,
       CallUnchanged, netVars, callVars
  <2>4. CASE ApAlone \/ Quiet \/ Station
    BY <2>4 DEF ApAlone, DropLink, ScanReturn, RaiseAp, Quiet, DropRetries, AskScan,
       OpenPage, ClosePage, Station, ScanBorrow, LowerAp, PutBack
  <2>5. CASE Reset \/ (\E n \in Nets : Try(n)) \/ UNCHANGED vars
    BY <2>5 DEF Reset, Try, vars, callVars
  <2> QED
    BY <2>1, <2>2, <2>3, <2>4, <2>5 DEF Next, Call, Answer, Rejected, ApAlone,
       Quiet, Station
<1>2. 1 \in 0..Attempts
  BY NetKinds
<1>3. CASE attempt < Attempts /\ attempt' = attempt + 1
  BY <1>3, NetKinds DEF AttemptOK
<1> QED
  BY <1>1, <1>2, <1>3 DEF AttemptOK

BoundsOK ==
    /\ trials \in 0..MaxTrials /\ pages \in 0..MaxPages
    /\ drops \in 0..MaxDrops /\ resets \in 0..MaxResets

LEMMA BoundsStep == ASSUME BoundsOK, [Next]_vars PROVE BoundsOK'
<1>1. /\ trials' = trials \/ (trials < MaxTrials /\ trials' = trials + 1)
      /\ pages' = pages \/ (pages < MaxPages /\ pages' = pages + 1)
      /\ drops' = drops \/ (drops < MaxDrops /\ drops' = drops + 1)
      /\ resets' = resets \/ (resets < MaxResets /\ resets' = resets + 1)
  <2>1. CASE Network \/ NetRefuses \/ NetDrops
    BY <2>1 DEF Network, NetJoins, NetLeases, NetRefuses, NetDrops,
                NetworkUnchanged
  <2>2. CASE EventTask \/ TimerTask
    BY <2>2 DEF EventTask, HandleLost, HandleGot, Handled, TimerTask, TimerFires,
       Rejoin, counters
  <2>3. CASE \/ Begin \/ Redo \/ Answer \/ Rejected \/ Synced \/ SaveName
             \/ SavePassword
    BY <2>3 DEF Begin, Redo, Answer, WaitJoined, BootFails, RollBackFails, Rejected,
       TrialFails, NotSynced, RollBack, Synced, SaveName, SavePassword,
       CallUnchanged, netVars, callVars, counters
  <2>4. CASE ApAlone \/ Quiet \/ Station
    BY <2>4 DEF ApAlone, DropLink, ScanReturn, RaiseAp, Quiet, DropRetries, AskScan,
       OpenPage, ClosePage, Station, ScanBorrow, LowerAp, PutBack, CallUnchanged,
         counters
  <2>5. CASE Reset \/ (\E n \in Nets : Try(n)) \/ UNCHANGED vars
    BY <2>5 DEF Reset, Try, vars, counters
  <2> QED
    BY <2>1, <2>2, <2>3, <2>4, <2>5 DEF Next, Call, Answer, Rejected, ApAlone,
       Quiet, Station
<1>2. trials' \in 0..MaxTrials
  BY <1>1, NetKinds DEF BoundsOK
<1>3. pages' \in 0..MaxPages
  BY <1>1, NetKinds DEF BoundsOK
<1>4. drops' \in 0..MaxDrops
  BY <1>1, NetKinds DEF BoundsOK
<1>5. resets' \in 0..MaxResets
  BY <1>1, NetKinds DEF BoundsOK
<1> QED
  BY <1>2, <1>3, <1>4, <1>5 DEF BoundsOK

LEMMA FlagStep == ASSUME FlagTypeOK, [Next]_vars PROVE FlagTypeOK'
<1> USE DEF FlagTypeOK
<1>1. CASE Network \/ NetRefuses \/ NetDrops
  <2>1. UNCHANGED <<netVars, callVars, skipped>>
    BY <1>1 DEF Network, NetJoins, NetLeases, NetRefuses, NetDrops, NetworkUnchanged
  <2> QED
    BY <2>1 DEF netVars, callVars
<1>2. CASE EventTask
  <2>1. /\ UNCHANGED <<keep, apUp, fired, page, skipped>>
        /\ connected' \in BOOLEAN
        /\ failed' = failed \/ failed' = TRUE
        /\ timer' \in {timer, TRUE, FALSE}
    BY <1>2 DEF EventTask, HandleLost, HandleGot, Handled, callVars, Schedule,
         counters
  <2> QED
    BY <2>1
<1>3. CASE TimerFires
  BY <1>3 DEF TimerFires, callVars, counters
<1>4. CASE Rejoin
  BY <1>4 DEF Rejoin, callVars, counters
<1>5. CASE Begin
  BY <1>5 DEF Begin, CallUnchanged, counters
<1>6. CASE Redo \/ Synced
  BY <1>6 DEF Redo, Synced, CallUnchanged, counters
<1>7. CASE Answer
  <2>1. UNCHANGED <<connected, failed, apUp, fired, page, skipped>>
    BY <1>7 DEF Answer, WaitJoined, BootFails, RollBackFails,
                CallUnchanged, counters
  <2>2. keep' \in {keep, TRUE} /\ timer' \in {timer, TRUE}
    BY <1>7 DEF Answer, WaitJoined, BootFails, RollBackFails,
                KeepTrying, Schedule
  <2> QED
    BY <2>1, <2>2
<1>8. CASE SaveName \/ SavePassword \/ AskScan \/ ClosePage
  BY <1>8 DEF SaveName, SavePassword, AskScan, ClosePage, netVars, counters
<1>9. CASE DropRetries
  BY <1>9 DEF DropRetries, CallUnchanged, counters
<1>10. CASE DropLink \/ ScanReturn \/ ScanBorrow
  BY <1>10 DEF DropLink, ScanReturn, ScanBorrow, CallUnchanged, netVars,
         counters
<1>11. CASE OpenPage
  BY <1>11 DEF OpenPage, netVars
<1>12. CASE RaiseAp
  BY <1>12 DEF RaiseAp, counters
<1>13. CASE LowerAp
  BY <1>13 DEF LowerAp, counters
<1>14. CASE PutBack
  <2>1. UNCHANGED <<connected, failed, apUp, timer, fired, skipped>>
        /\ page' = FALSE
    BY <1>14 DEF PutBack, counters
  <2>2. keep' \in {keep, TRUE}
    BY <1>14 DEF PutBack
  <2> QED
    BY <2>1, <2>2
<1>15. CASE Reset
  BY <1>15 DEF Reset
<1>16. CASE (\E n \in Nets : Try(n)) \/ UNCHANGED vars
  BY <1>16 DEF Try, vars, netVars, callVars, counters
<1>17. CASE Rejected
  <2>1. UNCHANGED <<netVars, page>>
    BY <1>17 DEF Rejected, TrialFails, NotSynced, RollBack
  <2>2. skipped' \in {skipped, TRUE}
    BY <1>17 DEF Rejected, TrialFails, NotSynced, RollBack
  <2> QED
    BY <2>1, <2>2 DEF netVars
<1> QED
  BY <1>1, <1>2, <1>3, <1>4, <1>5, <1>6, <1>7, <1>8, <1>9, <1>10, <1>11, <1>12,
     <1>13, <1>14, <1>15, <1>16, <1>17
     DEF Next, TimerTask, Call, Answer, Rejected

(* Every value of the radio and of the calls about it is of its kind; no    *)
(* number of lost events has the tries counted past WIFI_MAX_RETRY.        *)
THEOREM WifiTypeCorrect == Spec => []TypeOK
<1>1. Init => FlagTypeOK /\ RetryOK /\ AttemptOK /\ BoundsOK
  <2>1. ASSUME Init PROVE FlagTypeOK
    BY <2>1 DEF Init, FlagTypeOK
  <2>2. ASSUME Init PROVE RetryOK /\ AttemptOK /\ BoundsOK
    <3>1. /\ retry = 0 /\ attempt = 1
          /\ trials = 0 /\ pages = 0 /\ drops = 0 /\ resets = 0
      BY <2>2 DEF Init
    <3> QED
      BY <3>1, NetKinds DEF RetryOK, AttemptOK, BoundsOK
  <2> QED
    BY <2>1, <2>2
<1>2. FlagTypeOK /\ [Next]_vars => FlagTypeOK'
  BY FlagStep
<1>3. RetryOK /\ [Next]_vars => RetryOK'
  BY RetryStep
<1>4. AttemptOK /\ [Next]_vars => AttemptOK'
  BY AttemptStep
<1>5. BoundsOK /\ [Next]_vars => BoundsOK'
  BY BoundsStep
<1>6. WifiInv /\ FlagTypeOK /\ RetryOK /\ AttemptOK /\ BoundsOK => TypeOK
  BY DEF WifiInv, RadioSorts, Interface, RetryOK, AttemptOK, BoundsOK, CountTypeOK,
         RadioTypeOK, TypeOK
<1> QED
  BY <1>1, <1>2, <1>3, <1>4, <1>5, <1>6, WifiInvariant, PTL DEF Spec
===============================================================================
