--------------------------------- MODULE Wifi ---------------------------------
(***************************************************************************)
(* The radio (net.cpp): the joins the main task waits for, the retries of  *)
(* the event task, the re-join of the timer task, the access point of the  *)
(* configuration page, and the trial of new credentials (main.cpp).        *)
(* A network stands for a name and the password given with it.  The driver *)
(* and what the networks do are external.                                  *)
(***************************************************************************)
EXTENDS Naturals, Sequences

CONSTANTS
    Nets,
    Joins,       \* networks that let the terminal in
    Leases,      \* that also give it an address
    Timed,       \* that also lead to the time servers
    Home,        \* the one saved when the terminal was set up
    MaxRetry,    \* WIFI_MAX_RETRY
    Attempts,    \* WIFI_SAVED_ATTEMPTS
    MaxTrials, MaxPages, MaxDrops, MaxResets   \* bounds

ASSUME NetKinds ==
    /\ Home \in Timed /\ Timed \subseteq Leases /\ Leases \subseteq Joins
    /\ Joins \subseteq Nets /\ "torn" \notin Nets
    /\ MaxRetry \in Nat /\ Attempts \in Nat \ {0}
    /\ MaxTrials \in Nat /\ MaxPages \in Nat
    /\ MaxDrops \in Nat /\ MaxResets \in Nat

VARIABLES
    mode,        \* esp_wifi_set_mode
    sta,         \* the driver's station
    config,      \* the driver's credentials
    posted,      \* events of the driver the event task has not handled
    connected, failed,   \* WIFI_CONNECTED_BIT, WIFI_FAIL_BIT
    retry,       \* s_retry_num
    keep,        \* s_keep
    apUp,        \* s_ap_up
    timer,       \* s_rejoin_timer is armed
    fired,       \* rejoin_cb is past its check
    ssid, pass,  \* K_WIFI_SSID, K_WIFI_PASS: of which network
    page,        \* the configuration page is up
    step,        \* where the main task is, or the UI task that opens the page
    for,         \* what it is doing that for
    tried,       \* the network on trial
    attempt,     \* of wifi_try_saved
    skipped,     \* history: no network was rolled back to since the last trial
    trials, pages, drops, resets   \* counters for the bounds

driverVars == <<mode, sta, config, posted>>
netVars    == <<connected, failed, retry, keep, apUp, timer, fired>>
flashVars  == <<ssid, pass>>
callVars   == <<page, step, for, tried, attempt>>
counters   == <<skipped, trials, pages, drops, resets>>

vars == <<driverVars, netVars, flashVars, callVars, counters>>

(* A name with the password of another network joins nothing.              *)
Saved == IF ssid = pass THEN ssid ELSE "torn"

Linked == sta \in {"joined", "leased"}

RadioTypeOK ==
    /\ mode \in {"sta", "ap", "apsta"}
    /\ sta \in {"off", "idle", "joining", "joined", "leased"}
    /\ (mode = "ap") = (sta = "off")
    /\ config \in Nets \cup {"torn"}
    /\ posted \in Seq({"lost", "got"})

FlagTypeOK ==
    /\ connected \in BOOLEAN /\ failed \in BOOLEAN
    /\ keep \in BOOLEAN /\ apUp \in BOOLEAN
    /\ timer \in BOOLEAN /\ fired \in BOOLEAN
    /\ page \in BOOLEAN /\ skipped \in BOOLEAN

Steps == {"rest", "begin", "redo", "wait", "sync", "save", "saving", "past",
          "drop", "back", "raise", "scan", "scanned", "lower", "rejoin"}

CallTypeOK ==
    /\ ssid \in Nets /\ pass \in Nets /\ tried \in Nets
    /\ step \in Steps
    /\ for \in {"boot", "trial", "rollback", "page"}

CountTypeOK ==
    /\ retry \in 0..MaxRetry /\ attempt \in 0..Attempts
    /\ trials \in 0..MaxTrials /\ pages \in 0..MaxPages
    /\ drops \in 0..MaxDrops /\ resets \in 0..MaxResets

TypeOK == RadioTypeOK /\ FlagTypeOK /\ CallTypeOK /\ CountTypeOK

Init ==
    /\ mode = "sta" /\ sta = "idle" /\ config = Home /\ posted = <<>>
    /\ connected = FALSE /\ failed = FALSE /\ retry = 0
    /\ keep = FALSE /\ apUp = FALSE /\ timer = FALSE /\ fired = FALSE
    /\ ssid = Home /\ pass = Home
    /\ page = FALSE /\ step = "begin" /\ for = "boot" /\ tried = Home
    /\ attempt = 1 /\ skipped = FALSE
    /\ trials = 0 /\ pages = 0 /\ drops = 0 /\ resets = 0

-------------------------------------------------------------------------------
(* The driver (external).                                                  *)

(* esp_wifi_connect is of no effect on a station that is off or busy.      *)
Connecting(s) == IF s = "idle" THEN "joining" ELSE s

(* What esp_wifi_disconnect posts, or an interface that goes.              *)
Dropped == IF sta \in {"off", "idle"} THEN posted ELSE Append(posted, "lost")

(* The terminal waits less than a join takes to answer what it was told.   *)
Awaited == step = "wait" /\ (connected \/ failed)

NetworkUnchanged == UNCHANGED <<mode, config, netVars, flashVars, callVars,
                                skipped, trials, pages, resets>>

NetJoins ==
    /\ sta = "joining" /\ config \in Joins /\ sta' = "joined"
    /\ UNCHANGED <<posted, drops>> /\ NetworkUnchanged

(* A network that would let the terminal in fails to a few times only.     *)
NetRefuses ==
    /\ sta = "joining" /\ sta' = "idle" /\ ~Awaited
    /\ posted' = Append(posted, "lost")
    /\ \/ config \notin Joins /\ UNCHANGED drops
       \/ config \in Joins /\ drops < MaxDrops /\ drops' = drops + 1
    /\ NetworkUnchanged

NetLeases ==
    /\ sta = "joined" /\ config \in Leases /\ sta' = "leased"
    /\ posted' = Append(posted, "got")
    /\ UNCHANGED drops /\ NetworkUnchanged

NetDrops ==
    /\ Linked /\ sta' = "idle" /\ ~Awaited
    /\ posted' = Append(posted, "lost")
    /\ drops < MaxDrops /\ drops' = drops + 1
    /\ NetworkUnchanged

-------------------------------------------------------------------------------
(* The event task: wifi_event_handler.                                     *)

(* rejoin_schedule; the doubling of its wait is left out.                  *)
Schedule(k) == IF k /\ ~apUp THEN TRUE ELSE timer

Handled(e) ==
    /\ posted # <<>> /\ Head(posted) = e /\ posted' = Tail(posted)
    /\ UNCHANGED <<mode, config, keep, apUp, fired, flashVars, callVars, counters>>

(* Mutant: one try more than there are.                                    *)
HandleLostOver ==
    /\ Handled("lost")
    /\ connected' = FALSE
    /\ IF retry <= MaxRetry
       THEN /\ retry' = retry + 1 /\ sta' = Connecting(sta)
            /\ UNCHANGED <<failed, timer>>
       ELSE /\ failed' = TRUE /\ timer' = Schedule(keep)
            /\ UNCHANGED <<retry, sta>>

(* Mutant: the tries are spent, and that is that.                          *)
HandleLostSpent ==
    /\ Handled("lost")
    /\ connected' = FALSE
    /\ IF retry < MaxRetry
       THEN /\ retry' = retry + 1 /\ sta' = Connecting(sta)
            /\ UNCHANGED <<failed, timer>>
       ELSE /\ failed' = TRUE /\ UNCHANGED <<retry, sta, timer>>

HandleLost ==
    /\ Handled("lost")
    /\ connected' = FALSE
    /\ IF retry < MaxRetry
       THEN /\ retry' = retry + 1 /\ sta' = Connecting(sta)
            /\ UNCHANGED <<failed, timer>>
       ELSE /\ failed' = TRUE /\ timer' = Schedule(keep)
            /\ UNCHANGED <<retry, sta>>

HandleGot ==
    /\ Handled("got")
    /\ connected' = TRUE /\ retry' = 0 /\ timer' = FALSE
    /\ UNCHANGED <<failed, sta>>

(* The timer task: rejoin_cb looks, and then connects.                     *)
TimerFires ==
    /\ timer /\ timer' = FALSE
    /\ fired' = (fired \/ (keep /\ ~apUp))
    /\ UNCHANGED <<driverVars, connected, failed, retry, keep, apUp, flashVars,
                   callVars, counters>>

Rejoin ==
    /\ fired /\ fired' = FALSE
    /\ retry' = MaxRetry /\ sta' = Connecting(sta)
    /\ UNCHANGED <<mode, config, posted, connected, failed, keep, apUp, timer,
                   flashVars, callVars, counters>>

-------------------------------------------------------------------------------
(* net_wifi_connect.                                                       *)

CallUnchanged == UNCHANGED <<apUp, fired, flashVars, counters>>

Target == IF for = "trial" THEN tried ELSE Saved

(* Not kept while it is being tried.                                       *)
Begin ==
    /\ step = "begin" /\ step' = "redo"
    /\ mode' = (IF apUp THEN "apsta" ELSE mode)
    /\ sta' = (IF sta = "off" THEN "idle" ELSE sta)
    /\ keep' = FALSE /\ timer' = FALSE
    /\ connected' = FALSE /\ failed' = FALSE /\ retry' = 0
    /\ config' = Target
    /\ UNCHANGED <<posted, page, for, tried, attempt>> /\ CallUnchanged

Redo ==
    /\ step = "redo" /\ step' = "wait"
    /\ sta' = "joining"
    /\ posted' = Dropped
    /\ UNCHANGED <<mode, config, connected, failed, retry, keep, timer, page, for,
                   tried, attempt>>
    /\ CallUnchanged

(* Joined: for a trial, the clock comes next.                              *)
WaitJoined ==
    /\ step = "wait" /\ connected /\ keep' = TRUE
    /\ step' = CASE for = "boot"     -> "rest"
                 [] for = "trial"    -> "sync"
                 [] for = "rollback" -> IF page THEN "drop" ELSE "rest"
    /\ UNCHANGED <<driverVars, connected, failed, retry, timer, page, for, tried,
                   attempt>>
    /\ CallUnchanged

(* The tries are spent, or WIFI_TIMEOUT_MS is.                             *)
WaitFails == step = "wait" /\ ~connected

(* A rejected network: the saved one is put back, if there is one to read;  *)
(* with the page up the link goes in any case.                             *)
RollBack == /\ for' = "rollback"
            /\ \/ step' = "begin" /\ UNCHANGED skipped
               \/ step' = (IF page THEN "drop" ELSE "rest") /\ skipped' = TRUE
            /\ UNCHANGED <<driverVars, netVars, flashVars, page, tried, attempt,
                           trials, pages, drops, resets>>

KeepTrying == keep' = TRUE /\ timer' = Schedule(TRUE) /\ step' = "rest"

BootFails ==
    /\ WaitFails /\ for = "boot"
    /\ IF attempt < Attempts
       THEN attempt' = attempt + 1 /\ step' = "begin" /\ UNCHANGED <<keep, timer>>
       ELSE KeepTrying /\ UNCHANGED attempt
    /\ UNCHANGED <<driverVars, connected, failed, retry, page, for, tried>>
    /\ CallUnchanged

TrialFails == WaitFails /\ for = "trial" /\ RollBack

RollBackFails ==
    /\ WaitFails /\ for = "rollback"
    /\ IF page THEN step' = "drop" /\ UNCHANGED <<keep, timer>> ELSE KeepTrying
    /\ UNCHANGED <<driverVars, connected, failed, retry, page, for, tried, attempt>>
    /\ CallUnchanged

-------------------------------------------------------------------------------
(* UI_EVENT_WIFI_TRY, from the page or from the picker of the panel.       *)

Try(n) ==
    /\ step = "rest" /\ trials < MaxTrials /\ trials' = trials + 1
    /\ step' = "begin" /\ for' = "trial" /\ tried' = n /\ skipped' = FALSE
    /\ UNCHANGED <<driverVars, netVars, flashVars, page, attempt, pages, drops,
                   resets>>

(* Mutant: a network that was joined is good enough.                       *)
SyncedUnasked ==
    /\ step = "sync" /\ step' = "save"
    /\ UNCHANGED <<driverVars, connected, failed, retry, keep, timer, page, for,
                   tried, attempt>>
    /\ CallUnchanged

(* net_time_sync: a fresh packet, over whatever network there is.          *)
Synced ==
    /\ step = "sync" /\ step' = "save"
    /\ sta = "leased" /\ config \in Timed
    /\ UNCHANGED <<driverVars, connected, failed, retry, keep, timer, page, for,
                   tried, attempt>>
    /\ CallUnchanged

(* Mutant: prov_stop() will put the saved network back.                    *)
NotSyncedKeepsPage ==
    \/ step = "sync" /\ ~page /\ RollBack
    \/ /\ step = "sync" /\ page /\ step' = "drop"
       /\ UNCHANGED <<driverVars, netVars, page, for, tried, attempt>>
       /\ CallUnchanged

NotSynced == step = "sync" /\ RollBack

(* settings_set_wifi: one key, and the other; the flash may refuse either,  *)
(* and nobody asks.  The page is closed after a network is taken.          *)
SaveName ==
    /\ step = "save" /\ step' = "saving" /\ ssid' \in {ssid, tried}
    /\ UNCHANGED <<driverVars, netVars, pass, page, for, tried, attempt, counters>>

SavePassword ==
    /\ step = "saving" /\ pass' \in {pass, tried}
    /\ step' = IF page THEN "lower" ELSE "rest"
    /\ UNCHANGED <<driverVars, netVars, ssid, page, for, tried, attempt, counters>>

-------------------------------------------------------------------------------
(* net_wifi_disconnect, for a rejected trial and for the page.             *)

DropRetries ==
    /\ step \in {"drop", "past"}
    /\ step' = IF step = "drop" THEN "back" ELSE "raise"
    /\ retry' = MaxRetry /\ keep' = FALSE /\ timer' = FALSE
    /\ UNCHANGED <<driverVars, connected, failed, page, for, tried, attempt>>
    /\ CallUnchanged

(* Mutant: the interface stays up with its association gone.               *)
DropLinkOnly ==
    /\ step = "back" /\ step' = "scan"
    /\ sta' = "idle" /\ posted' = Dropped
    /\ UNCHANGED <<mode, config, connected, failed, retry, keep, timer, page, for,
                   tried, attempt>>
    /\ CallUnchanged

(* esp_wifi_disconnect, and with an access point up the interface goes too.*)
DropLink ==
    /\ step = "back" /\ step' = "scan"
    /\ mode' = "ap" /\ sta' = "off" /\ posted' = Dropped
    /\ UNCHANGED <<config, connected, failed, retry, keep, timer, page, for, tried,
                   attempt>>
    /\ CallUnchanged

(* net_wifi_scan: the page's, or the one for the picker; it borrows the    *)
(* station that the page switched off, and hands the radio back.           *)
AskScan ==
    /\ step = "rest" /\ page /\ step' = "scan"
    /\ UNCHANGED <<driverVars, netVars, flashVars, page, for, tried, attempt,
                   counters>>

ScanBorrow ==
    /\ step = "scan" /\ step' = "scanned"
    /\ mode' = "apsta" /\ sta' = (IF sta = "off" THEN "idle" ELSE sta)
    /\ UNCHANGED <<config, posted, netVars, flashVars, page, for, tried, attempt,
                   counters>>

ScanReturn ==
    /\ step = "scanned" /\ step' = "rest"
    /\ mode' = "ap" /\ sta' = "off" /\ posted' = Dropped
    /\ UNCHANGED <<config, netVars, flashVars, page, for, tried, attempt, counters>>

-------------------------------------------------------------------------------
(* The configuration page: net_ap_start and net_ap_stop.                   *)

OpenPage ==
    /\ step = "rest" /\ ~page /\ pages < MaxPages /\ pages' = pages + 1
    /\ step' = "past" /\ for' = "page" /\ page' = TRUE
    /\ UNCHANGED <<driverVars, netVars, flashVars, tried, attempt, skipped, trials,
                   drops, resets>>

(* DropRetries came first: the link goes, the interface, and s_ap_up.      *)
RaiseAp ==
    /\ step = "raise" /\ step' = "rest"
    /\ mode' = "ap" /\ sta' = "off" /\ posted' = Dropped
    /\ apUp' = TRUE
    /\ UNCHANGED <<config, connected, failed, retry, keep, timer, fired, flashVars,
                   page, for, tried, attempt, counters>>

(* An operator is slower to close the page than the tasks that were about  *)
(* to do something when it opened.                                         *)
ClosePage ==
    /\ step = "rest" /\ page /\ ~fired /\ posted = <<>>
    /\ step' = "lower"
    /\ UNCHANGED <<driverVars, netVars, flashVars, page, for, tried, attempt,
                   counters>>

LowerAp ==
    /\ step = "lower" /\ step' = "rejoin"
    /\ apUp' = FALSE
    /\ mode' = "sta" /\ sta' = (IF sta = "off" THEN "idle" ELSE sta)
    /\ UNCHANGED <<config, posted, connected, failed, retry, keep, timer, fired,
                   flashVars, page, for, tried, attempt, counters>>

(* A station that is on a network already is left alone.                   *)
PutBack ==
    /\ step = "rejoin" /\ step' = "rest" /\ page' = FALSE
    /\ IF Linked
       THEN UNCHANGED <<sta, retry, keep>>
       ELSE sta' = Connecting(sta) /\ retry' = 0 /\ keep' = TRUE
    /\ UNCHANGED <<mode, config, posted, connected, failed, apUp, timer, fired,
                   flashVars, for, tried, attempt, counters>>

(* RAM goes; the driver keeps its credentials until they are set.          *)
Reset ==
    /\ resets < MaxResets /\ resets' = resets + 1
    /\ mode' = "sta" /\ sta' = "idle" /\ posted' = <<>>
    /\ connected' = FALSE /\ failed' = FALSE /\ retry' = 0
    /\ keep' = FALSE /\ apUp' = FALSE /\ timer' = FALSE /\ fired' = FALSE
    /\ page' = FALSE /\ step' = "begin" /\ for' = "boot" /\ attempt' = 1
    /\ tried' = Home /\ skipped' = FALSE
    /\ UNCHANGED <<config, flashVars, trials, pages, drops>>

-------------------------------------------------------------------------------
Network   == NetJoins \/ NetLeases
EventTask == HandleLost \/ HandleGot
TimerTask == TimerFires \/ Rejoin

(* The steps of a call that was begun.                                     *)
Call ==
    \/ Begin \/ Redo \/ WaitJoined \/ BootFails \/ TrialFails \/ RollBackFails
    \/ Synced \/ NotSynced \/ SaveName \/ SavePassword
    \/ DropRetries \/ DropLink \/ ScanBorrow \/ ScanReturn
    \/ RaiseAp \/ LowerAp \/ PutBack

Next ==
    \/ Network \/ NetRefuses \/ NetDrops
    \/ EventTask \/ TimerTask \/ Call
    \/ \E n \in Nets : Try(n)
    \/ AskScan \/ OpenPage \/ ClosePage \/ Reset

Fairness ==
    /\ WF_vars(Network) /\ WF_vars(NetRefuses)
    /\ WF_vars(EventTask) /\ WF_vars(TimerTask) /\ WF_vars(Call)

Spec == Init /\ [][Next]_vars /\ Fairness

-------------------------------------------------------------------------------
(* What is saved, either half of it, is of a network that was joined and   *)
(* gave the time (main.cpp:368-377: "associating proves nothing, so a      *)
(* clock sync must prove the uplink before saved credentials are           *)
(* overwritten"), whatever answers came late.                              *)
SavedIsProven == ssid \in Timed /\ pass \in Timed

(* The page is served to its access point alone: outside the calls that    *)
(* borrow the station it is on no network (net.cpp:243-247,                *)
(* main.cpp:378-382, 408-411), though a retry, a re-join or an address was *)
(* on its way when the page opened or the trial was dropped.               *)
PageOffTheLan == page /\ step \in {"rest", "scan"} => apUp /\ ~Linked

(* A network the background holds on to is a proven one (net.cpp:389-391), *)
(* also after a rejected trial and a page that was closed on it.  A pair   *)
(* of keys of two networks (Saved) is the exception, and a saved network   *)
(* that could not be read when the trial was rejected (main.cpp:392).      *)
KeepsProven ==
    keep /\ step = "rest" /\ Saved # "torn" /\ ~skipped => config \in Timed

(* With no page open, the terminal gets back on a network by itself once   *)
(* the drops are over (net.cpp:52-57, 113-127), whatever trials failed,    *)
(* joins timed out and resets came before; with the same exceptions.       *)
RejoinsByItself ==
    <>[](~page /\ Saved # "torn" /\ ~skipped)
        => <>[](step = "rest" /\ connected /\ sta = "leased")
===============================================================================
