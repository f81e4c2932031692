-------------------------------- MODULE Portal --------------------------------
(***************************************************************************)
(* The configuration page of a working terminal (PROV_MODE_ADMIN): opened  *)
(* and closed from the panel, filled in from a browser on the terminal's   *)
(* own access point, and stored only by a tap on the panel.                *)
(*                                                                         *)
(* Three tasks run: the UI task (taps, the window's deadline), the main    *)
(* task (events, the teardown, the card read, the Wi-Fi trial) and the one *)
(* HTTP task, which serves a request to its end before the next.           *)
(***************************************************************************)
EXTENDS Naturals, Sequences, FiniteSets

CONSTANTS
    Browsers, NoBrowser,     \* a browser stands for the token it was given
    EthAddrs, TronAddrs,     \* what can be proposed: payouts and contracts
    NoAddr,                  \* an empty slot
    QueueLen,                \* depth of s_ui_queue
    MaxStops,                \* bound: UI_EVENT_PROV_STOP waiting at once
    MaxSessions, MaxAsks,    \* bounds: pages opened, browsers asking to be let in
    MaxProposals, MaxReads, MaxTries,
    Upsets                   \* what is not ruled out: see UpsetKinds

Addrs == EthAddrs \cup TronAddrs

(* "reopen": Configure tapped while the main task is inside prov_stop().   *)
(* "late": the body of a Wi-Fi request comes when its window has passed.   *)
UpsetKinds == {"reopen", "late"}

ASSUME Addresses == /\ EthAddrs \cap TronAddrs = {}
                    /\ NoAddr \notin Addrs
                    /\ NoBrowser \notin Browsers

ASSUME Bounds == /\ {QueueLen, MaxStops, MaxSessions, MaxAsks,
                     MaxProposals, MaxReads, MaxTries} \subseteq Nat
                 /\ Upsets \subseteq UpsetKinds

VARIABLES
    mode,        \* s_mode
    httpd,       \* s_httpd # NULL
    running,     \* an HTTP server task is alive
    ap, sta,     \* the access point is up; the station is on a network, or joining
    window,      \* s_deadline_us: none, still open, past
    token,       \* s_token, named by its holder
    pendingAuth, \* s_auth_pending
    authed,      \* s_authed
    ask,         \* s_ask, s_ask_val
    http, body,  \* the request being served, and the value it carries
    mpc, after,  \* where the main task is; where prov_stop() returns to
    queue,       \* s_ui_queue
    restartDue,  \* restart_due
    parked,      \* card_tron
    screen,      \* s_req_screen
    dirty,       \* s_screen_dirty
    valueDirty,  \* s_addr_modal_dirty
    modal, card, \* the modal on the panel, and the value it shows
    forPortal,   \* s_admin_for_portal
    title,       \* the browser named on the code screen, as drawn
    stored,      \* the addresses in flash
    applied,     \* the addresses the dual stores were built from at boot
    opened, asks, proposals, reads, tries   \* counters for the bounds

pageVars  == <<mode, httpd, running, ap, sta, window>>
authVars  == <<token, pendingAuth, authed>>
httpVars  == <<http, body>>
mainVars  == <<mpc, after, restartDue, parked>>
panelVars == <<screen, dirty, valueDirty, modal, card, forPortal, title>>
flashVars == <<stored, applied>>
counters  == <<opened, asks, proposals, reads, tries>>

vars == <<pageVars, authVars, ask, httpVars, mainVars, queue, panelVars,
          flashVars, counters>>

Families == {"eth", "tron"}

(* Mutant: the two families' keys are mixed up.                            *)
FamilySwapped(v) == IF v \in TronAddrs THEN "eth" ELSE "tron"

Family(v) == IF v \in TronAddrs THEN "tron" ELSE "eth"

Events == {"AUTH", "VALUE", "SET", "NO", "CARD", "CARD_PIN", "CANCEL",
           "TRY", "RETRY", "STOP", "NEXT"}

Screens == {"AMOUNT", "UNLOCK", "SETTINGS", "PIN", "CARD_WAIT", "FAILED",
            "CONNECTING", "LIST", "PROV"}

(* The phases of prov_stop() after it has claimed the mode.                *)
StopPhases == {"dns", "httpd", "ap", "clear"}

Stopping == mpc \in StopPhases

PageTypeOK ==
    /\ mode \in {"off", "admin"}
    /\ httpd \in BOOLEAN /\ running \in BOOLEAN
    /\ ap \in BOOLEAN /\ sta \in BOOLEAN
    /\ window \in {"none", "open", "past"}
    /\ token \in Browsers \cup {NoBrowser}
    /\ pendingAuth \in BOOLEAN /\ authed \in BOOLEAN
    /\ http \in {"none", "body", "wifi", "upload"}
    /\ mpc \in StopPhases \cup {"idle", "read", "offer", "trial", "restart"}
    /\ after \in {"idle", "restart", "amount"}

QueueTypeOK == queue \in Seq(Events) /\ Len(queue) <= QueueLen

PanelTypeOK ==
    /\ screen \in Screens
    /\ dirty \in BOOLEAN /\ valueDirty \in BOOLEAN /\ forPortal \in BOOLEAN
    /\ modal \in {"none", "portal", "failed", "value"}
    /\ title \in Browsers \cup {NoBrowser}

(* An address in flash, or none, is of the family it is kept under.        *)
ByFamily == {s \in [Families -> Addrs \cup {NoAddr}] :
                s["eth"] \notin TronAddrs /\ s["tron"] \notin EthAddrs}

ValueTypeOK ==
    /\ {ask, body, card} \subseteq Addrs \cup {NoAddr}
    /\ parked \in TronAddrs \cup {NoAddr}
    /\ restartDue \in BOOLEAN
    /\ stored \in ByFamily /\ applied \in ByFamily

CounterTypeOK == /\ opened \in Nat /\ asks \in Nat /\ proposals \in Nat
                 /\ reads \in Nat /\ tries \in Nat

TypeOK == PageTypeOK /\ QueueTypeOK /\ PanelTypeOK /\ ValueTypeOK /\ CounterTypeOK

-------------------------------------------------------------------------------
(* What app_main finds after bring-up: no page, no proposal, the station   *)
(* on its network and the dual stores built from flash.                    *)
Fresh(addrs) ==
    /\ mode' = "off" /\ httpd' = FALSE /\ running' = FALSE
    /\ ap' = FALSE /\ sta' = TRUE /\ window' = "none"
    /\ token' = NoBrowser /\ pendingAuth' = FALSE /\ authed' = FALSE
    /\ ask' = NoAddr /\ http' = "none" /\ body' = NoAddr
    /\ mpc' = "idle" /\ after' = "idle" /\ queue' = <<>>
    /\ restartDue' = FALSE /\ parked' = NoAddr
    /\ screen' = "AMOUNT" /\ dirty' = TRUE /\ valueDirty' = FALSE
    /\ modal' = "none" /\ card' = NoAddr
    /\ forPortal' = FALSE /\ title' = NoBrowser
    /\ applied' = addrs

Init ==
    /\ mode = "off" /\ httpd = FALSE /\ running = FALSE
    /\ ap = FALSE /\ sta = TRUE /\ window = "none"
    /\ token = NoBrowser /\ pendingAuth = FALSE /\ authed = FALSE
    /\ ask = NoAddr /\ http = "none" /\ body = NoAddr
    /\ mpc = "idle" /\ after = "idle" /\ queue = <<>>
    /\ restartDue = FALSE /\ parked = NoAddr
    /\ screen = "AMOUNT" /\ dirty = TRUE /\ valueDirty = FALSE
    /\ modal = "none" /\ card = NoAddr
    /\ forPortal = FALSE /\ title = NoBrowser
    /\ stored = [f \in Families |-> NoAddr] /\ applied = stored
    /\ opened = 0 /\ asks = 0 /\ proposals = 0 /\ reads = 0 /\ tries = 0

(* xQueueSend with no wait: a full queue drops the event.                  *)
Post(q, e) == IF Len(q) < QueueLen THEN Append(q, e) ELSE q

(* Mutant: the slot is overwritten instead of refused.                     *)
ProposeOver(q, v) ==
    \/ /\ v # NoAddr
       /\ ask' = v
       /\ queue' = Post(q, "VALUE")
    \/ /\ v = NoAddr
       /\ queue' = q
       /\ UNCHANGED ask

(* prov_propose: one slot, and the first to take it keeps it.              *)
Propose(q, v) ==
    \/ /\ v # NoAddr /\ ask = NoAddr
       /\ ask' = v
       /\ queue' = Post(q, "VALUE")
    \/ /\ v = NoAddr \/ ask # NoAddr
       /\ queue' = q
       /\ UNCHANGED ask

(* request_screen: drawn on the UI task's next pass.                       *)
Request(s) == screen' = s /\ dirty' = TRUE

PanelAsWas == UNCHANGED <<valueDirty, modal, card, forPortal, title>>

-------------------------------------------------------------------------------
(* The UI task's pass, in its order: draw the screen asked for, take the   *)
(* swipe, raise the value card, look at the deadline, then the taps.       *)

(* Every drawn screen takes the modal down; the code screen is titled with *)
(* the pairing code of the moment.                                         *)
Render ==
    /\ dirty
    /\ dirty' = FALSE
    /\ modal' = "none" /\ card' = NoAddr
    /\ title' = IF screen = "UNLOCK" /\ forPortal THEN token ELSE NoBrowser
    /\ UNCHANGED <<screen, valueDirty, forPortal>>
    /\ UNCHANGED <<pageVars, authVars, ask, httpVars, mainVars, queue,
                   flashVars, counters>>

(* The card takes a copy of the slot; an empty slot raises no card.        *)
ValueCard == IF ask # NoAddr THEN modal' = "value" /\ card' = ask
                             ELSE UNCHANGED <<modal, card>>

ShowValue ==
    /\ ~dirty /\ valueDirty
    /\ valueDirty' = FALSE
    /\ ValueCard
    /\ UNCHANGED <<screen, dirty, forPortal, title>>
    /\ UNCHANGED <<pageVars, authVars, ask, httpVars, mainVars, queue,
                   flashVars, counters>>

Count(e) == Cardinality({i \in DOMAIN queue : queue[i] = e})

(* prov_window_left_min() = 0                                              *)
NoTimeLeft == ~httpd \/ window # "open"

(* Mutant: the deadline is looked at only while the portal's card is up.   *)
DeadlineDueOnCard == /\ mode = "admin" /\ NoTimeLeft /\ http # "upload"
                     /\ Count("STOP") < MaxStops
                     /\ modal = "portal"

DeadlineDue == /\ mode = "admin" /\ NoTimeLeft /\ http # "upload"
               /\ Count("STOP") < MaxStops

(* Where the main task blocks for long enough for a finger to get in. An   *)
(* idle main task takes the next event before one can.                     *)
Blocked == \/ mpc \in {"read", "trial", "dns", "httpd", "ap"}
           \/ mpc = "idle" /\ queue = <<>>

(* The taps are read last in a pass, after everything above.               *)
InputOpen == ~dirty /\ ~valueDirty /\ ~DeadlineDue /\ Blocked

(* The gesture reaches the amount screen under any modal, and is taken     *)
(* before a card that is due is raised.                                    *)
Swipe ==
    /\ ~dirty /\ screen = "AMOUNT" /\ Blocked
    /\ Request("UNLOCK")
    /\ forPortal' = FALSE
    /\ valueDirty' = FALSE
    /\ IF valueDirty THEN ValueCard ELSE UNCHANGED <<modal, card>>
    /\ UNCHANGED title
    /\ UNCHANGED <<pageVars, authVars, ask, httpVars, mainVars, queue,
                   flashVars, counters>>

DeadlineStop ==
    /\ ~dirty /\ ~valueDirty
    /\ DeadlineDue
    /\ queue' = Post(queue, "STOP")
    /\ modal' = IF modal = "portal" THEN "none" ELSE modal
    /\ UNCHANGED <<screen, dirty, valueDirty, card, forPortal, title>>
    /\ UNCHANGED <<pageVars, authVars, ask, httpVars, mainVars, flashVars,
                   counters>>

UiPass == Render \/ ShowValue \/ DeadlineStop

-------------------------------------------------------------------------------
(* Taps. A modal covers the whole screen and swallows what is under it.    *)

OnScreen(s) == InputOpen /\ modal = "none" /\ screen = s
OnCard(m)   == InputOpen /\ modal = m

(* prov_auth_resolve: nothing to do unless a browser is waiting. A grant   *)
(* is reported to a main task that has no use for it.                      *)
Resolve(grant) ==
    \/ /\ pendingAuth
       /\ pendingAuth' = FALSE
       /\ authed' = grant
       /\ token' = IF grant THEN token ELSE NoBrowser
       /\ queue' = IF grant THEN Post(queue, "NEXT") ELSE queue
    \/ /\ ~pendingAuth
       /\ UNCHANGED <<authVars, queue>>

TapUnchanged == UNCHANGED <<httpVars, mainVars>>

(* Mutant: the panel's own code screen lets a waiting browser in.          *)
EnterCodeForBoth ==
    /\ OnScreen("UNLOCK")
    /\ Request("SETTINGS")
    /\ forPortal' = FALSE
    /\ Resolve(TRUE)
    /\ UNCHANGED <<valueDirty, modal, card, title>>
    /\ UNCHANGED <<pageVars, ask, flashVars, counters>>
    /\ TapUnchanged

EnterCode ==
    /\ OnScreen("UNLOCK")
    /\ Request("SETTINGS")
    /\ forPortal' = FALSE
    /\ IF forPortal THEN Resolve(TRUE) ELSE UNCHANGED <<authVars, queue>>
    /\ UNCHANGED <<valueDirty, modal, card, title>>
    /\ UNCHANGED <<pageVars, ask, flashVars, counters>>
    /\ TapUnchanged

CancelCode ==
    /\ OnScreen("UNLOCK")
    /\ Request("AMOUNT")
    /\ forPortal' = FALSE
    /\ IF forPortal THEN Resolve(FALSE) ELSE UNCHANGED <<authVars, queue>>
    /\ UNCHANGED <<valueDirty, modal, card, title>>
    /\ UNCHANGED <<pageVars, ask, flashVars, counters>>
    /\ TapUnchanged

(* The radio refuses the access point after the station was dropped, and   *)
(* nothing joins its network again.                                        *)
ApRefused ==
    /\ sta' = FALSE
    /\ modal' = "failed"
    /\ UNCHANGED <<mode, httpd, running, ap, window>>

(* httpd_start fails, for want of memory or beside a server that still has *)
(* its port: the handle is lost and the access point goes down again.      *)
ServerRefused ==
    /\ httpd' = FALSE /\ ap' = FALSE /\ sta' = TRUE
    /\ modal' = "failed"
    /\ UNCHANGED <<mode, running, window>>

Served ==
    /\ ~running
    /\ httpd' = TRUE /\ running' = TRUE /\ ap' = TRUE /\ sta' = FALSE
    /\ mode' = "admin" /\ window' = "open"
    /\ modal' = "portal"

(* prov_start on a page that is off: a clean session, the station down, the *)
(* access point up, then the server.                                       *)
StartFromOff ==
    /\ mode = "off"
    /\ token' = NoBrowser /\ pendingAuth' = FALSE /\ authed' = FALSE
    /\ ApRefused \/ ServerRefused \/ Served

(* prov_start on a page that is up: the clock restarts.                    *)
StartAgain ==
    /\ mode = "admin"
    /\ window' = "open"
    /\ modal' = IF httpd THEN "portal" ELSE "failed"
    /\ UNCHANGED <<mode, httpd, running, ap, sta, authVars>>

Configure ==
    /\ OnScreen("SETTINGS")
    /\ Stopping => "reopen" \in Upsets
    /\ opened < MaxSessions
    /\ opened' = opened + 1
    /\ StartFromOff \/ StartAgain
    /\ UNCHANGED <<screen, dirty, valueDirty, card, forPortal, title>>
    /\ UNCHANGED <<ask, queue, flashVars, asks, proposals, reads, tries>>
    /\ TapUnchanged

Done ==
    /\ OnCard("portal")
    /\ modal' = "none"
    /\ queue' = Post(queue, "STOP")
    /\ UNCHANGED <<screen, dirty, valueDirty, card, forPortal, title>>
    /\ UNCHANGED <<pageVars, authVars, ask, flashVars, counters>>
    /\ TapUnchanged

CloseFailed ==
    /\ OnCard("failed")
    /\ modal' = "none"
    /\ UNCHANGED <<screen, dirty, valueDirty, card, forPortal, title>>
    /\ UNCHANGED <<pageVars, authVars, ask, queue, flashVars, counters>>
    /\ TapUnchanged

(* prov_pending_commit: whatever the slot holds when the tap arrives. Flash *)
(* may refuse the value; an empty slot is answered by nothing.             *)
CommitSlot(accept) ==
    \/ /\ accept /\ ask # NoAddr
       /\ stored' = [stored EXCEPT ![Family(ask)] = ask]
       /\ queue' = Post(queue, "SET")
    \/ /\ ask # NoAddr
       /\ queue' = Post(queue, "NO")
       /\ UNCHANGED stored
    \/ /\ ask = NoAddr
       /\ UNCHANGED <<stored, queue>>

Answer(accept) ==
    /\ OnCard("value")
    /\ CommitSlot(accept)
    /\ ask' = NoAddr
    /\ modal' = "none" /\ card' = NoAddr
    /\ UNCHANGED <<screen, dirty, valueDirty, forPortal, title>>
    /\ UNCHANGED <<pageVars, authVars, applied, counters>>
    /\ TapUnchanged

(* The keypad raised for a card read: its PIN, or the way back.            *)
SubmitPin ==
    /\ OnScreen("PIN")
    /\ Request("CARD_WAIT")
    /\ queue' = Post(queue, "CARD_PIN")
    /\ PanelAsWas
    /\ UNCHANGED <<pageVars, authVars, ask, flashVars, counters>>
    /\ TapUnchanged

CancelPin ==
    /\ OnScreen("PIN")
    /\ Request("PROV")
    /\ queue' = Post(queue, "CANCEL")
    /\ PanelAsWas
    /\ UNCHANGED <<pageVars, authVars, ask, flashVars, counters>>
    /\ TapUnchanged

NewSale ==
    /\ OnScreen("FAILED")
    /\ Count("RETRY") = 0
    /\ queue' = Post(queue, "RETRY")
    /\ UNCHANGED <<screen, dirty>>
    /\ PanelAsWas
    /\ UNCHANGED <<pageVars, authVars, ask, flashVars, counters>>
    /\ TapUnchanged

(* Close on the settings page, Cancel on the network list.                 *)
BackToAmount ==
    /\ OnScreen("SETTINGS") \/ OnScreen("LIST")
    /\ Request("AMOUNT")
    /\ PanelAsWas
    /\ UNCHANGED <<pageVars, authVars, ask, queue, flashVars, counters>>
    /\ TapUnchanged

Tap == \/ EnterCode \/ CancelCode \/ Configure \/ Done \/ CloseFailed
       \/ \E accept \in BOOLEAN : Answer(accept)
       \/ SubmitPin \/ CancelPin \/ NewSale \/ BackToAmount

-------------------------------------------------------------------------------
(* The HTTP task.                                                          *)

HttpUnchanged == UNCHANGED <<pageVars, mainVars, panelVars, flashVars>>

Free == running /\ http = "none"

(* auth_post: a token is minted for the first to ask, and only for it.     *)
AuthPost(b) ==
    /\ Free /\ asks < MaxAsks
    /\ window # "past" /\ ~authed /\ ~pendingAuth
    /\ token' = b
    /\ pendingAuth' = TRUE
    /\ queue' = Post(queue, "AUTH")
    /\ asks' = asks + 1
    /\ UNCHANGED <<authed, ask, httpVars, opened, proposals, reads, tries>>
    /\ HttpUnchanged

(* gate: a deadline of zero has not passed, as expired() has it.           *)
Gate(b) == Free /\ window # "past" /\ authed /\ token = b

(* value_post passes the gate, waits for the body and only then proposes.  *)
ValuePost(b, v) ==
    /\ Gate(b) /\ proposals < MaxProposals
    /\ http' = "body" /\ body' = v
    /\ proposals' = proposals + 1
    /\ UNCHANGED <<authVars, ask, queue, opened, asks, reads, tries>>
    /\ HttpUnchanged

BodyReceived ==
    /\ http = "body"
    /\ Propose(queue, body)
    /\ http' = "none" /\ body' = NoAddr
    /\ UNCHANGED <<authVars, counters>>
    /\ HttpUnchanged

BodyFails ==
    /\ http \in {"body", "wifi"}
    /\ http' = "none" /\ body' = NoAddr
    /\ UNCHANGED <<authVars, ask, queue, counters>>
    /\ HttpUnchanged

CardPost(b) ==
    /\ Gate(b) /\ reads < MaxReads
    /\ reads' = reads + 1
    /\ queue' = Post(queue, "CARD")
    /\ UNCHANGED <<authVars, ask, httpVars, opened, asks, proposals, tries>>
    /\ HttpUnchanged

(* wifi_post waits for its body in the same way, and asks for the trial.   *)
WifiPost(b) ==
    /\ Gate(b) /\ tries < MaxTries
    /\ tries' = tries + 1
    /\ http' = "wifi"
    /\ UNCHANGED <<body, authVars, ask, queue, opened, asks, proposals, reads>>
    /\ HttpUnchanged

WifiReceived ==
    /\ http = "wifi"
    /\ window = "past" => "late" \in Upsets
    /\ queue' = Post(queue, "TRY")
    /\ http' = "none"
    /\ UNCHANGED <<body, authVars, ask, counters>>
    /\ HttpUnchanged

(* A firmware image on its way in holds the one server for minutes.        *)
OtaPost(b) ==
    /\ Gate(b)
    /\ http' = "upload"
    /\ UNCHANGED <<body, authVars, ask, queue, counters>>
    /\ HttpUnchanged

UploadEnds ==
    /\ http = "upload"
    /\ http' = "none"
    /\ UNCHANGED <<body, authVars, ask, queue, counters>>
    /\ HttpUnchanged

ApiCall == \E b \in Browsers : \/ AuthPost(b) \/ CardPost(b) \/ WifiPost(b)
                                \/ OtaPost(b)
                                \/ \E v \in Addrs : ValuePost(b, v)

HttpStep == ApiCall \/ BodyReceived \/ WifiReceived \/ BodyFails \/ UploadEnds

(* Fifteen minutes go by.                                                  *)
WindowPasses ==
    /\ window = "open"
    /\ window' = "past"
    /\ UNCHANGED <<mode, httpd, running, ap, sta, authVars, ask, httpVars,
                   mainVars, queue, panelVars, flashVars, counters>>

-------------------------------------------------------------------------------
(* The main task.                                                          *)

Take(e) == mpc = "idle" /\ queue # <<>> /\ Head(queue) = e

MainUnchanged == UNCHANGED <<httpVars, flashVars, counters>>

PageAsWas == UNCHANGED <<pageVars, authVars, ask>>

(* prov_stop claims the mode with an exchange; the loser returns at once.  *)
ClaimStop(then) ==
    /\ mode # "off"
    /\ mode' = "off"
    /\ mpc' = "dns" /\ after' = then
    /\ UNCHANGED <<httpd, running, ap, sta, window, authVars, ask>>

HandleAuth ==
    /\ Take("AUTH")
    /\ queue' = Tail(queue)
    /\ Request("UNLOCK")
    /\ forPortal' = TRUE
    /\ UNCHANGED <<valueDirty, modal, card, title, mainVars>>
    /\ PageAsWas /\ MainUnchanged

HandleValue ==
    /\ Take("VALUE")
    /\ queue' = Tail(queue)
    /\ valueDirty' = TRUE
    /\ UNCHANGED <<screen, dirty, modal, card, forPortal, title, mainVars>>
    /\ PageAsWas /\ MainUnchanged

(* A value was answered: offer the parked one, else restart if one is due. *)
HandleAnswer(e) ==
    /\ e \in {"SET", "NO"} /\ Take(e)
    /\ restartDue' = (restartDue \/ e = "SET")
    /\ \/ /\ parked # NoAddr
          /\ Propose(Tail(queue), parked)
          /\ parked' = NoAddr
          /\ UNCHANGED <<mpc, after, pageVars, authVars>>
       \/ /\ parked = NoAddr /\ ~restartDue'
          /\ queue' = Tail(queue)
          /\ UNCHANGED <<parked, mpc, after>> /\ PageAsWas
       \/ /\ parked = NoAddr /\ restartDue'
          /\ queue' = Tail(queue)
          /\ UNCHANGED parked
          /\ \/ ClaimStop("restart")
             \/ mode = "off" /\ mpc' = "restart" /\ UNCHANGED after /\ PageAsWas
    /\ UNCHANGED panelVars
    /\ MainUnchanged

HandleCard ==
    /\ Take("CARD")
    /\ queue' = Tail(queue)
    /\ Request("PIN")
    /\ PanelAsWas
    /\ UNCHANGED mainVars
    /\ PageAsWas /\ MainUnchanged

HandleCardPin ==
    /\ Take("CARD_PIN")
    /\ queue' = Tail(queue)
    /\ mpc' = "read"
    /\ UNCHANGED <<after, restartDue, parked, panelVars>>
    /\ PageAsWas /\ MainUnchanged

ReadFails ==
    /\ mpc = "read"
    /\ mpc' = "idle"
    /\ Request("FAILED")
    /\ PanelAsWas
    /\ UNCHANGED <<after, restartDue, parked, queue>>
    /\ PageAsWas /\ MainUnchanged

(* The amount screen is asked for first: a value card left on the panel    *)
(* goes with it before the slot takes an address of the card.              *)
ReadDone ==
    /\ mpc = "read"
    /\ mpc' = "offer"
    /\ Request("AMOUNT")
    /\ PanelAsWas
    /\ UNCHANGED <<after, restartDue, parked, queue>>
    /\ PageAsWas /\ MainUnchanged

(* Ethereum first, Tron parked behind it; or whichever there is.           *)
Offer ==
    /\ mpc = "offer"
    /\ mpc' = "idle"
    /\ \E e \in EthAddrs \cup {NoAddr}, t \in TronAddrs \cup {NoAddr} :
          /\ Propose(queue, IF e # NoAddr THEN e ELSE t)
          /\ parked' = IF e # NoAddr THEN t ELSE NoAddr
    /\ UNCHANGED <<after, restartDue, panelVars, pageVars, authVars>>
    /\ MainUnchanged

(* UI_EVENT_CONFIRM_CANCEL and UI_EVENT_TX_RETRY.                          *)
HandleBack(e) ==
    /\ e \in {"CANCEL", "RETRY"} /\ Take(e)
    /\ queue' = Tail(queue)
    /\ Request("AMOUNT")
    /\ PanelAsWas
    /\ UNCHANGED mainVars
    /\ PageAsWas /\ MainUnchanged

(* New credentials are tried with the page still up: the station comes on. *)
HandleTry ==
    /\ Take("TRY")
    /\ queue' = Tail(queue)
    /\ mpc' = "trial"
    /\ sta' = TRUE
    /\ Request("CONNECTING")
    /\ PanelAsWas
    /\ UNCHANGED <<mode, httpd, running, ap, window, authVars, ask, after,
                   restartDue, parked>>
    /\ MainUnchanged

(* The grant of a page that is no wizard's: app_main's default case.       *)
HandleNext ==
    /\ Take("NEXT")
    /\ queue' = Tail(queue)
    /\ PageAsWas
    /\ UNCHANGED <<mainVars, panelVars>>
    /\ MainUnchanged

(* Joined and the clock answered: saved, and the page is closed.           *)
TryKept ==
    /\ mpc = "trial"
    /\ \/ ClaimStop("amount") /\ UNCHANGED <<screen, dirty>>
       \/ /\ mode = "off" /\ mpc' = "idle" /\ Request("AMOUNT")
          /\ UNCHANGED after /\ PageAsWas
    /\ PanelAsWas
    /\ UNCHANGED <<restartDue, parked, queue>>
    /\ MainUnchanged

(* Mutant: the station is left on the network it rolled back to.           *)
TryDroppedJoined ==
    /\ mpc = "trial"
    /\ mpc' = "idle"
    /\ Request("LIST")
    /\ PanelAsWas
    /\ UNCHANGED <<pageVars, authVars, ask, after, restartDue, parked, queue>>
    /\ MainUnchanged

(* Refused: back to the saved network, and off the air again if the page   *)
(* is still served.                                                        *)
TryDropped ==
    /\ mpc = "trial"
    /\ mpc' = "idle"
    /\ sta' = (mode = "off")
    /\ Request("LIST")
    /\ PanelAsWas
    /\ UNCHANGED <<mode, httpd, running, ap, window, authVars, ask, after,
                   restartDue, parked, queue>>
    /\ MainUnchanged

HandleStop ==
    /\ Take("STOP")
    /\ queue' = Tail(queue)
    /\ \/ ClaimStop("idle")
       \/ mode = "off" /\ UNCHANGED <<mpc, after>> /\ PageAsWas
    /\ UNCHANGED <<restartDue, parked, panelVars>>
    /\ MainUnchanged

-------------------------------------------------------------------------------
(* prov_stop, once the mode is claimed.                                    *)

StopUnchanged == UNCHANGED <<after, restartDue, parked, queue>>

DnsGone ==
    /\ mpc = "dns" /\ mpc' = "httpd"
    /\ UNCHANGED panelVars /\ PageAsWas /\ MainUnchanged /\ StopUnchanged

(* httpd_stop waits for the request being served; no handle, no stop.      *)
ServerStops ==
    /\ mpc = "httpd" /\ mpc' = "ap"
    /\ httpd => http = "none"
    /\ running' = (running /\ ~httpd)
    /\ httpd' = FALSE
    /\ UNCHANGED <<mode, ap, sta, window, authVars, ask, panelVars>>
    /\ MainUnchanged /\ StopUnchanged

(* net_ap_stop: the access point down, the displaced network joined again. *)
ApDown ==
    /\ mpc = "ap" /\ mpc' = "clear"
    /\ ap' = FALSE /\ sta' = TRUE
    /\ UNCHANGED <<mode, httpd, running, window, authVars, ask, panelVars>>
    /\ MainUnchanged /\ StopUnchanged

(* Mutant: the session outlives the page.                                  *)
ClearKeepsSession ==
    /\ mpc = "clear"
    /\ ask' = NoAddr
    /\ window' = "none"
    /\ mpc' = IF after = "restart" THEN "restart" ELSE "idle"
    /\ IF after = "amount" THEN Request("AMOUNT") ELSE UNCHANGED <<screen, dirty>>
    /\ PanelAsWas
    /\ UNCHANGED <<mode, httpd, running, ap, sta, authVars>>
    /\ MainUnchanged /\ StopUnchanged

(* The session, the proposal and the deadline go last.                     *)
ClearSession ==
    /\ mpc = "clear"
    /\ authed' = FALSE /\ pendingAuth' = FALSE /\ token' = NoBrowser
    /\ ask' = NoAddr
    /\ window' = "none"
    /\ mpc' = IF after = "restart" THEN "restart" ELSE "idle"
    /\ IF after = "amount" THEN Request("AMOUNT") ELSE UNCHANGED <<screen, dirty>>
    /\ PanelAsWas
    /\ UNCHANGED <<mode, httpd, running, ap, sta>>
    /\ MainUnchanged /\ StopUnchanged

Stop == DnsGone \/ ServerStops \/ ApDown \/ ClearSession

(* esp_restart after an accepted value; and the task watchdog, which the   *)
(* wait for a slow request does not feed.                                  *)
Restart ==
    /\ \/ mpc = "restart"
       \/ mpc = "httpd" /\ httpd /\ http # "none"
    /\ Fresh(stored)
    /\ UNCHANGED <<stored, counters>>

MainStep == \/ HandleAuth \/ HandleValue \/ HandleCard \/ HandleCardPin
            \/ HandleTry \/ HandleStop \/ HandleNext
            \/ \E e \in Events : HandleAnswer(e) \/ HandleBack(e)
            \/ ReadFails \/ ReadDone \/ Offer
            \/ TryKept \/ TryDropped
            \/ Stop \/ Restart

Next == UiPass \/ Swipe \/ Tap \/ HttpStep \/ WindowPasses \/ MainStep

(* The UI and main tasks are scheduled. A handler's body is waited for     *)
(* without bound; an upload gives up after four silent receives.           *)
Spec == /\ Init /\ [][Next]_vars
        /\ WF_vars(MainStep) /\ WF_vars(UiPass) /\ WF_vars(UploadEnds)

-------------------------------------------------------------------------------
(* Nothing is stored but what the panel showed: a value enters flash only  *)
(* by a tap on the card that shows that very value. prov_pending_commit    *)
(* takes the slot, not the card, and the slot has three writers.           *)
StoredWasShown ==
    [][\A f \in Families : stored'[f] # stored[f] =>
          modal = "value" /\ stored'[f] = card]_vars

(* A browser is let in only from the code screen raised for a browser,     *)
(* never from the panel's own, and never under another one's pairing code. *)
(* (An AUTH event left over from a page that was closed draws the screen   *)
(* with no code at all.)                                                   *)
GrantedWasNamed ==
    [][~authed /\ authed' => /\ screen = "UNLOCK" /\ forPortal
                             /\ title \in {token', NoBrowser}]_vars

(* The page is never served on the venue's network, but for the trial of   *)
(* new credentials and the stop that follows a good one.                   *)
ServedOnApOnly ==
    running /\ sta => \/ mpc = "trial"
                      \/ after = "amount" /\ mpc \in {"dns", "httpd"}

(* A page that is off is down: no server, no access point, nobody let in,  *)
(* once the teardown is over.                                              *)
OffIsDown == mode = "off" /\ ~Stopping => ~running /\ ~ap /\ ~authed

(* A page past its window comes down by itself, unless it is reopened,     *)
(* whichever screen the panel is on.                                       *)
WindowCloses == running /\ window = "past" ~> ~running \/ window = "open"

(* What was accepted is in force once nothing is left to happen: no event, *)
(* no proposal, no page.                                                   *)
AcceptedIsInForce ==
    mpc = "idle" /\ queue = <<>> /\ mode = "off" /\ ask = NoAddr
        => stored = applied
===============================================================================
