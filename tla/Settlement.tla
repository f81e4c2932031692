----------------------------- MODULE Settlement -----------------------------
(***************************************************************************)
(* A sale on the terminal, from the Charge button to the verdict on the    *)
(* panel: the UI task's buttons, the queue between the two tasks, the main *)
(* task's event handlers (app_main), the card exchange, the signature, the *)
(* record in flash, the broadcast, the receipt poll, and a reset anywhere. *)
(*                                                                         *)
(* pc is where the main task is; every place it blocks on the network, the *)
(* card or a timer, and every place a reset would tell apart, is a value:  *)
(*                                                                         *)
(*  idle      waiting in xQueueReceive                                     *)
(*  amount    UI_EVENT_AMOUNT_CONFIRMED, in the decimals read              *)
(*  prepare   UI_EVENT_PIN_ENTERED taken up, before the reader is on       *)
(*  card      top of card_connect's loop, where Cancel is read             *)
(*  listen    inListPassiveTarget                                          *)
(*  channel   a card answered, the secure channel is coming up             *)
(*  checks    PIN, account, balance, nonce or createtransaction            *)
(*  sign      card_sign                                                    *)
(*  lastcheck signature in hand, Cancel read for the last time             *)
(*  persist   inflight_persist                                             *)
(*  send      the broadcast request leaves                                 *)
(*  answer    waiting for the node's answer to it                          *)
(*  refused   back in app_main with BCAST_FAILED                           *)
(*  poll      settle_inflight, in the receipt poll                         *)
(*  close     a final answer is in hand, the record still stands           *)
(*  verdict   the record is gone, the panel does not show the verdict yet  *)
(*  boot      after a reset, before settings_inflight_load                 *)
(***************************************************************************)
EXTENDS Chain, Sequences

CONSTANTS QueueLen,     \* s_ui_queue's length (8 in boot.cpp)
          PollRounds,   \* bound: rounds of a loop that runs until a deadline
          MaxResets,    \* bound: resets in one behaviour
          Families,     \* payment families on sale: TRUE is Tron, FALSE EVM
          Upsets        \* what may also happen, a subset of UpsetKinds

(* "save"  the flash refuses the record (settings_inflight_save is FALSE)  *)
(* "flip"  a bit of the decided amount or the recipient flips in RAM       *)
(* "early" the expiry check fires on a transaction that can still land     *)
(* "rearm" an asset is picked while main is still taking up a charge       *)
UpsetKinds == {"save", "flip", "early", "rearm"}

ASSUME SettlementAssumption == /\ QueueLen \in Nat \ {0}
                               /\ PollRounds \in Nat \ {0}
                               /\ MaxResets \in Nat
                               /\ Families \subseteq BOOLEAN
                               /\ Families # {}
                               /\ Upsets \subseteq UpsetKinds

VARIABLES
    pc,         \* main task: where it is
    round,      \* main task: rounds of the loop it is in
    rc,         \* main task: the receipt poll's answer
    pending,    \* main task: pending_amount, as the sale it belongs to; 0 is 0
    fl,         \* main task: s_inflight
    cancelled,  \* s_user_cancelled
    queue,      \* s_ui_queue
    screen,     \* s_req_screen, with s_tx_state for the transaction screen
    busy,       \* s_charge_busy
    tronPick,   \* the selected asset's family, kept in flash
    nvs,        \* the in-flight record in flash, 0 when there is none
    started,    \* history: sales main has taken up
    charges,    \* history: taps on Charge
    resets,     \* history: resets
    told,       \* history: verdicts the panel has shown, per sale
    sigs,       \* history: card signatures, per sale
    stopped,    \* history: sales stopped with Cancel on the card screen
    over        \* history: <<s, t>> when t was built while s was loose
mainVars == <<pc, round, rc, pending, fl>>
uiVars   == <<screen, busy, tronPick, charges>>
history  == <<told, sigs, stopped, over>>
vars == <<chainVars, mainVars, uiVars, history,
          cancelled, queue, nvs, started, resets>>

Pcs == {"boot", "idle", "amount", "prepare", "card", "listen", "channel",
        "checks", "sign", "lastcheck", "persist", "send", "answer",
        "refused", "poll", "close", "verdict"}

(* Where a sale is between UI_EVENT_PIN_ENTERED and its broadcast. *)
Unsent == {"prepare", "card", "listen", "channel", "checks", "sign",
           "lastcheck", "persist", "send"}

Events == {"AMOUNT_CONFIRMED", "CONFIRM_CANCEL", "PIN_ENTERED",
           "TX_RECHECK", "TX_RETRY"}

Screens == {"SPLASH", "AMOUNT", "CONFIRM", "PIN", "PLACE_CARD", "PROCESSING",
            "SIGNING", "SENDING", "CONFIRMING", "DONE", "FAILED",
            "UNCONFIRMED"}

Verdicts == {"approved", "declined", "cleared"}

SaleIds == Sales \cup {0}

MainTypeOK == /\ pc \in Pcs
              /\ round \in 0 .. PollRounds
              /\ rc \in {"none", "success", "reverted", "expired"}
              /\ pending \in SaleIds
              /\ fl \in [sale : SaleIds, active : BOOLEAN]

UiTypeOK == /\ screen \in Screens
            /\ busy \in BOOLEAN
            /\ tronPick \in BOOLEAN
            /\ charges \in SaleIds

HistoryTypeOK == /\ told \in [Sales -> SUBSET Verdicts]
                 /\ sigs \in [Sales -> Nat]
                 /\ stopped \in SUBSET Sales
                 /\ over \in SUBSET (Sales \X Sales)

TypeOK == /\ ChainTypeOK
          /\ MainTypeOK
          /\ UiTypeOK
          /\ HistoryTypeOK
          /\ cancelled \in BOOLEAN
          /\ queue \in Seq(Events) /\ Len(queue) <= QueueLen
          /\ nvs \in SaleIds
          /\ started \in SaleIds
          /\ resets \in 0 .. MaxResets

Init == /\ ChainInit
        /\ pc = "boot" /\ round = 0 /\ rc = "none" /\ pending = 0
        /\ fl = [sale |-> 0, active |-> FALSE]
        /\ cancelled = FALSE /\ queue = <<>> /\ nvs = 0
        /\ screen = "SPLASH" /\ busy = FALSE /\ tronPick \in Families
        /\ started = 0 /\ charges = 0 /\ resets = 0
        /\ told = [s \in Sales |-> {}]
        /\ sigs = [s \in Sales |-> 0]
        /\ stopped = {} /\ over = {}

-----------------------------------------------------------------------------
(***************************************************************************)
(* Pieces the handlers share.                                              *)
(***************************************************************************)

(* request_screen: the old screen's buttons are gone with it, and so is    *)
(* the busy flag of its Charge button (render clears it).                  *)
Show(scr) == /\ screen' = scr
             /\ busy' = FALSE
             /\ UNCHANGED <<tronPick, charges>>

(* The same, where the code asks `if (!s_user_cancelled)` first. *)
ShowUnlessCancelled(scr) == IF cancelled THEN UNCHANGED uiVars ELSE Show(scr)

(* Bug: the event is queued without looking at the queue's length. *)
PostUnbounded(e) == queue' = Append(queue, e)

(* xQueueSend with a zero timeout: a full queue drops the event. *)
Post(e) == queue' = IF Len(queue) < QueueLen THEN Append(queue, e) ELSE queue

(* app_main's xQueueReceive. *)
Take(e) == /\ pc = "idle"
           /\ queue # <<>>
           /\ Head(queue) = e
           /\ queue' = Tail(queue)

Tell(s, v) == told' = [told EXCEPT ![s] = @ \cup {v}]

Goto(p) == pc' = p /\ UNCHANGED <<round, rc, pending, fl>>

-----------------------------------------------------------------------------
(***************************************************************************)
(* The UI task.  A tap lands on the screen last requested: both the render *)
(* and the callbacks run under the UI lock.                                *)
(***************************************************************************)

(* Every screen starts deaf for 450 or 900 ms, and an idle main task takes *)
(* a queued event within one tick, so no finger gets between the two.      *)
InputOpen == queue # <<>> => pc # "idle"

(* ACT_CONFIRM: the button goes deaf before the event is sent. *)
TapCharge ==
    /\ InputOpen /\ screen = "AMOUNT" /\ ~busy
    /\ charges < MaxSales
    /\ charges' = charges + 1
    /\ busy' = TRUE
    /\ Post("AMOUNT_CONFIRMED")
    /\ UNCHANGED <<chainVars, mainVars, history, cancelled, nvs, started,
                   resets, screen, tronPick>>

(* An asset picked from the amount screen: the screen is rebuilt, and its  *)
(* Charge button with it.                                                  *)
Pick(tr) ==
    /\ InputOpen /\ screen = "AMOUNT"
    /\ tronPick' = tr
    /\ busy' = FALSE
    /\ UNCHANGED <<chainVars, mainVars, history, cancelled, queue, nvs,
                   started, resets, screen, charges>>

PickAsset(tr) == ~busy /\ Pick(tr)

(* The picker is live while main answers a charge: the same pick then arms *)
(* Charge a second time.                                                   *)
PickRearmsCharge(tr) == "rearm" \in Upsets /\ busy /\ Pick(tr)

(* ACT_SEND, the digits and the keypad's OK, and the keypad's way back. *)
TapSend ==
    /\ InputOpen /\ screen = "CONFIRM"
    /\ Show("PIN")
    /\ UNCHANGED <<chainVars, mainVars, history, cancelled, queue, nvs,
                   started, resets>>

PinCancel ==
    /\ InputOpen /\ screen = "PIN"
    /\ Show("CONFIRM")
    /\ UNCHANGED <<chainVars, mainVars, history, cancelled, queue, nvs,
                   started, resets>>

PinSubmit ==
    /\ InputOpen /\ screen = "PIN"
    /\ Show("PLACE_CARD")
    /\ Post("PIN_ENTERED")
    /\ UNCHANGED <<chainVars, mainVars, history, cancelled, nvs, started,
                   resets>>

(* ACT_CANCEL, on the confirm and on the card screen: the flag is up       *)
(* before the event is queued, whether or not it fits.                     *)
TapCancel ==
    /\ InputOpen /\ screen \in {"CONFIRM", "PLACE_CARD"}
    /\ cancelled' = TRUE
    /\ Post("CONFIRM_CANCEL")
    /\ stopped' = IF screen = "PLACE_CARD" /\ pc \in Unsent
                    THEN stopped \cup {fl.sale}
                    ELSE stopped
    /\ UNCHANGED <<chainVars, mainVars, uiVars, told, sigs, over, nvs,
                   started, resets>>

(* ACT_NEW: "New sale" on a verdict, "Clear" on Unconfirmed. *)
TapNew ==
    /\ InputOpen /\ screen \in {"DONE", "FAILED", "UNCONFIRMED"}
    /\ Post("TX_RETRY")
    /\ UNCHANGED <<chainVars, mainVars, uiVars, history, cancelled, nvs,
                   started, resets>>

TapRecheck ==
    /\ InputOpen /\ screen = "UNCONFIRMED"
    /\ Post("TX_RECHECK")
    /\ UNCHANGED <<chainVars, mainVars, uiVars, history, cancelled, nvs,
                   started, resets>>

UiStep == \/ TapCharge
          \/ \E tr \in Families : PickAsset(tr) \/ PickRearmsCharge(tr)
          \/ TapSend \/ PinCancel \/ PinSubmit
          \/ TapCancel \/ TapNew \/ TapRecheck

-----------------------------------------------------------------------------
(***************************************************************************)
(* The main task: one queued event at a time.                              *)
(***************************************************************************)

(* UI_EVENT_AMOUNT_CONFIRMED up to the decimals read, which blocks. *)
HandleAmount ==
    /\ Take("AMOUNT_CONFIRMED")
    /\ started < MaxSales
    /\ started' = started + 1
    /\ pending' = started + 1
    /\ pc' = "amount"
    /\ UNCHANGED <<chainVars, round, rc, fl, uiVars, history, cancelled, nvs,
                   resets>>

(* Bug: a refusal that is only logged. *)
AmountRefusedUnseen ==
    /\ pc = "amount"
    /\ Tell(pending, "declined")
    /\ pending' = 0
    /\ pc' = "idle"
    /\ UNCHANGED <<chainVars, round, rc, fl, uiVars, sigs, stopped, over,
                   cancelled, queue, nvs, started, resets>>

(* Offline, no clock, no payout, bad token, decimals or reconcile. *)
AmountRefused ==
    /\ pc = "amount"
    /\ Show("FAILED")
    /\ Tell(pending, "declined")
    /\ pending' = 0
    /\ pc' = "idle"
    /\ UNCHANGED <<chainVars, round, rc, fl, sigs, stopped, over, cancelled,
                   queue, nvs, started, resets>>

AmountShown ==
    /\ pc = "amount"
    /\ Show("CONFIRM")
    /\ Goto("idle")
    /\ UNCHANGED <<chainVars, history, cancelled, queue, nvs, started,
                   resets>>

(* UI_EVENT_CONFIRM_CANCEL: the pending amount is left as it is. *)
HandleCancel ==
    /\ Take("CONFIRM_CANCEL")
    /\ Show("AMOUNT")
    /\ UNCHANGED <<chainVars, mainVars, history, cancelled, nvs, started,
                   resets>>

(* UI_EVENT_PIN_ENTERED with nothing pending is dropped. *)
HandleStalePin ==
    /\ Take("PIN_ENTERED")
    /\ pending = 0
    /\ UNCHANGED <<chainVars, mainVars, uiVars, history, cancelled, nvs,
                   started, resets>>

(* Otherwise the flag is lowered and s_inflight starts anew. *)
HandlePin ==
    /\ Take("PIN_ENTERED")
    /\ pending # 0
    /\ cancelled' = FALSE
    /\ fl' = [sale |-> pending, active |-> FALSE]
    /\ pc' = "prepare"
    /\ UNCHANGED <<chainVars, round, rc, pending, uiVars, history, nvs,
                   started, resets>>

(* settle_inflight's opening. *)
StartPoll(s) ==
    /\ Show("CONFIRMING")
    /\ fl' = [sale |-> s, active |-> TRUE]
    /\ round' = 0
    /\ rc' = "none"
    /\ pc' = "poll"

HandleRecheck ==
    /\ Take("TX_RECHECK")
    /\ IF fl.active
          THEN StartPoll(fl.sale) /\ UNCHANGED pending
          ELSE Show("AMOUNT") /\ UNCHANGED mainVars
    /\ UNCHANGED <<chainVars, history, cancelled, nvs, started, resets>>

(* Bug: New sale leaves s_inflight.active up. *)
HandleRetryStaysActive ==
    /\ Take("TX_RETRY")
    /\ IF fl.active THEN Tell(fl.sale, "cleared") ELSE UNCHANGED told
    /\ nvs' = 0
    /\ Show("AMOUNT")
    /\ UNCHANGED <<chainVars, mainVars, sigs, stopped, over, cancelled,
                   started, resets>>

(* UI_EVENT_TX_RETRY: the record goes, whatever became of the sale. *)
HandleRetry ==
    /\ Take("TX_RETRY")
    /\ IF fl.active THEN Tell(fl.sale, "cleared") ELSE UNCHANGED told
    /\ fl' = [fl EXCEPT !.active = FALSE]
    /\ nvs' = 0
    /\ Show("AMOUNT")
    /\ UNCHANGED <<chainVars, pc, round, rc, pending, sigs, stopped, over,
                   cancelled, started, resets>>

-----------------------------------------------------------------------------
(***************************************************************************)
(* pay_sign_and_broadcast.                                                 *)
(***************************************************************************)

(* Nothing a refusal before the broadcast leaves behind but err_out. *)
Refuse(from) ==
    /\ pc = from
    /\ Goto("refused")
    /\ UNCHANGED <<chainVars, uiVars, history, cancelled, queue, nvs, started,
                   resets>>

(* Decimals, token, endpoint and reconcile pass: the reader comes on. *)
ConnectReader ==
    /\ pc = "prepare"
    /\ tron' = [tron EXCEPT ![fl.sale] = tronPick]
    /\ ShowUnlessCancelled("PLACE_CARD")
    /\ round' = 0
    /\ pc' = "card"
    /\ UNCHANGED <<tx, card, nonce, rc, pending, fl, history, cancelled,
                   queue, nvs, started, resets>>

CardWait ==
    /\ pc = "card"
    /\ ~cancelled
    /\ round < PollRounds
    /\ Goto("listen")
    /\ UNCHANGED <<chainVars, uiVars, history, cancelled, queue, nvs, started,
                   resets>>

CardCancelled == cancelled /\ Refuse("card")

CardTimeout == round > 0 /\ Refuse("card")

NoCard ==
    /\ pc = "listen"
    /\ round' = round + 1
    /\ pc' = "card"
    /\ UNCHANGED <<chainVars, rc, pending, fl, uiVars, history, cancelled,
                   queue, nvs, started, resets>>

(* Shown whatever the flag says: Cancel is off the panel from here on. *)
CardFound ==
    /\ pc = "listen"
    /\ Show("PROCESSING")
    /\ Goto("channel")
    /\ UNCHANGED <<chainVars, history, cancelled, queue, nvs, started,
                   resets>>

CardPulled ==
    /\ pc = "channel"
    /\ ShowUnlessCancelled("PLACE_CARD")
    /\ round' = round + 1
    /\ pc' = "card"
    /\ UNCHANGED <<chainVars, rc, pending, fl, history, cancelled, queue, nvs,
                   started, resets>>

CardReady ==
    /\ pc = "channel"
    /\ ShowUnlessCancelled("SIGNING")
    /\ Goto("checks")
    /\ UNCHANGED <<chainVars, history, cancelled, queue, nvs, started,
                   resets>>

(* Bug: the nonce read counts what is only pending. *)
BuildOnPending(c) ==
    LET s == fl.sale
        older(t) == t # s /\ Loose(t) /\ card[t] = c /\ tron[t] = tron[s]
        waiting == {t \in Sales : older(t)}
    IN /\ pc = "checks"
       /\ card' = [card EXCEPT ![s] = c]
       /\ nonce' = [nonce EXCEPT ![s] = LatestCount(c) + Cardinality(waiting)]
       /\ over' = over \cup {<<t, s>> : t \in waiting}
       /\ Goto("sign")
       /\ UNCHANGED <<tx, tron, uiVars, told, sigs, stopped, cancelled, queue,
                      nvs, started, resets>>

(* PIN, key, balance, then the nonce or the transaction Tron builds. *)
Build(c) ==
    LET s == fl.sale
        older(t) == t # s /\ Loose(t) /\ card[t] = c /\ tron[t] = tron[s]
    IN /\ pc = "checks"
       /\ card' = [card EXCEPT ![s] = c]
       /\ nonce' = [nonce EXCEPT ![s] = LatestCount(c)]
       /\ over' = over \cup {<<t, s>> : t \in {t \in Sales : older(t)}}
       /\ Goto("sign")
       /\ UNCHANGED <<tx, tron, uiVars, told, sigs, stopped, cancelled, queue,
                      nvs, started, resets>>

Sign ==
    /\ pc = "sign"
    /\ tx' = [tx EXCEPT ![fl.sale] = "signed"]
    /\ sigs' = [sigs EXCEPT ![fl.sale] = @ + 1]
    /\ ShowUnlessCancelled("SENDING")
    /\ Goto("lastcheck")
    /\ UNCHANGED <<tron, card, nonce, told, stopped, over, cancelled, queue,
                   nvs, started, resets>>

(* Bug: no look at the flag between the signature and the broadcast. *)
NoLastCheck ==
    /\ pc = "lastcheck"
    /\ Goto("persist")
    /\ UNCHANGED <<chainVars, uiVars, history, cancelled, queue, nvs, started,
                   resets>>

LastCheck ==
    /\ pc = "lastcheck"
    /\ Goto(IF cancelled THEN "refused" ELSE "persist")
    /\ UNCHANGED <<chainVars, uiVars, history, cancelled, queue, nvs, started,
                   resets>>

(* inflight_persist: the result of the write is not looked at. *)
Persist ==
    /\ pc = "persist"
    /\ nvs' = fl.sale
    /\ Goto("send")
    /\ UNCHANGED <<chainVars, uiVars, history, cancelled, queue, started,
                   resets>>

PersistFails ==
    /\ "save" \in Upsets
    /\ pc = "persist"
    /\ Goto("send")
    /\ UNCHANGED <<chainVars, uiVars, history, cancelled, queue, nvs, started,
                   resets>>

(* The signed bytes leave.  Tron's two attempts carry one txID and differ  *)
(* in a byte no chain rule sees: one transaction, and one message here.    *)
Send ==
    /\ pc = "send"
    /\ tx' = [tx EXCEPT ![fl.sale] = "wire"]
    /\ Goto("answer")
    /\ UNCHANGED <<tron, card, nonce, uiVars, history, cancelled, queue, nvs,
                   started, resets>>

(* BCAST_SENT or BCAST_UNKNOWN: the chain settles it from here.  UNKNOWN   *)
(* needs no cause the till can see, so there is no guard on tx.            *)
AnswerOrSilence ==
    /\ pc = "answer"
    /\ pending' = 0
    /\ StartPoll(fl.sale)
    /\ UNCHANGED <<chainVars, history, cancelled, queue, nvs, started,
                   resets>>

(* Bug: no answer is taken for a refusal. *)
AnswerSilenceRefuses ==
    /\ pc = "answer"
    /\ ~tron[fl.sale]
    /\ Goto("refused")
    /\ UNCHANGED <<chainVars, uiVars, history, cancelled, queue, nvs, started,
                   resets>>

(* An EVM node's explicit error: it did not take the transaction. *)
AnswerRefused ==
    /\ pc = "answer"
    /\ ~tron[fl.sale]
    /\ tx[fl.sale] = "wire"
    /\ tx' = [tx EXCEPT ![fl.sale] = "dead"]
    /\ Goto("refused")
    /\ UNCHANGED <<tron, card, nonce, uiVars, history, cancelled, queue, nvs,
                   started, resets>>

(* Bug: the pending amount survives the sale it was for. *)
RefusedKeepsPending ==
    /\ pc = "refused"
    /\ nvs' = 0
    /\ IF cancelled
         THEN UNCHANGED <<uiVars, told>>
         ELSE Show("FAILED") /\ Tell(fl.sale, "declined")
    /\ Goto("idle")
    /\ UNCHANGED <<chainVars, sigs, stopped, over, cancelled, queue, started,
                   resets>>

(* app_main after BCAST_FAILED. *)
Refused ==
    /\ pc = "refused"
    /\ pending' = 0
    /\ nvs' = 0
    /\ IF cancelled
         THEN UNCHANGED <<uiVars, told>>
         ELSE Show("FAILED") /\ Tell(fl.sale, "declined")
    /\ pc' = "idle"
    /\ UNCHANGED <<chainVars, round, rc, fl, sigs, stopped, over, cancelled,
                   queue, started, resets>>

-----------------------------------------------------------------------------
(***************************************************************************)
(* settle_inflight.  A node that has seen the block may still answer "not  *)
(* found" or nothing at all, so an undecided answer needs no guard on tx.  *)
(***************************************************************************)

(* Bug: a transaction the node knows is taken for a mined one. *)
PollFinalOnPool ==
    /\ pc = "poll"
    /\ \/ tx[fl.sale] \in {"pool", "mined"} /\ rc' = "success"
       \/ tx[fl.sale] = "reverted" /\ rc' = "reverted"
    /\ pc' = "close"
    /\ UNCHANGED <<chainVars, round, pending, fl, uiVars, history, cancelled,
                   queue, nvs, started, resets>>

(* The receipt matches the transfer: mined and ours, or reverted. *)
PollFinal ==
    /\ pc = "poll"
    /\ \/ tx[fl.sale] = "mined"    /\ rc' = "success"
       \/ tx[fl.sale] = "reverted" /\ rc' = "reverted"
    /\ pc' = "close"
    /\ UNCHANGED <<chainVars, round, pending, fl, uiVars, history, cancelled,
                   queue, nvs, started, resets>>

(* "Not found" past the expiration and its margin, as the code means it:   *)
(* by then the chain can no longer include the transaction.  A reset       *)
(* before the broadcast leaves one that never went out at all.             *)
PollExpired ==
    /\ pc = "poll"
    /\ tron[fl.sale]
    /\ tx[fl.sale] \in {"signed", "dead"}
    /\ rc' = "expired"
    /\ pc' = "close"
    /\ UNCHANGED <<chainVars, round, pending, fl, uiVars, history, cancelled,
                   queue, nvs, started, resets>>

(* The same test passing early: TronExpiry says when it can. *)
PollExpiredEarly ==
    /\ "early" \in Upsets
    /\ pc = "poll"
    /\ tron[fl.sale]
    /\ tx[fl.sale] \in {"wire", "pool", "mined"}
    /\ rc' = "expired"
    /\ pc' = "close"
    /\ UNCHANGED <<chainVars, round, pending, fl, uiVars, history, cancelled,
                   queue, nvs, started, resets>>

(* Bug: the deadline moves with every round. *)
PollAgainForever ==
    /\ pc = "poll"
    /\ round' = 1 - round
    /\ UNCHANGED <<chainVars, pc, rc, pending, fl, uiVars, history, cancelled,
                   queue, nvs, started, resets>>

PollAgain ==
    /\ pc = "poll"
    /\ round < PollRounds
    /\ round' = round + 1
    /\ UNCHANGED <<chainVars, pc, rc, pending, fl, uiVars, history, cancelled,
                   queue, nvs, started, resets>>

(* The deadline, or a receipt that is not our transfer. *)
PollGivesUp ==
    /\ pc = "poll"
    /\ Show("UNCONFIRMED")
    /\ Goto("idle")
    /\ UNCHANGED <<chainVars, history, cancelled, queue, nvs, started,
                   resets>>

(* A final answer: the sale is closed in RAM and in flash ... *)
Close ==
    /\ pc = "close"
    /\ fl' = [fl EXCEPT !.active = FALSE]
    /\ nvs' = 0
    /\ pc' = "verdict"
    /\ UNCHANGED <<chainVars, round, rc, pending, uiVars, history, cancelled,
                   queue, started, resets>>

(* ... and then shown. *)
ShowVerdict ==
    /\ pc = "verdict"
    /\ IF rc = "success"
         THEN Show("DONE")   /\ Tell(fl.sale, "approved")
         ELSE Show("FAILED") /\ Tell(fl.sale, "declined")
    /\ Goto("idle")
    /\ UNCHANGED <<chainVars, sigs, stopped, over, cancelled, queue, nvs,
                   started, resets>>

(* run_payment_decision on a mined sale whose amount or payee has flipped. *)
GateFails ==
    /\ "flip" \in Upsets
    /\ pc = "verdict"
    /\ rc = "success"
    /\ Show("FAILED")
    /\ Tell(fl.sale, "declined")
    /\ Goto("idle")
    /\ UNCHANGED <<chainVars, sigs, stopped, over, cancelled, queue, nvs,
                   started, resets>>

-----------------------------------------------------------------------------
(***************************************************************************)
(* Bring-up, and a reset at any moment.                                    *)
(***************************************************************************)

(* Bug: the record is dropped once it has been read. *)
BootDropsRecord ==
    /\ pc = "boot"
    /\ IF nvs # 0
         THEN StartPoll(nvs) /\ UNCHANGED pending
         ELSE Show("AMOUNT") /\ Goto("idle")
    /\ nvs' = 0
    /\ UNCHANGED <<chainVars, history, cancelled, queue, started, resets>>

(* Bug: bring-up always ends on the amount screen. *)
BootIgnoresRecord ==
    /\ pc = "boot"
    /\ Show("AMOUNT")
    /\ Goto("idle")
    /\ UNCHANGED <<chainVars, history, cancelled, queue, nvs, started,
                   resets>>

(* A record left by a reset is polled before anything else. *)
Boot ==
    /\ pc = "boot"
    /\ IF nvs # 0
         THEN StartPoll(nvs) /\ UNCHANGED pending
         ELSE Show("AMOUNT") /\ Goto("idle")
    /\ UNCHANGED <<chainVars, history, cancelled, queue, nvs, started,
                   resets>>

(* Brownout, panic, watchdog, the plug: RAM goes, flash and chain stay. *)
Reset ==
    /\ pc # "boot"
    /\ resets < MaxResets
    /\ resets' = resets + 1
    /\ pc' = "boot" /\ round' = 0 /\ rc' = "none" /\ pending' = 0
    /\ fl' = [sale |-> 0, active |-> FALSE]
    /\ cancelled' = FALSE /\ queue' = <<>>
    /\ Show("SPLASH")
    /\ UNCHANGED <<chainVars, history, nvs, started>>

Handle == \/ HandleAmount \/ HandleCancel \/ HandleStalePin \/ HandlePin
          \/ HandleRecheck \/ HandleRetry

Pay == \/ ConnectReader \/ CardWait \/ CardCancelled \/ CardTimeout
       \/ NoCard \/ CardFound \/ CardPulled \/ CardReady
       \/ \E c \in Cards : Build(c)
       \/ Sign \/ LastCheck \/ Persist \/ PersistFails
       \/ Send \/ AnswerOrSilence \/ AnswerRefused \/ Refused
       \/ \E from \in {"prepare", "channel", "checks", "sign", "lastcheck"} :
             Refuse(from)

Settle == \/ PollFinal \/ PollExpired \/ PollExpiredEarly \/ PollAgain
          \/ PollGivesUp \/ Close \/ ShowVerdict \/ GateFails

MainStep == Handle \/ AmountRefused \/ AmountShown \/ Pay \/ Settle \/ Boot

TillUnchanged == UNCHANGED <<mainVars, uiVars, history, cancelled, queue, nvs,
                             started, resets>>

Next == \/ MainStep
        \/ UiStep
        \/ Reset
        \/ ChainStep /\ TillUnchanged

(* Only the main task is promised to run: nobody promises a tap, a reset   *)
(* or a block.                                                             *)
Spec == Init /\ [][Next]_vars /\ WF_vars(MainStep)

-----------------------------------------------------------------------------
(***************************************************************************)
(* Safety.                                                                 *)
(***************************************************************************)

(* A sale the panel declined can never be paid: what left the till is      *)
(* reverted or dead and what did not leave never will.  "A declined sale   *)
(* is one the merchant charges a second time" (settle_inflight).           *)
DeclinedNeverLands ==
    \A s \in Sales : "declined" \in told[s] =>
        tx[s] \in {"none", "signed", "reverted", "dead"}

(* The panel says Approved only of a sale that is in a block: never on the *)
(* node's acceptance, never on the expiry path.                            *)
ApprovedIsMined ==
    \A s \in Sales : "approved" \in told[s] => tx[s] = "mined"

(* Whenever a transaction is out and undecided and nobody has closed the   *)
(* sale, flash holds its record: a reset now resumes it (inflight_persist).*)
OutIsRecorded ==
    \A s \in Sales : Loose(s) /\ told[s] = {} => nvs = s

(* The till at rest on an open sale is showing it: the hash, Recheck and   *)
(* Clear are in front of the operator (settle_inflight, build_tx_status).  *)
OpenSaleIsOnPanel ==
    (fl.active /\ pc = "idle" /\ queue = <<>>) => screen = "UNCONFIRMED"

(* Cancel tapped on the card screen once main has taken the sale up means  *)
(* nothing leaves the till, however the tap falls between the card's       *)
(* arrival, the signature and the last check (sign_and_broadcast).         *)
CancelStopsSale ==
    \A s \in stopped : tx[s] \in {"none", "signed"}

(* One charge, one signature: an echo of PIN_ENTERED or a resumed sale     *)
(* never takes the card's signature for the same charge twice.             *)
SignedOnce == \A s \in Sales : sigs[s] <= 1

(* A sale built while an older one of the same account was still loose     *)
(* replaces it or is replaced by it: never both (UI_EVENT_TX_RETRY).       *)
ReplacedNotBeside ==
    \A p \in over : ~(tx[p[1]] = "mined" /\ tx[p[2]] = "mined")

EvmReplacedNotBeside ==
    \A p \in over : tron[p[1]] \/ ~(tx[p[1]] = "mined" /\ tx[p[2]] = "mined")

(* A sale in a block has its verdict on the panel, or a record or a main   *)
(* task that still leads to one, or was cleared by the operator: "picked   *)
(* up where it stopped ... and the verdict on the panel" (app_main).       *)
VerdictNotLost ==
    \A s \in Sales : tx[s] = "mined" /\ told[s] = {} =>
        nvs = s \/ (pc = "verdict" /\ fl.sale = s)

-----------------------------------------------------------------------------
(***************************************************************************)
(* The abstract promise.                                                   *)
(***************************************************************************)

Fate(s) == CASE tx[s] \in {"none", "signed"}   ->
                  IF "declined" \in told[s] THEN "void" ELSE "open"
             [] Loose(s)                       -> "out"
             [] tx[s] = "mined"                -> "paid"
             [] tx[s] \in {"reverted", "dead"} -> "void"

P == INSTANCE Payment WITH fate <- [s \in Sales |-> Fate(s)], word <- told

(* The terminal keeps Payment's promise: verdicts are true and final, and  *)
(* no sale leaves while another is out and not cleared, resets included.   *)
KeepsPromise == P!Spec

-----------------------------------------------------------------------------
(***************************************************************************)
(* Liveness, under the main task's fairness.                               *)
(***************************************************************************)

(* A sale found in flash at boot ends on a verdict or on Unconfirmed,      *)
(* unless the till is reset again.                                         *)
ResumedSaleIsAnswered ==
    \A r \in 0 .. MaxResets :
        (pc = "boot" /\ nvs # 0 /\ resets = r) ~>
            (resets > r \/ screen \in {"DONE", "FAILED", "UNCONFIRMED"})

(* Charge does not stay deaf: even when its event was dropped by a full    *)
(* queue, something already queued redraws the screen.                     *)
ChargeIsAnswered ==
    (screen = "AMOUNT" /\ busy) ~> ~(screen = "AMOUNT" /\ busy)
=============================================================================
