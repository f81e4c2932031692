---------------------------- MODULE PromiseProofs ----------------------------
(***************************************************************************)
(* That an open sale is on the panel, that a transaction that is out is    *)
(* recorded, and that the till keeps Payment's promise: for every number   *)
(* of sales, cards, queue slots, poll rounds and resets.                   *)
(*                                                                         *)
(* SettlementProofs follows one sale through the main task.  Added here is *)
(* what is between two: what can be in the queue at each place of the main *)
(* task, so that no stale event starts, clears or polls a sale behind an   *)
(* open one, and which sale the record in flash is of.                     *)
(***************************************************************************)
EXTENDS SettlementProofs

-----------------------------------------------------------------------------
(* No asset is picked while main is taking up a charge. *)
NoRearm == "rearm" \notin Upsets

(* Places of the main task the operator can say nothing to. *)
Deaf == {"boot", "amount", "persist", "send", "answer", "poll", "close",
         "verdict"}

OnlyCancels == \A i \in DOMAIN queue : queue[i] = "CONFIRM_CANCEL"

(* The panel at each place of the main task, as far as its buttons go.     *)
PanelFits ==
    /\ pc = "boot" => screen = "SPLASH"
    /\ pc = "amount" => screen = "AMOUNT" /\ busy
    /\ pc \in BeforeSign \cup {"lastcheck", "refused"} =>
          screen \in {"PLACE_CARD", "PROCESSING", "SIGNING", "SENDING"}
    /\ pc \in {"persist", "send", "answer"} => screen = "SENDING"
    /\ pc \in {"poll", "close", "verdict"} => screen = "CONFIRMING"

(* One event waits at a time, but for Cancels of the sale in hand.         *)
QueueFits ==
    /\ pc \in Deaf => queue = <<>>
    /\ pc \in InPayment => OnlyCancels /\ (queue # <<>> => cancelled)
    /\ pc = "idle" =>
          \/ OnlyCancels
          \/ queue = <<"AMOUNT_CONFIRMED">> /\ screen = "AMOUNT" /\ busy
          \/ queue = <<"PIN_ENTERED">> /\ screen = "PLACE_CARD"
          \/ queue \in {<<"TX_RETRY">>, <<"TX_RECHECK">>}

(* s_inflight.active: up from the poll to the verdict or to Unconfirmed.   *)
ActiveFits ==
    /\ pc \in {"poll", "close"} => fl.active
    /\ pc \notin {"poll", "close", "idle"} => ~fl.active
    /\ (pc = "idle" /\ fl.active) =>
          /\ screen = "UNCONFIRMED"
          /\ queue \in {<<>>, <<"TX_RETRY">>, <<"TX_RECHECK">>}

FlowInv == PanelFits /\ QueueFits /\ ActiveFits

(* The flash record, where RAM has the sale.                               *)
RecordFits ==
    /\ fl.active => nvs = fl.sale
    /\ pc \in {"send", "answer"} => nvs = fl.sale
    /\ pc = "refused" => nvs \in {0, fl.sale}
    /\ (~fl.active /\ pc \notin {"boot", "send", "answer", "refused"}) =>
          nvs = 0

-----------------------------------------------------------------------------
(***************************************************************************)
(* The queue and the panel.                                                *)
(***************************************************************************)

(* A tap on an idle till finds room for its event. *)
LEMMA PostFirst ==
    ASSUME NEW e \in Events, Post(e), queue = <<>>
    PROVE  queue' = <<e>>
<1>1. Len(queue) = 0 /\ Append(queue, e) = <<e>>
  OBVIOUS
<1> QED
  BY <1>1, SettlementAssumption DEF Post, SettlementAssumption

(* Cancel after Cancel leaves nothing but Cancels. *)
LEMMA PostCancel ==
    ASSUME queue \in Seq(Events), OnlyCancels, Post("CONFIRM_CANCEL")
    PROVE  OnlyCancels'
<1>1. CASE queue' = queue
  BY <1>1 DEF OnlyCancels
<1>2. CASE queue' = Append(queue, "CONFIRM_CANCEL")
  <2>1. /\ DOMAIN queue = 1 .. Len(queue) /\ Len(queue) \in Nat
        /\ DOMAIN queue' = 1 .. (Len(queue) + 1)
    BY <1>2 DEF Events
  <2>2. \A i \in 1 .. Len(queue) : queue'[i] = queue[i]
    BY <1>2 DEF Events
  <2>3. queue'[Len(queue) + 1] = "CONFIRM_CANCEL"
    BY <1>2 DEF Events
  <2> QED
    BY <2>1, <2>2, <2>3 DEF OnlyCancels
<1> QED
  BY <1>1, <1>2 DEF Post

(* What main takes up is either a Cancel, with only Cancels behind it, or  *)
(* the one event there is.                                                 *)
LEMMA TakeOne ==
    ASSUME NEW e \in Events, queue \in Seq(Events), QueueFits, Take(e)
    PROVE  /\ pc = "idle" /\ OnlyCancels'
           /\ e = "CONFIRM_CANCEL" => OnlyCancels
           /\ e # "CONFIRM_CANCEL" => queue = <<e>> /\ queue' = <<>>
<1>1. pc = "idle" /\ queue # <<>> /\ queue[1] = e /\ queue' = Tail(queue)
      /\ 1 \in DOMAIN queue
  BY DEF Take
<1>2. CASE OnlyCancels
  <2>1. /\ DOMAIN queue = 1 .. Len(queue) /\ Len(queue) \in Nat
        /\ DOMAIN queue' = 1 .. (Len(queue) - 1)
        /\ \A i \in 1 .. (Len(queue) - 1) : queue'[i] = queue[i + 1]
    BY <1>1
  <2> QED
    BY <1>1, <1>2, <2>1 DEF OnlyCancels
<1>3. CASE \E x \in Events : queue = <<x>>
  <2>1. PICK x \in Events : queue = <<x>>
    BY <1>3
  <2>2. queue[1] = x /\ Tail(queue) = <<>> /\ DOMAIN queue = 1 .. 1
    BY <2>1
  <2> QED
    BY <1>1, <2>1, <2>2 DEF OnlyCancels
<1> QED
  BY <1>1, <1>2, <1>3 DEF QueueFits, Events

LEMMA FlowAtStart == Init => FlowInv
<1> SUFFICES ASSUME Init PROVE FlowInv
  OBVIOUS
<1> USE DEF Init
<1>1. PanelFits
  BY DEF PanelFits, BeforeSign
<1>2. QueueFits
  BY DEF QueueFits, InPayment, BeforeSign, AfterSign
<1>3. ActiveFits
  BY DEF ActiveFits
<1> QED
  BY <1>1, <1>2, <1>3 DEF FlowInv

(* A tap fits where the panel offers it. *)
LEMMA FlowUi ==
    ASSUME NoRearm, TypeInv, FlowInv, UiStep PROVE FlowInv'
<1> USE DEF FlowInv, mainVars, Screens
<1>1. queue \in Seq(Events) /\ screen \in Screens /\ pc \in Pcs
  BY DEF TypeInv, TypeOK, UiTypeOK, MainTypeOK
<1>2. UNCHANGED <<pc, fl>>
  BY DEF UiStep, TapCharge, PickAsset, PickRearmsCharge, Pick, TapSend,
         PinCancel, PinSubmit, TapCancel, TapNew, TapRecheck
<1>3. CASE TapCancel
  <2>1. /\ UNCHANGED <<screen, busy>> /\ cancelled' = TRUE
        /\ Post("CONFIRM_CANCEL")
        /\ screen \in {"CONFIRM", "PLACE_CARD"}
        /\ queue # <<>> => pc # "idle"
    BY <1>3 DEF TapCancel, uiVars, InputOpen
  <2>2. pc \notin Deaf /\ OnlyCancels
    <3>1. pc \notin Deaf
      BY <2>1 DEF PanelFits, Deaf
    <3>2. CASE pc = "idle"
      BY <2>1, <3>1, <3>2 DEF OnlyCancels
    <3> QED
      BY <1>1, <3>1, <3>2
         DEF QueueFits, Pcs, Deaf, InPayment, BeforeSign, AfterSign
  <2>3. OnlyCancels'
    BY <1>1, <2>1, <2>2, PostCancel
  <2>4. PanelFits'
    BY <1>2, <2>1 DEF PanelFits
  <2>5. QueueFits'
    BY <1>2, <2>1, <2>2, <2>3 DEF QueueFits
  <2>6. ActiveFits'
    BY <1>2, <2>1 DEF ActiveFits
  <2> QED
    BY <2>4, <2>5, <2>6
<1>4. CASE ~TapCancel
  <2>1. /\ queue # <<>> => pc # "idle"
        /\ screen \in {"AMOUNT", "CONFIRM", "PIN", "DONE", "FAILED",
                       "UNCONFIRMED"}
        /\ screen = "AMOUNT" => ~busy
    BY <1>4 DEF NoRearm, UiStep, TapCharge, PickAsset, PickRearmsCharge, Pick,
                TapSend, PinCancel, PinSubmit, TapNew, TapRecheck, InputOpen
  <2>2. pc = "idle" /\ queue = <<>>
    BY <1>1, <2>1 DEF PanelFits, Pcs, BeforeSign
  <2>3. \/ queue' = <<>> /\ screen = screen'
        \/ queue' = <<>> /\ screen # "UNCONFIRMED"
        \/ /\ queue' = <<"AMOUNT_CONFIRMED">>
           /\ screen = "AMOUNT" /\ screen' = "AMOUNT" /\ busy'
        \/ /\ queue' = <<"PIN_ENTERED">>
           /\ screen = "PIN" /\ screen' = "PLACE_CARD"
        \/ /\ queue' \in {<<"TX_RETRY">>, <<"TX_RECHECK">>}
           /\ screen' = screen
    <3>1. CASE TapCharge
      BY <2>2, <3>1, PostFirst DEF TapCharge, Events
    <3>2. CASE PinSubmit
      BY <2>2, <3>2, PostFirst DEF PinSubmit, Show, Events
    <3>3. CASE TapNew
      BY <2>2, <3>3, PostFirst DEF TapNew, uiVars, Events
    <3>4. CASE TapRecheck
      BY <2>2, <3>4, PostFirst DEF TapRecheck, uiVars, Events
    <3>5. CASE TapSend \/ PinCancel
      BY <2>2, <3>5 DEF TapSend, PinCancel
    <3>6. CASE \E tr \in Families : PickAsset(tr) \/ PickRearmsCharge(tr)
      BY <2>2, <3>6 DEF PickAsset, PickRearmsCharge, Pick
    <3> QED
      BY <1>4, <3>1, <3>2, <3>3, <3>4, <3>5, <3>6 DEF UiStep
  <2>4. PanelFits'
    BY <1>2, <2>2 DEF PanelFits, BeforeSign
  <2>5. QueueFits'
    <3>1. queue' = <<>> => OnlyCancels'
      BY DEF OnlyCancels
    <3> QED
      BY <1>2, <2>2, <2>3, <3>1
         DEF QueueFits, Deaf, InPayment, BeforeSign, AfterSign
  <2>6. ActiveFits'
    BY <1>2, <2>2, <2>3 DEF ActiveFits
  <2> QED
    BY <2>4, <2>5, <2>6
<1> QED
  BY <1>3, <1>4

(* Main's own steps, between two events. *)
LEMMA FlowMain ==
    ASSUME TypeInv, FlowInv, Handle \/ AmountRefused \/ AmountShown
    PROVE  FlowInv'
<1> USE DEF FlowInv, mainVars, uiVars, Goto, Show
<1>1. queue \in Seq(Events) /\ QueueFits
  BY DEF TypeInv, TypeOK
<1>2. CASE HandleAmount
  <2>1. /\ pc' = "amount" /\ UNCHANGED <<fl, screen, busy>>
        /\ Take("AMOUNT_CONFIRMED")
    BY <1>2 DEF HandleAmount
  <2>2. queue = <<"AMOUNT_CONFIRMED">> /\ queue' = <<>> /\ pc = "idle"
    BY <1>1, <2>1, TakeOne DEF Events
  <2>3. screen = "AMOUNT" /\ busy /\ ~fl.active
    <3>1. queue[1] = "AMOUNT_CONFIRMED" /\ 1 \in DOMAIN queue
      BY <2>2
    <3> QED
      BY <2>2, <3>1 DEF QueueFits, OnlyCancels, ActiveFits
  <2> QED
    BY <2>1, <2>2, <2>3
       DEF PanelFits, QueueFits, ActiveFits, Deaf, InPayment, BeforeSign,
           AfterSign
<1>3. CASE HandleCancel
  <2>1. /\ pc' = pc /\ fl' = fl /\ screen' = "AMOUNT"
        /\ Take("CONFIRM_CANCEL")
    BY <1>3 DEF HandleCancel
  <2>2. pc = "idle" /\ OnlyCancels /\ OnlyCancels'
    BY <1>1, <2>1, TakeOne DEF Events
  <2>3. ~fl.active
    <3>1. queue # <<>> /\ queue[1] = "CONFIRM_CANCEL"
      BY <2>1 DEF Take
    <3> QED
      BY <2>2, <3>1 DEF ActiveFits
  <2> QED
    BY <2>1, <2>2, <2>3
       DEF PanelFits, QueueFits, ActiveFits, Deaf, InPayment, BeforeSign,
           AfterSign
<1>4. CASE HandlePin \/ HandleStalePin
  <2>1. Take("PIN_ENTERED") /\ UNCHANGED <<screen, busy>>
    BY <1>4 DEF HandlePin, HandleStalePin
  <2>2. queue = <<"PIN_ENTERED">> /\ queue' = <<>> /\ pc = "idle"
    BY <1>1, <2>1, TakeOne DEF Events
  <2>3. screen = "PLACE_CARD" /\ ~fl.active
    <3>1. queue[1] = "PIN_ENTERED" /\ 1 \in DOMAIN queue
      BY <2>2
    <3> QED
      BY <2>2, <3>1 DEF QueueFits, OnlyCancels, ActiveFits
  <2>4. \/ pc' = "prepare" /\ ~fl'.active
        \/ pc' = "idle" /\ ~fl'.active
    BY <1>4, <2>2, <2>3 DEF HandlePin, HandleStalePin
  <2>5. OnlyCancels'
    BY <2>2 DEF OnlyCancels
  <2> QED
    BY <2>1, <2>2, <2>3, <2>4, <2>5
       DEF PanelFits, QueueFits, ActiveFits, Deaf, InPayment, BeforeSign,
           AfterSign
<1>5. CASE HandleRecheck
  <2>1. Take("TX_RECHECK")
    BY <1>5 DEF HandleRecheck
  <2>2. queue = <<"TX_RECHECK">> /\ queue' = <<>> /\ pc = "idle"
    BY <1>1, <2>1, TakeOne DEF Events
  <2>3. \/ pc' = "poll" /\ fl'.active /\ screen' = "CONFIRMING"
        \/ pc' = "idle" /\ ~fl'.active
    BY <1>5, <2>2 DEF HandleRecheck, StartPoll
  <2>5. OnlyCancels'
    BY <2>2 DEF OnlyCancels
  <2> QED
    BY <2>2, <2>3, <2>5
       DEF PanelFits, QueueFits, ActiveFits, Deaf, InPayment, BeforeSign,
           AfterSign
<1>6. CASE HandleRetry
  <2>1. Take("TX_RETRY") /\ pc' = pc /\ fl'.active = FALSE
    <3>1. fl \in [sale : SaleIds, active : BOOLEAN]
      BY DEF TypeInv, TypeOK, MainTypeOK
    <3> QED
      BY <1>6, <3>1 DEF HandleRetry
  <2>2. queue = <<"TX_RETRY">> /\ queue' = <<>> /\ pc = "idle"
    BY <1>1, <2>1, TakeOne DEF Events
  <2>5. OnlyCancels'
    BY <2>2 DEF OnlyCancels
  <2> QED
    BY <2>1, <2>2, <2>5
       DEF PanelFits, QueueFits, ActiveFits, Deaf, InPayment, BeforeSign,
           AfterSign
<1>7. CASE AmountRefused \/ AmountShown
  <2>1. /\ pc = "amount" /\ pc' = "idle" /\ UNCHANGED <<queue, fl>>
    BY <1>7 DEF AmountRefused, AmountShown
  <2>2. queue = <<>> /\ ~fl.active
    BY <2>1 DEF QueueFits, Deaf, ActiveFits
  <2>5. OnlyCancels'
    BY <2>1, <2>2 DEF OnlyCancels
  <2> QED
    BY <2>1, <2>2, <2>5
       DEF PanelFits, QueueFits, ActiveFits, Deaf, InPayment, BeforeSign,
           AfterSign
<1> QED
  BY <1>2, <1>3, <1>4, <1>5, <1>6, <1>7 DEF Handle

(* pay_sign_and_broadcast puts no screen with other buttons than Cancel up, *)
(* and none past the last look at the flag.                                *)
LEMMA FlowPay == ASSUME SaleInv, FlowInv, Pay PROVE FlowInv'
<1> USE DEF FlowInv, mainVars, uiVars, Goto, Show, ShowUnlessCancelled
<1>1. CASE AnswerOrSilence
  <2>1. /\ pc = "answer" /\ pc' = "poll" /\ fl'.active
        /\ screen' = "CONFIRMING" /\ queue' = queue
    BY <1>1 DEF AnswerOrSilence, StartPoll
  <2> QED
    BY <2>1
       DEF PanelFits, QueueFits, ActiveFits, Deaf, InPayment, BeforeSign,
           AfterSign
<1>2. CASE Refused
  <2>1. /\ pc = "refused" /\ pc' = "idle" /\ UNCHANGED <<queue, fl>>
    BY <1>2 DEF Refused
  <2>2. OnlyCancels' /\ ~fl.active
    BY <2>1 DEF QueueFits, InPayment, ActiveFits, OnlyCancels
  <2> QED
    BY <2>1, <2>2
       DEF PanelFits, QueueFits, ActiveFits, Deaf, InPayment, BeforeSign,
           AfterSign
<1>3. CASE ~AnswerOrSilence /\ ~Refused
  <2>1. /\ pc \in InPayment /\ UNCHANGED <<queue, fl, cancelled>>
        /\ pc' \in InPayment
    BY <1>3 DEF Pay, ConnectReader, CardWait, CardCancelled, CardTimeout,
         NoCard, CardFound, CardPulled, CardReady, Build, Sign, LastCheck,
         Persist, PersistFails, Send, AnswerRefused, Refuse, InPayment,
         BeforeSign, AfterSign
  <2>2. ActiveFits'
    BY <2>1 DEF ActiveFits, InPayment, BeforeSign, AfterSign
  <2>3. OnlyCancels' /\ (queue' # <<>> => cancelled')
    BY <2>1 DEF QueueFits, OnlyCancels
  <2>4. pc' \in Deaf => ~cancelled' \/ pc \in Deaf
    BY <1>3 DEF Pay, ConnectReader, CardWait, CardCancelled, CardTimeout,
         NoCard, CardFound, CardPulled, CardReady, Build, Sign, LastCheck,
         Persist, PersistFails, Send, AnswerRefused, Refuse, Deaf
  <2>5. QueueFits'
    BY <2>1, <2>3, <2>4
       DEF QueueFits, InPayment, BeforeSign, AfterSign
  <2>6. PanelFits'
    <3>1. CASE pc \in {"prepare", "card", "listen", "channel", "checks",
                       "sign"}
      BY <1>3, <3>1 DEF PanelFits, Pay, ConnectReader, CardWait,
         CardCancelled, CardTimeout, NoCard, CardFound, CardPulled,
         CardReady, Build, Sign, LastCheck, Persist, PersistFails, Send,
         AnswerRefused, Refuse, BeforeSign
    <3>2. CASE pc = "lastcheck"
      <4>1. screen' = screen /\ pc' \in {"persist", "refused"}
            /\ (pc' = "persist" => screen = "SENDING")
        BY <1>3, <3>2 DEF SaleInv, SaleFacts, CancelInTime, Pay,
           ConnectReader, CardWait,
           CardCancelled, CardTimeout, NoCard, CardFound, CardPulled,
           CardReady, Build, Sign, LastCheck, Persist, PersistFails, Send,
           AnswerRefused, Refuse
      <4> QED
        BY <3>2, <4>1 DEF PanelFits, BeforeSign
    <3>3. CASE pc \in {"persist", "send", "answer", "refused"}
      BY <1>3, <3>3 DEF PanelFits, Pay, ConnectReader, CardWait,
         CardCancelled, CardTimeout, NoCard, CardFound, CardPulled,
         CardReady, Build, Sign, LastCheck, Persist, PersistFails, Send,
         AnswerRefused, Refuse, BeforeSign
    <3> QED
      BY <2>1, <3>1, <3>2, <3>3 DEF InPayment, BeforeSign, AfterSign
  <2> QED
    BY <2>2, <2>5, <2>6
<1> QED
  BY <1>1, <1>2, <1>3

(* The poll, the verdict, bring-up and the chain. *)
LEMMA FlowRest ==
    ASSUME TypeInv, FlowInv,
           Settle \/ Boot \/ Reset \/ (ChainStep /\ TillUnchanged)
    PROVE  FlowInv'
<1> USE DEF FlowInv, mainVars, uiVars, Goto, Show, Deaf, InPayment,
            BeforeSign, AfterSign
<1>0. fl \in [sale : SaleIds, active : BOOLEAN]
  BY DEF TypeInv, TypeOK, MainTypeOK
<1>1. CASE Settle
  <2>1. /\ pc \in {"poll", "close", "verdict"} /\ queue = <<>>
        /\ queue' = queue
    BY <1>1 DEF Settle, PollFinal, PollExpired, PollExpiredEarly, PollAgain,
                PollGivesUp, Close, ShowVerdict, GateFails, QueueFits
  <2>2. \/ pc' \in {"poll", "close"} /\ fl'.active /\ screen' = "CONFIRMING"
        \/ pc' = "verdict" /\ ~fl'.active /\ screen' = "CONFIRMING"
        \/ pc' = "idle" /\ fl'.active /\ screen' = "UNCONFIRMED"
        \/ pc' = "idle" /\ ~fl'.active
    BY <1>0, <1>1
       DEF Settle, PollFinal, PollExpired, PollExpiredEarly, PollAgain,
           PollGivesUp, Close, ShowVerdict, GateFails, PanelFits, ActiveFits
  <2>3. OnlyCancels'
    BY <2>1 DEF OnlyCancels
  <2> QED
    BY <2>1, <2>2, <2>3 DEF PanelFits, QueueFits, ActiveFits
<1>2. CASE Boot
  <2>1. pc = "boot" /\ queue = <<>> /\ queue' = <<>> /\ ~fl.active
    BY <1>2 DEF Boot, QueueFits, ActiveFits
  <2>2. \/ pc' = "poll" /\ fl'.active /\ screen' = "CONFIRMING"
        \/ pc' = "idle" /\ ~fl'.active
    BY <1>2, <2>1 DEF Boot, StartPoll
  <2>3. OnlyCancels'
    BY <2>1 DEF OnlyCancels
  <2> QED
    BY <2>1, <2>2, <2>3 DEF PanelFits, QueueFits, ActiveFits
<1>3. CASE Reset
  BY <1>3 DEF Reset, PanelFits, QueueFits, ActiveFits
<1>4. CASE ChainStep /\ TillUnchanged
  BY <1>4 DEF TillUnchanged, PanelFits, QueueFits, ActiveFits, OnlyCancels
<1> QED
  BY <1>1, <1>2, <1>3, <1>4

LEMMA FlowStep ==
    ASSUME NoRearm, SaleInv, FlowInv, [Next]_vars PROVE FlowInv'
<1>1. CASE UNCHANGED vars
  BY <1>1 DEF vars, mainVars, uiVars, FlowInv, PanelFits, QueueFits,
              ActiveFits, OnlyCancels
<1>2. CASE Next
  BY <1>2, FlowUi, FlowMain, FlowPay, FlowRest
     DEF Next, MainStep, SaleInv
<1> QED
  BY <1>1, <1>2

(* The till at rest on an open sale shows it, whatever else goes wrong,    *)
(* provided Charge is not armed twice.                                     *)
THEOREM OpenSaleShown == ASSUME NoRearm PROVE Spec => []OpenSaleIsOnPanel
<1>2. SaleInv /\ FlowInv /\ [Next]_vars => FlowInv'
  BY FlowStep
<1>3. FlowInv => OpenSaleIsOnPanel
  BY DEF FlowInv, ActiveFits, OpenSaleIsOnPanel
<1> QED
  BY FlowAtStart, SaleInvHolds, <1>2, <1>3, PTL DEF Spec

-----------------------------------------------------------------------------
(***************************************************************************)
(* The record in flash.                                                    *)
(***************************************************************************)

(* Flash takes the record, no expiry is early, and Charge is armed once. A *)
(* flipped bit falsifies a verdict and touches no record.                  *)
RecordSafe == Upsets \subseteq {"flip"}

Untroubled == Upsets = {}

RecordInv == RecordFits /\ OutIsRecorded

(* A step that leaves tx and the record alone and takes nothing back that  *)
(* was said keeps OutIsRecorded.                                           *)
LEMMA StillRecorded ==
    ASSUME OutIsRecorded, UNCHANGED <<tx, nvs>>,
           \A s \in Sales : told'[s] = {} => told[s] = {}
    PROVE  OutIsRecorded'
BY DEF OutIsRecorded, Loose

(* What has been said stays said. *)
LEMMA SaidStays ==
    ASSUME TypeInv, NEW s \in SaleIds, NEW v \in Verdicts, Tell(s, v)
    PROVE  /\ \A t \in Sales : told'[t] = {} => told[t] = {}
           /\ s \in Sales => v \in told'[s]
BY SaleTypes DEF Tell

LEMMA RecordMain ==
    ASSUME SaleInv, FlowInv, RecordInv, Handle \/ AmountRefused \/ AmountShown
    PROVE  RecordInv'
<1> USE SaleTypes
    DEF SaleInv, RecordInv, RecordFits, mainVars, history, chainVars, Goto
<1>1. CASE HandlePin
  <2>1. Take("PIN_ENTERED") /\ ~fl'.active /\ pc' = "prepare"
        /\ UNCHANGED <<tx, nvs, told>>
    BY <1>1 DEF HandlePin
  <2>2. pc = "idle" /\ queue # <<>> /\ queue[1] = "PIN_ENTERED"
    BY <2>1 DEF Take
  <2>3. ~fl.active
    BY <2>2 DEF FlowInv, ActiveFits
  <2> QED
    BY <2>1, <2>2, <2>3, StillRecorded
<1>2. CASE HandleRetry
  <2>1. /\ pc = "idle" /\ pc' = pc /\ nvs' = 0 /\ ~fl'.active /\ tx' = tx
        /\ IF fl.active THEN Tell(fl.sale, "cleared") ELSE told' = told
    BY <1>2 DEF HandleRetry, Take
  <2>2. OutIsRecorded'
    <3>1. CASE fl.active
      <4>1. fl.sale \in Sales /\ nvs = fl.sale
        BY <3>1 DEF SaleNamed, SaleIds
      <4>2. "cleared" \in told'[fl.sale]
            /\ \A t \in Sales : told'[t] = {} => told[t] = {}
        BY <2>1, <3>1, <4>1, SaidStays DEF Verdicts
      <4> QED
        BY <2>1, <4>1, <4>2 DEF OutIsRecorded, Loose
    <3>2. CASE ~fl.active
      BY <2>1, <3>2 DEF OutIsRecorded, Loose
    <3> QED
      BY <3>1, <3>2
  <2> QED
    BY <2>1, <2>2
<1>3. CASE HandleAmount \/ HandleCancel \/ HandleStalePin \/ AmountShown
  <2>1. /\ pc \in {"idle", "amount"} /\ pc' \in {"idle", "amount"}
        /\ UNCHANGED <<fl, tx, nvs, told>>
    BY <1>3 DEF HandleAmount, HandleCancel, HandleStalePin, AmountShown, Take
  <2> QED
    BY <2>1, StillRecorded
<1>4. CASE HandleRecheck
  <2>1. /\ pc = "idle" /\ pc' \in {"idle", "poll"}
        /\ UNCHANGED <<tx, nvs, told>>
        /\ \/ fl' = fl
           \/ fl.active /\ fl'.active /\ fl'.sale = fl.sale
    BY <1>4 DEF HandleRecheck, Take, StartPoll
  <2> QED
    BY <2>1, StillRecorded
<1>5. CASE AmountRefused
  <2>1. /\ pc = "amount" /\ pc' = "idle" /\ UNCHANGED <<fl, tx, nvs>>
        /\ Tell(pending, "declined")
    BY <1>5 DEF AmountRefused
  <2> QED
    BY <2>1, StillRecorded, SaidStays DEF Verdicts
<1> QED
  BY <1>1, <1>2, <1>3, <1>4, <1>5 DEF Handle

LEMMA RecordPay ==
    ASSUME RecordSafe, SaleInv, FlowInv, RecordInv, Pay PROVE RecordInv'
<1> USE SaleTypes
    DEF SaleInv, RecordInv, RecordFits, mainVars, history, chainVars, Goto
<1>1. pc \in InPayment /\ fl.sale \in Sales /\ ~fl.active
      /\ (pc \notin {"send", "answer", "refused"} => nvs = 0)
  BY DEF Pay, ConnectReader, CardWait, CardCancelled, CardTimeout, NoCard,
         CardFound, CardPulled, CardReady, Build, Sign, LastCheck, Persist,
         PersistFails, Send, AnswerOrSilence, AnswerRefused, Refused, Refuse,
         SaleNamed, SaleIds, InPayment, BeforeSign, AfterSign, FlowInv,
         ActiveFits
<1>2. CASE Persist \/ PersistFails
  <2>1. /\ pc = "persist" /\ pc' = "send" /\ nvs' = fl.sale
        /\ UNCHANGED <<fl, tx, told>>
    BY <1>2 DEF Persist, PersistFails, RecordSafe
  <2>2. OutIsRecorded'
    BY <1>1, <2>1 DEF OutIsRecorded, Loose
  <2> QED
    BY <1>1, <2>1, <2>2
<1>3. CASE Send \/ AnswerRefused
  <2>1. /\ nvs = fl.sale /\ UNCHANGED <<fl, nvs, told>>
        /\ \A s \in Sales \ {fl.sale} : tx'[s] = tx[s]
        /\ pc' \in {"answer", "refused"}
    BY <1>3 DEF Send, AnswerRefused
  <2>2. OutIsRecorded'
    BY <1>1, <2>1 DEF OutIsRecorded, Loose
  <2> QED
    BY <1>1, <2>1, <2>2
<1>4. CASE AnswerOrSilence
  <2>1. /\ nvs = fl.sale /\ UNCHANGED <<tx, nvs, told>>
        /\ fl'.sale = fl.sale /\ fl'.active /\ pc' = "poll"
    BY <1>4 DEF AnswerOrSilence, StartPoll
  <2> QED
    BY <1>1, <2>1, StillRecorded
<1>5. CASE Refused
  <2>1. /\ pc = "refused" /\ pc' = "idle" /\ nvs' = 0 /\ UNCHANGED <<fl, tx>>
        /\ told' = told \/ Tell(fl.sale, "declined")
    BY <1>5 DEF Refused
  <2>2. \A t \in Sales : told'[t] = {} => told[t] = {}
    BY <1>1, <2>1, SaidStays DEF Verdicts, SaleIds
  <2>3. tx[fl.sale] \in {"none", "signed", "dead"} /\ nvs \in {0, fl.sale}
    BY <2>1 DEF SaleFacts, SaleInHand
  <2>4. OutIsRecorded'
    BY <1>1, <2>1, <2>2, <2>3 DEF OutIsRecorded, Loose
  <2> QED
    BY <1>1, <2>1, <2>4
<1>6. CASE Sign
  <2>1. /\ pc = "sign" /\ pc' = "lastcheck" /\ UNCHANGED <<fl, nvs, told>>
        /\ tx' = [tx EXCEPT ![fl.sale] = "signed"]
    BY <1>6 DEF Sign
  <2>2. OutIsRecorded'
    BY <1>1, <2>1 DEF OutIsRecorded, Loose
  <2> QED
    BY <1>1, <2>1, <2>2
<1>7. CASE \/ ConnectReader \/ CardWait \/ CardCancelled \/ CardTimeout
           \/ NoCard \/ CardFound \/ CardPulled \/ CardReady \/ LastCheck
           \/ (\E c \in Cards : Build(c))
           \/ \E from \in {"prepare", "channel", "checks", "sign",
                           "lastcheck"} : Refuse(from)
  <2>1. /\ pc \notin {"send", "answer", "refused"}
        /\ pc' \notin {"send", "answer", "boot"}
        /\ UNCHANGED <<fl, nvs, told, tx>>
    BY <1>7 DEF ConnectReader, CardWait, CardCancelled, CardTimeout, NoCard,
                CardFound, CardPulled, CardReady, LastCheck, Build, Refuse
  <2> QED
    BY <1>1, <2>1, StillRecorded
<1> QED
  BY <1>2, <1>3, <1>4, <1>5, <1>6, <1>7 DEF Pay

LEMMA RecordRest ==
    ASSUME RecordSafe, SaleInv, FlowInv, RecordInv,
           \/ UiStep \/ Settle \/ Boot \/ Reset
           \/ ChainStep /\ TillUnchanged
    PROVE  RecordInv'
<1> USE SaleTypes
    DEF SaleInv, RecordInv, RecordFits, mainVars, history, chainVars, Goto
<1>1. CASE UiStep
  <2>1. UNCHANGED <<pc, fl, nvs, told, tx>>
    BY <1>1 DEF UiStep, TapCharge, PickAsset, PickRearmsCharge, Pick, TapSend,
                PinCancel, PinSubmit, TapCancel, TapNew, TapRecheck
  <2> QED
    BY <2>1, StillRecorded
<1>2. CASE Close
  <2>1. /\ pc = "close" /\ pc' = "verdict" /\ nvs' = 0 /\ ~fl'.active
        /\ UNCHANGED <<tx, told>>
    BY <1>2 DEF Close
  <2>2. fl.active /\ nvs = fl.sale /\ fl.sale \in Sales /\ ~Loose(fl.sale)
    BY <2>1 DEF FlowInv, ActiveFits, SaleNamed, SaleIds, SaleFacts,
                AnswerInHand, RecordSafe, Loose
  <2>3. OutIsRecorded'
    BY <2>1, <2>2 DEF OutIsRecorded, Loose
  <2> QED
    BY <2>1, <2>3
<1>3. CASE PollFinal \/ PollExpired \/ PollExpiredEarly \/ PollAgain
           \/ PollGivesUp
  <2>1. /\ pc = "poll" /\ pc' \in {"poll", "close", "idle"}
        /\ UNCHANGED <<fl, nvs, told, tx>>
    BY <1>3 DEF PollFinal, PollExpired, PollExpiredEarly, PollAgain,
                PollGivesUp
  <2> QED
    BY <2>1, StillRecorded
<1>4. CASE ShowVerdict \/ GateFails
  <2>1. /\ pc = "verdict" /\ pc' = "idle" /\ UNCHANGED <<fl, nvs, tx>>
        /\ fl.sale \in Sales
        /\ \E v \in {"approved", "declined"} : Tell(fl.sale, v)
    BY <1>4 DEF ShowVerdict, GateFails, SaleNamed, SaleIds
  <2>2. \A t \in Sales : told'[t] = {} => told[t] = {}
    BY <2>1, SaidStays DEF Verdicts, SaleIds
  <2> QED
    BY <2>1, <2>2, StillRecorded
<1>5. CASE Boot
  <2>1. /\ pc = "boot" /\ UNCHANGED <<nvs, told, tx>>
        /\ \/ nvs = 0 /\ pc' = "idle" /\ fl' = fl
           \/ nvs # 0 /\ pc' = "poll" /\ fl'.sale = nvs /\ fl'.active
    BY <1>5 DEF Boot, StartPoll
  <2>2. ~fl.active
    BY <2>1 DEF FlowInv, ActiveFits
  <2> QED
    BY <2>1, <2>2, StillRecorded
<1>6. CASE Reset
  <2>1. pc' = "boot" /\ ~fl'.active /\ UNCHANGED <<nvs, told, tx>>
    BY <1>6 DEF Reset
  <2> QED
    BY <2>1, StillRecorded
<1>7. CASE ChainStep /\ TillUnchanged
  <2>1. UNCHANGED <<pc, fl, nvs, told>>
    BY <1>7 DEF TillUnchanged
  <2>2. \A s \in Sales : tx'[s] # tx[s] => Loose(s)
    BY <1>7, ChainMovesLoose
  <2>3. OutIsRecorded'
    BY <2>1, <2>2 DEF OutIsRecorded, Loose
  <2> QED
    BY <2>1, <2>3
<1> QED
  BY <1>1, <1>2, <1>3, <1>4, <1>5, <1>6, <1>7 DEF Settle

LEMMA RecordHolds == ASSUME RecordSafe PROVE Spec => [](FlowInv /\ RecordInv)
<1>1. Init => RecordInv
  BY DEF Init, ChainInit, RecordInv, RecordFits, OutIsRecorded, Loose
<1>2. ASSUME SaleInv, FlowInv, RecordInv, [Next]_vars
      PROVE  FlowInv' /\ RecordInv'
  <2>1. FlowInv'
    BY <1>2, FlowStep DEF RecordSafe, NoRearm
  <2>2. CASE UNCHANGED vars
    BY <1>2, <2>1, <2>2, StillRecorded
       DEF vars, chainVars, mainVars, history, RecordInv, RecordFits
  <2>3. CASE Next
    BY <1>2, <2>1, <2>3, RecordMain, RecordPay, RecordRest DEF Next, MainStep
  <2> QED
    BY <1>2, <2>1, <2>2, <2>3
<1>3. SaleInv /\ FlowInv /\ RecordInv /\ [Next]_vars => FlowInv' /\ RecordInv'
  BY <1>2
<1> QED
  BY FlowAtStart, SaleInvHolds, <1>1, <1>3, PTL DEF Spec

(* A sale that is out, undecided and not closed has its record in flash:   *)
(* no reset can lose it, and no flipped bit drops it too early.            *)
THEOREM OutRecorded == ASSUME RecordSafe PROVE Spec => []OutIsRecorded
<1>1. RecordInv => OutIsRecorded
  BY DEF RecordInv
<1> QED
  BY <1>1, RecordHolds, PTL

-----------------------------------------------------------------------------
(***************************************************************************)
(* Payment's promise.                                                      *)
(***************************************************************************)

Fates == [s \in Sales |-> Fate(s)]

(* The fate of a sale, before a step and after it. *)
LEMMA FateNow ==
    ASSUME TypeInv, NEW s \in Sales
    PROVE  /\ tx[s] \in {"none", "signed"} =>
                 Fate(s) = IF "declined" \in told[s] THEN "void" ELSE "open"
           /\ Loose(s) => Fate(s) = "out"
           /\ tx[s] = "mined" => Fate(s) = "paid"
           /\ tx[s] \in {"reverted", "dead"} => Fate(s) = "void"
BY SaleTypes DEF Fate, Loose, TxStates

LEMMA FateNext ==
    ASSUME TypeInv', NEW s \in Sales
    PROVE  /\ tx'[s] \in {"none", "signed"} =>
                 Fate(s)' = IF "declined" \in told'[s] THEN "void" ELSE "open"
           /\ Loose(s)' => Fate(s)' = "out"
           /\ tx'[s] = "mined" => Fate(s)' = "paid"
           /\ tx'[s] \in {"reverted", "dead"} => Fate(s)' = "void"
<1>1. tx' \in [Sales -> TxStates]
  BY DEF TypeInv, TypeOK, ChainTypeOK
<1> QED
  BY <1>1 DEF Fate, Loose, TxStates

(* A step that moves no transaction and declines nothing moves no fate.    *)
LEMMA FateStays ==
    ASSUME NEW s \in Sales, tx'[s] = tx[s],
           "declined" \in told'[s] <=> "declined" \in told[s]
    PROVE  Fate(s)' = Fate(s)
BY DEF Fate, Loose

(* Payment's step relation. *)
Kept == [P!Next]_<<[s \in Sales |-> Fate(s)], told>>

LEMMA NothingNew == ASSUME UNCHANGED <<tx, told>> PROVE Kept
<1>1. \A s \in Sales : Fate(s)' = Fate(s)
  BY FateStays
<1> QED
  BY <1>1 DEF Kept

(* Something is said of one sale, and no transaction moves. *)
LEMMA SayingKeeps ==
    ASSUME TypeInv, TypeInv', NEW s \in Sales, NEW v \in Verdicts,
           Tell(s, v), tx' = tx,
           v = "approved" => tx[s] = "mined",
           v = "declined" => tx[s] \in {"none", "signed", "reverted", "dead"}
    PROVE  Kept
<1>1. /\ \A t \in Sales \ {s} : told'[t] = told[t]
      /\ \A t \in Sales : \A w \in Verdicts \ {v} :
            w \in told'[t] <=> w \in told[t]
      /\ v \in told'[s]
  BY TellOne, SaidStays DEF SaleIds
<1>2. \A t \in Sales \ {s} : Fate(t)' = Fate(t)
  BY <1>1, FateStays
<1>3. P!Say(s, v)
  BY DEF P!Say, Tell
<1>4. CASE v = "declined"
  <2>1. Fate(s)' = "void"
    BY <1>1, <1>4, FateNext
  <2>2. Fate(s) \in {"open", "void"}
    BY <1>4, FateNow
  <2>3. Fates' = [Fates EXCEPT ![s] = "void"]
    BY <1>2, <2>1 DEF Fates
  <2>4. P!Decline(s)
    BY <1>3, <1>4, <2>2, <2>3 DEF P!Decline, Fates
  <2> QED
    BY <2>4 DEF Kept, P!Next
<1>5. CASE v # "declined"
  <2>1. "declined" \in told'[s] <=> "declined" \in told[s]
    BY <1>1, <1>5 DEF Verdicts
  <2>2. \A t \in Sales : Fate(t)' = Fate(t)
    BY <1>2, <2>1, FateStays
  <2>3. Fates' = Fates
    BY <2>2 DEF Fates
  <2>4. CASE v = "approved"
    <3>1. Fates[s] = "paid"
      BY <2>4, FateNow DEF Fates
    <3>2. P!Approve(s)
      BY <1>3, <2>3, <2>4, <3>1 DEF P!Approve, Fates
    <3> QED
      BY <3>2 DEF Kept, P!Next
  <2>5. CASE v = "cleared"
    <3>1. P!Clear(s)
      BY <1>3, <2>3, <2>5 DEF P!Clear, Fates
    <3> QED
      BY <3>1 DEF Kept, P!Next
  <2> QED
    BY <1>5, <2>4, <2>5 DEF Verdicts
<1> QED
  BY <1>4, <1>5

(* One transaction moves, and nothing is said. *)
LEMMA MovingKeeps ==
    ASSUME TypeInv, TypeInv', NEW s \in Sales, told' = told,
           \A t \in Sales \ {s} : tx'[t] = tx[t],
           \/ tx[s] = "signed" /\ Loose(s)' /\ told[s] = {}
                 /\ \A t \in Sales : Loose(t) => told[t] # {}
           \/ Loose(s) /\ tx'[s] \in {"mined", "reverted", "dead"}
           \/ Loose(s) /\ Loose(s)'
           \/ tx[s] = "none" /\ tx'[s] = "signed"
    PROVE  Kept
<1>1. \A t \in Sales \ {s} : Fate(t)' = Fate(t)
  BY FateStays
<1>2. CASE \/ Loose(s) /\ Loose(s)'
           \/ tx[s] = "none" /\ tx'[s] = "signed"
  <2>1. Fate(s)' = Fate(s)
    BY <1>2, FateNow, FateNext
  <2>2. \A t \in Sales : Fate(t)' = Fate(t)
    BY <1>1, <2>1
  <2> QED
    BY <2>2 DEF Kept
<1>3. CASE /\ tx[s] = "signed" /\ Loose(s)' /\ told[s] = {}
           /\ \A t \in Sales : Loose(t) => told[t] # {}
  <2>1. Fate(s) = "open" /\ Fate(s)' = "out"
    BY <1>3, FateNow, FateNext
  <2>2. Fates' = [Fates EXCEPT ![s] = "out"] /\ Fates[s] = "open"
    BY <1>1, <2>1 DEF Fates
  <2>3. \A t \in Sales : Fates[t] = "out" => told[t] # {}
    <3>1. ASSUME NEW t \in Sales, Fates[t] = "out" PROVE Loose(t)
      <4>1. Fate(t) = "out"
        BY <3>1 DEF Fates
      <4>2. tx[t] \in TxStates
        BY SaleTypes
      <4> QED
        BY <4>1, <4>2, FateNow DEF TxStates, Loose
    <3> QED
      BY <1>3, <3>1
  <2>4. P!Release(s)
    BY <1>3, <2>2, <2>3 DEF P!Release, P!Become, Fates
  <2> QED
    BY <2>4 DEF Kept, P!Next
<1>4. CASE Loose(s) /\ tx'[s] \in {"mined", "reverted", "dead"}
  <2>1. Fate(s) = "out" /\ Fate(s)' \in {"paid", "void"}
    BY <1>4, FateNow, FateNext
  <2>2. /\ Fates[s] = "out"
        /\ \/ Fates' = [Fates EXCEPT ![s] = "paid"]
           \/ Fates' = [Fates EXCEPT ![s] = "void"]
    BY <1>1, <2>1 DEF Fates
  <2>3. P!Land(s) \/ P!Void(s)
    BY <2>2 DEF P!Land, P!Void, P!Become, Fates
  <2> QED
    BY <2>3 DEF Kept, P!Next
<1> QED
  BY <1>2, <1>3, <1>4 DEF Loose

(* Every step of the till and of the chain is one of Payment's, or none.   *)
LEMMA PromiseStep ==
    ASSUME Untroubled, SaleInv, SaleInv', FlowInv, RecordInv, [Next]_vars
    PROVE  Kept
<1> USE SaleTypes
    DEF SaleInv, mainVars, uiVars, history, chainVars, Goto, Verdicts
<1>1. CASE UNCHANGED vars
  BY <1>1, NothingNew DEF vars
<1>2. CASE UiStep
  BY <1>2, NothingNew
     DEF UiStep, TapCharge, PickAsset, PickRearmsCharge, Pick, TapSend,
         PinCancel, PinSubmit, TapCancel, TapNew, TapRecheck
<1>3. CASE Handle
  <2>1. CASE HandleRetry /\ fl.active
    <3>1. fl.sale \in Sales /\ Tell(fl.sale, "cleared") /\ tx' = tx
      BY <2>1 DEF HandleRetry, SaleNamed, SaleIds
    <3> QED
      BY <3>1, SayingKeeps
  <2>2. CASE ~(HandleRetry /\ fl.active)
    BY <1>3, <2>2, NothingNew
       DEF Handle, HandleAmount, HandleCancel, HandleStalePin, HandlePin,
           HandleRecheck, HandleRetry
  <2> QED
    BY <2>1, <2>2
<1>4. CASE AmountShown \/ Boot \/ Reset
  BY <1>4, NothingNew DEF AmountShown, Boot, Reset
<1>5. CASE AmountRefused
  <2>1. /\ Tell(pending, "declined") /\ tx' = tx /\ pending \in Sales
        /\ tx[pending] = "none"
    BY <1>5 DEF AmountRefused, SaleNamed, SaleIds, SaleFacts, PendingIsNew,
                Untouched, InPayment, BeforeSign, AfterSign
  <2> QED
    BY <2>1, SayingKeeps
<1>6. CASE Pay
  <2>1. pc \in InPayment /\ fl.sale \in Sales
    BY <1>6 DEF Pay, ConnectReader, CardWait, CardCancelled, CardTimeout,
         NoCard, CardFound, CardPulled, CardReady, Build, Sign, LastCheck,
         Persist, PersistFails, Send, AnswerOrSilence, AnswerRefused, Refused,
         Refuse, SaleNamed, SaleIds, InPayment, BeforeSign, AfterSign
  <2>2. CASE Sign
    <3>1. /\ told' = told /\ tx' = [tx EXCEPT ![fl.sale] = "signed"]
          /\ tx[fl.sale] = "none"
      BY <2>2 DEF Sign, SaleFacts, SaleInHand, BeforeSign
    <3> QED
      BY <2>1, <3>1, MovingKeeps
  <2>3. CASE Send
    <3>1. /\ told' = told /\ tx' = [tx EXCEPT ![fl.sale] = "wire"]
          /\ tx[fl.sale] = "signed" /\ told[fl.sale] = {}
          /\ nvs = fl.sale
      BY <2>3 DEF Send, SaleFacts, SaleInHand, AfterSign, RecordInv,
                  RecordFits
    <3>2. \A t \in Sales : Loose(t) => told[t] # {}
      BY <3>1 DEF RecordInv, OutIsRecorded, Loose
    <3> QED
      BY <2>1, <3>1, <3>2, MovingKeeps DEF Loose
  <2>4. CASE AnswerRefused
    <3>1. /\ told' = told /\ tx' = [tx EXCEPT ![fl.sale] = "dead"]
          /\ Loose(fl.sale)
      BY <2>4 DEF AnswerRefused, Loose
    <3> QED
      BY <2>1, <3>1, MovingKeeps
  <2>5. CASE Refused
    <3>1. /\ tx' = tx /\ tx[fl.sale] \in {"none", "signed", "dead"}
          /\ told' = told \/ Tell(fl.sale, "declined")
      BY <2>5 DEF Refused, SaleFacts, SaleInHand
    <3> QED
      BY <2>1, <3>1, NothingNew, SayingKeeps
  <2>6. CASE ~Sign /\ ~Send /\ ~AnswerRefused /\ ~Refused
    BY <1>6, <2>6, NothingNew
       DEF Pay, ConnectReader, CardWait, CardCancelled, CardTimeout, NoCard,
           CardFound, CardPulled, CardReady, Build, LastCheck, Persist,
           PersistFails, AnswerOrSilence, Refuse
  <2> QED
    BY <2>2, <2>3, <2>4, <2>5, <2>6
<1>7. CASE Settle
  <2>1. CASE ShowVerdict \/ GateFails
    <3>1. /\ tx' = tx /\ fl.sale \in Sales
          /\ \/ Tell(fl.sale, "approved") /\ tx[fl.sale] = "mined"
             \/ /\ Tell(fl.sale, "declined")
                /\ tx[fl.sale] \in {"signed", "reverted", "dead"}
      BY <2>1 DEF ShowVerdict, GateFails, SaleNamed, SaleIds, SaleFacts,
                  AnswerInHand, Calm, Untroubled
    <3> QED
      BY <3>1, SayingKeeps
  <2>2. CASE ~ShowVerdict /\ ~GateFails
    BY <1>7, <2>2, NothingNew
       DEF Settle, PollFinal, PollExpired, PollExpiredEarly, PollAgain,
           PollGivesUp, Close
  <2> QED
    BY <2>1, <2>2
<1>8. CASE ChainStep /\ TillUnchanged
  <2>1. told' = told
    BY <1>8 DEF TillUnchanged
  <2>2. PICK s \in Sales : /\ \A t \in Sales \ {s} : tx'[t] = tx[t]
                           /\ Loose(s)
                           /\ \/ tx'[s] = "pool"
                              \/ tx'[s] \in {"mined", "reverted", "dead"}
    BY <1>8 DEF ChainStep, NodeTakes, Lost, Mine, Revert, Die, Move, Loose
  <2> QED
    BY <2>1, <2>2, MovingKeeps DEF Loose
<1> QED
  BY <1>1, <1>2, <1>3, <1>4, <1>5, <1>6, <1>7, <1>8 DEF Next, MainStep

(* The till, with its queue, its card, its flash and its resets, keeps     *)
(* Payment's promise: verdicts are true and final, and no sale leaves      *)
(* while another is out and not cleared.                                   *)
THEOREM PromiseKept == ASSUME Untroubled PROVE Spec => KeepsPromise
<1>1. Init => P!Init
  <2> SUFFICES ASSUME Init PROVE P!Init
    OBVIOUS
  <2>1. \A s \in Sales : Fate(s) = "open"
    BY TypeAtStart, FateNow DEF Init, ChainInit, TypeInv
  <2> QED
    BY <2>1 DEF P!Init, Init
<1>2. SaleInv /\ SaleInv' /\ FlowInv /\ RecordInv /\ [Next]_vars
         => [P!Next]_<<[s \in Sales |-> Fate(s)], told>>
  BY PromiseStep DEF Kept
<1>3. Spec => [](FlowInv /\ RecordInv)
  BY RecordHolds DEF Untroubled, RecordSafe
<1> QED
  BY <1>1, <1>2, <1>3, SaleInvHolds, PTL DEF Spec, KeepsPromise, P!Spec

==============================================================================
