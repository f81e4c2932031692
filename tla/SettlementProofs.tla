-------------------------- MODULE SettlementProofs --------------------------
(***************************************************************************)
(* What Settlement's verdicts, Cancel and signatures promise, for every    *)
(* number of sales, cards, queue slots, poll rounds and resets.            *)
(***************************************************************************)
EXTENDS Settlement, FiniteSetTheorems, TLAPS

-----------------------------------------------------------------------------
(* Types.  RoundsLeft keeps round in range: card_connect's loop is entered *)
(* for a round only while one remains.  SaleNamed says when s_inflight     *)
(* holds a sale, which is what Cancel, the signature and the poll act on.  *)
RoundsLeft == pc \in {"listen", "channel"} => round < PollRounds

SaleNamed == /\ pc \notin {"boot", "idle", "amount"} => fl.sale # 0
             /\ fl.active => fl.sale # 0
             /\ pc = "amount" => pending # 0

TypeInv == TypeOK /\ RoundsLeft /\ SaleNamed

(* xQueueSend keeps the queue within its length, whatever it is given.     *)
LEMMA PostType ==
    ASSUME NEW e \in Events, Post(e),
           queue \in Seq(Events), Len(queue) <= QueueLen
    PROVE  queue' \in Seq(Events) /\ Len(queue') <= QueueLen
BY SettlementAssumption DEF SettlementAssumption, Post

(* xQueueReceive shortens it. *)
LEMMA TakeType ==
    ASSUME NEW e \in Events, Take(e),
           queue \in Seq(Events), Len(queue) <= QueueLen
    PROVE  queue' \in Seq(Events) /\ Len(queue') <= QueueLen
BY SettlementAssumption DEF SettlementAssumption, Take

(* The nonce a node answers with is a natural number. *)
LEMMA LatestCountType == ASSUME NEW c PROVE LatestCount(c) \in Nat
<1> DEFINE S == {s \in Sales : /\ ~tron[s]
                               /\ card[s] = c
                               /\ tx[s] \in {"mined", "reverted"}}
<1>1. IsFiniteSet(1 .. MaxSales)
  BY ChainAssumption, FS_Interval DEF ChainAssumption
<1>2. IsFiniteSet(S)
  BY <1>1, FS_Subset DEF Sales
<1> QED
  BY <1>2, FS_CardinalityType DEF LatestCount

(* The till starts well typed. *)
LEMMA TypeAtStart == Init => TypeInv
<1> SUFFICES ASSUME Init PROVE TypeInv
  OBVIOUS
<1> USE ChainAssumption, SettlementAssumption
    DEF ChainAssumption, SettlementAssumption, Init
<1>1. ChainTypeOK
  BY DEF ChainInit, ChainTypeOK, TxStates
<1>2. MainTypeOK
  BY DEF MainTypeOK, Pcs, SaleIds
<1>3. UiTypeOK
  BY DEF UiTypeOK, Screens, SaleIds
<1>4. HistoryTypeOK
  BY DEF HistoryTypeOK
<1>5. queue \in Seq(Events) /\ Len(queue) <= QueueLen
  OBVIOUS
<1>6. cancelled \in BOOLEAN /\ nvs \in SaleIds /\ started \in SaleIds
  BY DEF SaleIds
<1>7. resets \in 0 .. MaxResets /\ RoundsLeft /\ SaleNamed
  BY DEF RoundsLeft, SaleNamed
<1> QED
  BY <1>1, <1>2, <1>3, <1>4, <1>5, <1>6, <1>7 DEF TypeInv, TypeOK

(* The queue, whoever posts to it or takes from it. *)
LEMMA QueueType ==
    ASSUME TypeInv, [Next]_vars
    PROVE  queue' \in Seq(Events) /\ Len(queue') <= QueueLen
<1> USE SettlementAssumption
    DEF SettlementAssumption, TypeInv, TypeOK
<1>1. CASE UiStep
  BY <1>1, PostType
     DEF UiStep, TapCharge, PickAsset, PickRearmsCharge, Pick, TapSend,
         PinCancel, PinSubmit, TapCancel, TapNew, TapRecheck, Events
<1>2. CASE Handle
  BY <1>2, TakeType
     DEF Handle, HandleAmount, HandleCancel, HandleStalePin, HandlePin,
         HandleRecheck, HandleRetry, Events
<1>3. CASE AmountRefused \/ AmountShown \/ Boot
  BY <1>3 DEF AmountRefused, AmountShown, Boot
<1>4. CASE Pay
  BY <1>4
     DEF Pay, ConnectReader, CardWait, CardCancelled, CardTimeout, NoCard,
         CardFound, CardPulled, CardReady, Build, Sign, LastCheck, Persist,
         PersistFails, Send, AnswerOrSilence, AnswerRefused, Refused, Refuse
<1>5. CASE Settle
  BY <1>5
     DEF Settle, PollFinal, PollExpired, PollExpiredEarly, PollAgain,
         PollGivesUp, Close, ShowVerdict, GateFails
<1>6. CASE Reset
  BY <1>6 DEF Reset
<1>7. CASE (ChainStep /\ TillUnchanged) \/ UNCHANGED vars
  BY <1>7 DEF TillUnchanged, vars
<1> QED
  BY <1>1, <1>2, <1>3, <1>4, <1>5, <1>6, <1>7 DEF Next, MainStep

(* A receipt poll starts on a named sale, with a fresh round. *)
LEMMA StartPollType ==
    ASSUME NEW s \in SaleIds, s # 0, StartPoll(s), pending' \in SaleIds
    PROVE  MainTypeOK' /\ RoundsLeft' /\ SaleNamed'
<1>1. 0 \in 0 .. PollRounds
  BY SettlementAssumption DEF SettlementAssumption
<1>2. fl' \in [sale : SaleIds, active : BOOLEAN] /\ fl'.sale # 0
  BY DEF StartPoll
<1>3. pc' = "poll" /\ round' = 0 /\ rc' = "none"
  BY DEF StartPoll
<1> QED
  BY <1>1, <1>2, <1>3 DEF MainTypeOK, RoundsLeft, SaleNamed, Pcs

(* The main task's own variables. *)
LEMMA MainType ==
    ASSUME TypeInv, [Next]_vars
    PROVE  MainTypeOK' /\ RoundsLeft' /\ SaleNamed'
<1>1. /\ MainTypeOK /\ RoundsLeft /\ SaleNamed
      /\ nvs \in SaleIds
      /\ started < MaxSales => started + 1 \in SaleIds /\ started + 1 # 0
      /\ 0 \in 0 .. PollRounds /\ 0 \in SaleIds
  BY ChainAssumption, SettlementAssumption
     DEF TypeInv, TypeOK, SaleIds, Sales, ChainAssumption,
         SettlementAssumption
<1> USE <1>1 DEF MainTypeOK, RoundsLeft, SaleNamed, mainVars, Goto,
                 Take, Pcs
<1>2. CASE UiStep
  BY <1>2 DEF UiStep, TapCharge, PickAsset, PickRearmsCharge, Pick, TapSend,
              PinCancel, PinSubmit, TapCancel, TapNew, TapRecheck
<1>3. CASE Handle
  <2>1. CASE HandleAmount
    BY <2>1 DEF HandleAmount
  <2>2. CASE HandleCancel \/ HandleStalePin
    BY <2>2 DEF HandleCancel, HandleStalePin
  <2>3. CASE HandlePin
    BY <2>3 DEF HandlePin
  <2>4. CASE HandleRecheck
    BY <2>4, StartPollType DEF HandleRecheck
  <2>5. CASE HandleRetry
    BY <2>5 DEF HandleRetry
  <2> QED
    BY <1>3, <2>1, <2>2, <2>3, <2>4, <2>5 DEF Handle
<1>4. CASE AmountRefused \/ AmountShown \/ Boot
  <2>1. CASE AmountRefused \/ AmountShown
    BY <2>1 DEF AmountRefused, AmountShown
  <2>2. CASE Boot
    BY <2>2, StartPollType DEF Boot
  <2> QED
    BY <1>4, <2>1, <2>2
<1>5. CASE Pay
  <2>1. CASE ConnectReader \/ CardWait \/ CardFound \/ CardReady
    BY <2>1 DEF ConnectReader, CardWait, CardFound, CardReady
  <2>2. CASE NoCard \/ CardPulled
    BY <2>2, SettlementAssumption
       DEF NoCard, CardPulled, SettlementAssumption
  <2>3. CASE CardCancelled \/ CardTimeout
    BY <2>3 DEF CardCancelled, CardTimeout, Refuse
  <2>4. CASE (\E c \in Cards : Build(c)) \/ Sign \/ LastCheck
    BY <2>4 DEF Build, Sign, LastCheck
  <2>5. CASE Persist \/ PersistFails \/ Send
    BY <2>5 DEF Persist, PersistFails, Send
  <2>6. CASE AnswerOrSilence
    BY <2>6, StartPollType DEF AnswerOrSilence
  <2>8. CASE AnswerRefused \/ Refused
    BY <2>8 DEF AnswerRefused, Refused
  <2>7. CASE \E from \in {"prepare", "channel", "checks", "sign",
                          "lastcheck"} : Refuse(from)
    BY <2>7 DEF Refuse
  <2> QED
    BY <1>5, <2>1, <2>2, <2>3, <2>4, <2>5, <2>6, <2>7, <2>8
       DEF Pay
<1>6. CASE Settle
  <2>1. CASE PollAgain
    BY <2>1, SettlementAssumption DEF PollAgain, SettlementAssumption
  <2>2. CASE PollFinal \/ PollExpired \/ PollExpiredEarly \/ PollGivesUp
    BY <2>2 DEF PollFinal, PollExpired, PollExpiredEarly, PollGivesUp
  <2>3. CASE Close \/ ShowVerdict \/ GateFails
    BY <2>3 DEF Close, ShowVerdict, GateFails
  <2> QED
    BY <1>6, <2>1, <2>2, <2>3 DEF Settle
<1>7. CASE Reset
  BY <1>7 DEF Reset
<1>8. CASE (ChainStep /\ TillUnchanged) \/ UNCHANGED vars
  BY <1>8 DEF TillUnchanged, vars
<1> QED
  BY <1>2, <1>3, <1>4, <1>5, <1>6, <1>7, <1>8 DEF Next, MainStep

(* The panel. *)
LEMMA UiType == ASSUME TypeInv, [Next]_vars PROVE UiTypeOK'
<1>1. UiTypeOK /\ (charges < MaxSales => charges + 1 \in SaleIds)
  BY ChainAssumption
     DEF TypeInv, TypeOK, UiTypeOK, SaleIds, Sales, ChainAssumption
<1> USE <1>1 DEF UiTypeOK, uiVars, Show, ShowUnlessCancelled, Screens
<1>2. CASE UiStep
  BY <1>2, SettlementAssumption
     DEF UiStep, TapCharge, PickAsset, PickRearmsCharge, Pick, TapSend,
         PinCancel, PinSubmit, TapCancel, TapNew, TapRecheck,
         SettlementAssumption
<1>3. CASE Handle
  BY <1>3 DEF Handle, HandleAmount, HandleCancel, HandleStalePin, HandlePin,
              HandleRecheck, HandleRetry, StartPoll
<1>4. CASE AmountRefused \/ AmountShown \/ Boot
  BY <1>4 DEF AmountRefused, AmountShown, Boot, StartPoll
<1>5. CASE Pay
  BY <1>5
     DEF Pay, ConnectReader, CardWait, CardCancelled, CardTimeout, NoCard,
         CardFound, CardPulled, CardReady, Build, Sign, LastCheck, Persist,
         PersistFails, Send, AnswerOrSilence, AnswerRefused, Refused, Refuse,
         StartPoll
<1>6. CASE Settle
  BY <1>6
     DEF Settle, PollFinal, PollExpired, PollExpiredEarly, PollAgain,
         PollGivesUp, Close, ShowVerdict, GateFails
<1>7. CASE Reset
  BY <1>7 DEF Reset
<1>8. CASE (ChainStep /\ TillUnchanged) \/ UNCHANGED vars
  BY <1>8 DEF TillUnchanged, vars
<1> QED
  BY <1>2, <1>3, <1>4, <1>5, <1>6, <1>7, <1>8 DEF Next, MainStep

(* What the panel has said, what the card has signed, what was stopped. *)
LEMMA HistoryType == ASSUME TypeInv, [Next]_vars PROVE HistoryTypeOK'
<1>1. /\ HistoryTypeOK /\ SaleNamed
      /\ fl.sale \in SaleIds /\ pending \in SaleIds
  BY DEF TypeInv, TypeOK, MainTypeOK
<1>2. \A v \in Verdicts, s \in SaleIds :
         Tell(s, v) => told' \in [Sales -> SUBSET Verdicts]
  BY <1>1 DEF Tell, HistoryTypeOK
<1> USE <1>1, <1>2 DEF HistoryTypeOK, history, Verdicts
<1>3. CASE UiStep
  <2>1. CASE TapCancel
    BY <2>1 DEF TapCancel, SaleNamed, Unsent, SaleIds
  <2> QED
    BY <1>3, <2>1
       DEF UiStep, TapCharge, PickAsset, PickRearmsCharge, Pick, TapSend,
           PinCancel, PinSubmit, TapNew, TapRecheck
<1>4. CASE Handle
  BY <1>4 DEF Handle, HandleAmount, HandleCancel, HandleStalePin, HandlePin,
              HandleRecheck, HandleRetry
<1>5. CASE AmountRefused \/ AmountShown \/ Boot
  BY <1>5 DEF AmountRefused, AmountShown, Boot
<1>6. CASE Pay
  <2>1. CASE \E c \in Cards : Build(c)
    BY <2>1 DEF Build, SaleNamed, SaleIds
  <2>2. CASE Sign
    <3>1. \A s \in Sales : sigs[s] + 1 \in Nat
      OBVIOUS
    <3>2. sigs' = [sigs EXCEPT ![fl.sale] = sigs[fl.sale] + 1]
      BY <2>2 DEF Sign
    <3>3. sigs' \in [Sales -> Nat]
      BY <3>1, <3>2
    <3> QED
      BY <2>2, <3>3 DEF Sign
  <2> QED
    BY <1>6, <2>1, <2>2
       DEF Pay, ConnectReader, CardWait, CardCancelled, CardTimeout, NoCard,
           CardFound, CardPulled, CardReady, LastCheck, Persist,
           PersistFails, Send, AnswerOrSilence, AnswerRefused, Refused, Refuse
<1>7. CASE Settle
  BY <1>7
     DEF Settle, PollFinal, PollExpired, PollExpiredEarly, PollAgain,
         PollGivesUp, Close, ShowVerdict, GateFails
<1>8. CASE Reset
  BY <1>8 DEF Reset
<1>9. CASE (ChainStep /\ TillUnchanged) \/ UNCHANGED vars
  BY <1>9 DEF TillUnchanged, vars
<1> QED
  BY <1>3, <1>4, <1>5, <1>6, <1>7, <1>8, <1>9 DEF Next, MainStep

(* The transactions, which only the till's own signature, send and refusal *)
(* move besides the chain.                                                 *)
LEMMA ChainType == ASSUME TypeInv, [Next]_vars PROVE ChainTypeOK'
<1>1. ChainTypeOK /\ tronPick \in BOOLEAN
  BY DEF TypeInv, TypeOK, UiTypeOK
<1> USE <1>1 DEF chainVars
<1>2. CASE UNCHANGED chainVars
  BY <1>2 DEF ChainTypeOK
<1>3. CASE Pay
  <2>1. CASE ConnectReader
    BY <2>1 DEF ConnectReader, ChainTypeOK
  <2>2. CASE \E c \in Cards : Build(c)
    <3>1. PICK c \in Cards : Build(c)
      BY <2>2
    <3>2. card' \in [Sales -> Cards] /\ tx' = tx /\ tron' = tron
      BY <3>1 DEF Build, ChainTypeOK
    <3>3. nonce' \in [Sales -> Nat]
      BY <3>1, LatestCountType DEF Build, ChainTypeOK
    <3> QED
      BY <3>2, <3>3 DEF ChainTypeOK
  <2>3. CASE Sign \/ Send \/ AnswerRefused
    BY <2>3 DEF Sign, Send, AnswerRefused, ChainTypeOK, TxStates
  <2> QED
    BY <1>2, <1>3, <2>1, <2>2, <2>3
       DEF Pay, CardWait, CardCancelled, CardTimeout, NoCard, CardFound,
           CardPulled, CardReady, LastCheck, Persist, PersistFails,
           AnswerOrSilence, Refused, Refuse
<1>4. CASE ChainStep
  BY <1>4 DEF ChainTypeOK, TxStates, ChainStep, NodeTakes, Lost, Mine, Revert,
              Die, Move
<1>5. CASE UiStep
  BY <1>2, <1>5
     DEF UiStep, TapCharge, PickAsset, PickRearmsCharge, Pick, TapSend,
         PinCancel, PinSubmit, TapCancel, TapNew, TapRecheck
<1>6. CASE Handle \/ AmountRefused \/ AmountShown \/ Boot \/ Reset
  BY <1>2, <1>6
     DEF Handle, HandleAmount, HandleCancel, HandleStalePin, HandlePin,
         HandleRecheck, HandleRetry, AmountRefused, AmountShown, Boot, Reset
<1>7. CASE Settle
  BY <1>2, <1>7
     DEF Settle, PollFinal, PollExpired, PollExpiredEarly, PollAgain,
         PollGivesUp, Close, ShowVerdict, GateFails
<1> QED
  BY <1>2, <1>3, <1>4, <1>5, <1>6, <1>7 DEF Next, MainStep, vars

(* The flag, the record and the counters. *)
LEMMA RestType ==
    ASSUME TypeInv, [Next]_vars
    PROVE  /\ cancelled' \in BOOLEAN /\ nvs' \in SaleIds
           /\ started' \in SaleIds /\ resets' \in 0 .. MaxResets
<1>1. /\ cancelled \in BOOLEAN /\ nvs \in SaleIds
      /\ started \in SaleIds /\ resets \in 0 .. MaxResets
      /\ started < MaxSales => started + 1 \in SaleIds
      /\ fl.sale \in SaleIds /\ 0 \in SaleIds
  BY ChainAssumption
     DEF TypeInv, TypeOK, MainTypeOK, SaleIds, Sales, ChainAssumption
<1> USE <1>1
<1>2. CASE UiStep
  BY <1>2
     DEF UiStep, TapCharge, PickAsset, PickRearmsCharge, Pick, TapSend,
         PinCancel, PinSubmit, TapCancel, TapNew, TapRecheck
<1>3. CASE Handle
  BY <1>3 DEF Handle, HandleAmount, HandleCancel, HandleStalePin, HandlePin,
              HandleRecheck, HandleRetry
<1>4. CASE AmountRefused \/ AmountShown \/ Boot
  BY <1>4 DEF AmountRefused, AmountShown, Boot
<1>5. CASE Pay
  BY <1>5
     DEF Pay, ConnectReader, CardWait, CardCancelled, CardTimeout, NoCard,
         CardFound, CardPulled, CardReady, Build, Sign, LastCheck, Persist,
         PersistFails, Send, AnswerOrSilence, AnswerRefused, Refused, Refuse
<1>6. CASE Settle
  BY <1>6
     DEF Settle, PollFinal, PollExpired, PollExpiredEarly, PollAgain,
         PollGivesUp, Close, ShowVerdict, GateFails
<1>7. CASE Reset
  <2>1. resets' \in 0 .. MaxResets
    BY <1>7, SettlementAssumption DEF Reset, SettlementAssumption
  <2> QED
    BY <1>7, <2>1 DEF Reset
<1>8. CASE (ChainStep /\ TillUnchanged) \/ UNCHANGED vars
  BY <1>8 DEF TillUnchanged, vars
<1> QED
  BY <1>2, <1>3, <1>4, <1>5, <1>6, <1>7, <1>8 DEF Next, MainStep

(* TypeInv is inductive. *)
LEMMA TypeStep == ASSUME TypeInv, [Next]_vars PROVE TypeInv'
BY QueueType, MainType, UiType, HistoryType, ChainType, RestType
   DEF TypeInv, TypeOK

(* Every variable of the till and of its transactions keeps its type: the  *)
(* queue never outgrows xQueueCreate's length, and a verdict, a signature  *)
(* or a Cancel is only ever recorded of a sale.                            *)
THEOREM TypeCorrect == Spec => []TypeOK
<1>1. TypeInv /\ [Next]_vars => TypeInv'
  BY TypeStep
<1>2. TypeInv => TypeOK
  BY DEF TypeInv
<1> QED
  BY TypeAtStart, <1>1, <1>2, PTL DEF Spec

-----------------------------------------------------------------------------
(***************************************************************************)
(* Verdicts, Cancel and signatures.                                        *)
(*                                                                         *)
(* None of the four properties is inductive by itself: that a sale which   *)
(* has been declined is not sent later rests on there being no way back    *)
(* from a verdict to pending_amount or to pay_sign_and_broadcast, and      *)
(* SaleInv says so place by place of the main task.                        *)
(***************************************************************************)

(* No expiry verdict that is too early, no flipped bit at the gate. *)
Calm == Upsets \cap {"early", "flip"} = {}

Untouched(s) == /\ tx[s] = "none" /\ told[s] = {} /\ sigs[s] = 0
                /\ s \notin stopped

BeforeSign == {"prepare", "card", "listen", "channel", "checks", "sign"}
AfterSign  == {"lastcheck", "persist", "send"}
InPayment  == BeforeSign \cup AfterSign \cup {"answer", "refused"}

(* Sales main has not taken up: nothing has happened to them. *)
NewSales == /\ \A s \in Sales : s > started => Untouched(s)
            /\ fl.sale <= started /\ nvs <= started

(* A pending amount outside pay_sign_and_broadcast is a sale nothing has   *)
(* happened to, and not the one s_inflight is about.                       *)
PendingIsNew ==
    /\ pc = "boot" => pending = 0
    /\ (pending # 0 /\ pc \notin InPayment) =>
          pending <= started /\ pending # fl.sale /\ Untouched(pending)

(* The sale in hand, up to its broadcast and through a refusal. *)
SaleInHand ==
    /\ pc \in BeforeSign => /\ tx[fl.sale] = "none"
                            /\ sigs[fl.sale] = 0
                            /\ told[fl.sale] = {}
    /\ pc \in AfterSign => tx[fl.sale] = "signed" /\ told[fl.sale] = {}
    /\ pc = "refused" => tx[fl.sale] \in {"none", "signed", "dead"}

(* The answer that closes a sale is about a transaction the chain has      *)
(* finished with, or that never left and never will.                       *)
AnswerInHand ==
    pc \in {"close", "verdict"} =>
        /\ rc \in {"success", "reverted", "expired"}
        /\ rc = "success"  => tx[fl.sale] = "mined"
        /\ rc = "reverted" => tx[fl.sale] = "reverted"
        /\ ("early" \notin Upsets /\ rc = "expired") =>
              tx[fl.sale] \in {"signed", "dead"}

(* Cancel on the card screen is read before anything leaves, and is off    *)
(* the panel once it has been read for the last time.                      *)
CancelInTime ==
    /\ pc \in BeforeSign \cup AfterSign /\ fl.sale \in stopped => cancelled
    /\ pc = "lastcheck" => cancelled \/ screen = "SENDING"
    /\ pc \in {"persist", "send"} => ~cancelled /\ screen = "SENDING"

SaleFacts == /\ NewSales
             /\ PendingIsNew
             /\ SaleInHand
             /\ AnswerInHand
             /\ CancelInTime
             /\ Calm => DeclinedNeverLands
             /\ ApprovedIsMined
             /\ CancelStopsSale
             /\ SignedOnce

SaleInv == TypeInv /\ SaleFacts

(* The types SaleFacts needs, of everything it speaks of. *)
LEMMA SaleTypes ==
    ASSUME TypeInv
    PROVE  /\ MaxSales \in Nat /\ Sales = 1 .. MaxSales
           /\ pc \in Pcs /\ SaleNamed
           /\ fl \in [sale : SaleIds, active : BOOLEAN]
           /\ pending \in SaleIds /\ nvs \in SaleIds /\ started \in SaleIds
           /\ SaleIds = 0 .. MaxSales
           /\ tx \in [Sales -> TxStates] /\ sigs \in [Sales -> Nat]
           /\ told \in [Sales -> SUBSET Verdicts] /\ stopped \in SUBSET Sales
BY ChainAssumption
   DEF ChainAssumption, TypeInv, TypeOK, MainTypeOK, HistoryTypeOK,
       ChainTypeOK, SaleIds, Sales

(* A verdict shown of one sale leaves the others' words, and its own other *)
(* words, as they were.                                                    *)
LEMMA TellOne ==
    ASSUME TypeInv, NEW s \in SaleIds, NEW v \in Verdicts, Tell(s, v)
    PROVE  /\ \A t \in Sales \ {s} : told'[t] = told[t]
           /\ \A t \in Sales : \A w \in Verdicts \ {v} :
                 w \in told'[t] <=> w \in told[t]
BY SaleTypes DEF Tell

(* The chain decides only what is loose. *)
LEMMA ChainMovesLoose ==
    ASSUME TypeInv, ChainStep
    PROVE  \A s \in Sales : tx'[s] # tx[s] => Loose(s)
BY SaleTypes
   DEF ChainStep, NodeTakes, Lost, Mine, Revert, Die, Move, Loose

(* A step of the chain touches no fact of the till, and what the till has   *)
(* said of a decided transaction stays true.                               *)
LEMMA ChainKeeps ==
    ASSUME SaleInv, ChainStep, TillUnchanged PROVE SaleFacts'
<1>1. \A s \in Sales :
         tx[s] \in {"none", "signed", "mined", "reverted", "dead"} =>
             tx'[s] = tx[s]
  BY ChainMovesLoose DEF SaleInv, Loose
<1>2. \A s \in Sales : s > started => tx[s] = "none"
  BY DEF SaleInv, SaleFacts, NewSales, Untouched
<1>3. NewSales' /\ PendingIsNew'
  BY <1>1, SaleTypes
     DEF SaleInv, SaleFacts, NewSales, PendingIsNew, Untouched,
         TillUnchanged, mainVars, history, SaleIds
<1>4. SaleInHand' /\ AnswerInHand' /\ CancelInTime'
  BY <1>1, SaleTypes
     DEF SaleInv, SaleFacts, SaleInHand, AnswerInHand, CancelInTime,
         BeforeSign, AfterSign, Calm, SaleNamed, SaleIds,
         TillUnchanged, mainVars, uiVars, history
<1>5. /\ Calm => DeclinedNeverLands'
      /\ ApprovedIsMined' /\ CancelStopsSale' /\ SignedOnce'
  BY <1>1, SaleTypes
     DEF SaleInv, SaleFacts, DeclinedNeverLands, ApprovedIsMined,
         CancelStopsSale, SignedOnce, TillUnchanged, history
<1> QED
  BY <1>3, <1>4, <1>5 DEF SaleFacts, Calm

(* No tap signs, sends or says anything; TapCancel adds to stopped only a  *)
(* sale that has not left.                                                 *)
LEMMA UiKeeps == ASSUME SaleInv, UiStep PROVE SaleFacts'
<1> USE DEF SaleInv, SaleFacts, mainVars, uiVars, history, chainVars
<1>1. CASE TapCancel
  <2> USE <1>1, SaleTypes DEF TapCancel
  <2>1. stopped' = stopped \/ (/\ stopped' = stopped \cup {fl.sale}
                              /\ pc \in BeforeSign \cup {"lastcheck"})
    BY DEF CancelInTime, Unsent, BeforeSign
  <2>2. NewSales' /\ PendingIsNew'
    BY <2>1 DEF NewSales, PendingIsNew, Untouched, InPayment, BeforeSign,
                SaleNamed, SaleIds
  <2>3. SaleInHand' /\ AnswerInHand' /\ (Calm => DeclinedNeverLands')
        /\ ApprovedIsMined' /\ SignedOnce'
    BY DEF SaleInHand, AnswerInHand, DeclinedNeverLands, ApprovedIsMined,
           SignedOnce, Calm
  <2>4. CancelInTime'
    BY DEF CancelInTime
  <2>5. CancelStopsSale'
    BY <2>1 DEF CancelStopsSale, SaleInHand, BeforeSign, AfterSign
  <2> QED
    BY <2>2, <2>3, <2>4, <2>5 DEF Calm
<1>2. CASE ~TapCancel
  <2>1. UNCHANGED <<tx, told, sigs, stopped, started, nvs, cancelled, pc, rc,
                    pending, fl>>
    BY <1>2 DEF UiStep, TapCharge, PickAsset, PickRearmsCharge, Pick,
                TapSend, PinCancel, PinSubmit, TapNew, TapRecheck
  <2>2. screen = "SENDING" => screen' = "SENDING"
    BY <1>2 DEF UiStep, TapCharge, PickAsset, PickRearmsCharge, Pick,
                TapSend, PinCancel, PinSubmit, TapNew, TapRecheck
  <2>3. NewSales' /\ PendingIsNew' /\ SaleInHand' /\ AnswerInHand'
    BY <2>1 DEF NewSales, PendingIsNew, SaleInHand, AnswerInHand, Untouched,
                Calm
  <2>4. CancelInTime'
    BY <2>1, <2>2 DEF CancelInTime
  <2> QED
    BY <2>1, <2>3, <2>4
       DEF Calm, DeclinedNeverLands, ApprovedIsMined, CancelStopsSale,
           SignedOnce
<1> QED
  BY <1>1, <1>2

(* The handlers that run at once, and the amount handler's two ends.       *)
LEMMA HandleKeeps ==
    ASSUME SaleInv, Handle \/ AmountRefused \/ AmountShown PROVE SaleFacts'
<1> USE SaleTypes
    DEF SaleInv, SaleFacts, mainVars, uiVars, history, chainVars, Goto
<1>1. UNCHANGED <<tx, sigs, stopped>>
  BY DEF Handle, HandleAmount, HandleCancel, HandleStalePin, HandlePin,
         HandleRecheck, HandleRetry, AmountRefused, AmountShown
<1>2. CASE HandleAmount
  <2>1. started + 1 \in Sales /\ Untouched(started + 1)
    BY <1>2 DEF HandleAmount, NewSales, SaleIds
  <2>2. NewSales' /\ PendingIsNew'
    BY <1>1, <1>2, <2>1
       DEF HandleAmount, NewSales, PendingIsNew, Untouched, SaleIds
  <2> QED
    BY <1>1, <1>2, <2>2
       DEF HandleAmount, SaleInHand, AnswerInHand, CancelInTime, BeforeSign,
           AfterSign, Calm, DeclinedNeverLands, ApprovedIsMined,
           CancelStopsSale, SignedOnce
<1>3. CASE HandlePin
  <2>1. pending \in Sales /\ Untouched(pending) /\ pending <= started
    BY <1>3 DEF HandlePin, Take, PendingIsNew, InPayment, BeforeSign,
                AfterSign, SaleIds
  <2>2. NewSales' /\ PendingIsNew'
    BY <1>1, <1>3, <2>1
       DEF HandlePin, NewSales, PendingIsNew, Untouched, InPayment,
           BeforeSign
  <2>3. SaleInHand' /\ CancelInTime' /\ AnswerInHand'
    BY <1>1, <1>3, <2>1
       DEF HandlePin, SaleInHand, CancelInTime, AnswerInHand, Untouched,
           AfterSign
  <2> QED
    BY <1>1, <1>3, <2>2, <2>3
       DEF HandlePin, Calm, DeclinedNeverLands, ApprovedIsMined,
           CancelStopsSale, SignedOnce
<1>4. CASE HandleCancel \/ HandleStalePin
  <2>1. pc' = pc /\ pc = "idle"
        /\ UNCHANGED <<rc, pending, fl, told, started, nvs>>
    BY <1>4 DEF HandleCancel, HandleStalePin, Take
  <2> QED
    BY <1>1, <2>1
       DEF NewSales, PendingIsNew, Untouched, SaleInHand, AnswerInHand,
           CancelInTime, BeforeSign, AfterSign, Calm, DeclinedNeverLands,
           ApprovedIsMined, CancelStopsSale, SignedOnce
<1>5. CASE HandleRecheck
  <2>1. /\ pc = "idle" /\ pc' \in {"idle", "poll"}
        /\ UNCHANGED <<pending, told, started, nvs>>
        /\ fl'.sale = fl.sale
    BY <1>5 DEF HandleRecheck, Take, StartPoll
  <2> QED
    BY <1>1, <2>1
       DEF NewSales, PendingIsNew, Untouched, SaleInHand, AnswerInHand,
           CancelInTime, InPayment, BeforeSign, AfterSign, Calm,
           DeclinedNeverLands, ApprovedIsMined, CancelStopsSale, SignedOnce
<1>6. CASE HandleRetry
  <2>1. /\ pc' = pc /\ pc = "idle"
        /\ UNCHANGED <<pending, started>>
        /\ fl'.sale = fl.sale /\ nvs' = 0
    BY <1>6 DEF HandleRetry, Take
  <2>6. told' = told \/ Tell(fl.sale, "cleared")
    BY <1>6 DEF HandleRetry
  <2>4. \A s \in Sales \ {fl.sale} : told'[s] = told[s]
    BY <2>6, TellOne DEF Verdicts
  <2>5. /\ \A s \in Sales : "declined" \in told'[s] => "declined" \in told[s]
        /\ \A s \in Sales : "approved" \in told'[s] => "approved" \in told[s]
    BY <2>6, TellOne DEF Verdicts
  <2>2. NewSales' /\ PendingIsNew'
    <3>1. NewSales'
      BY <1>1, <2>1, <2>4 DEF NewSales, Untouched, SaleIds
    <3>2. PendingIsNew'
      BY <1>1, <2>1, <2>4 DEF PendingIsNew, Untouched, SaleIds
    <3> QED
      BY <3>1, <3>2
  <2>3. SaleInHand' /\ AnswerInHand' /\ CancelInTime'
    BY <2>1 DEF SaleInHand, AnswerInHand, CancelInTime, BeforeSign, AfterSign
  <2>7. (Calm => DeclinedNeverLands') /\ ApprovedIsMined'
    BY <1>1, <2>5 DEF DeclinedNeverLands, ApprovedIsMined
  <2> QED
    BY <1>1, <2>2, <2>3, <2>7
       DEF Calm, DeclinedNeverLands, ApprovedIsMined, CancelStopsSale,
           SignedOnce
<1>7. CASE AmountRefused
  <2>1. pending \in Sales /\ Untouched(pending) /\ pending <= started
    BY <1>7 DEF AmountRefused, PendingIsNew, InPayment, BeforeSign,
                AfterSign, SaleIds, SaleNamed
  <2>2. NewSales' /\ PendingIsNew'
    BY <1>1, <1>7, <2>1
       DEF AmountRefused, NewSales, PendingIsNew, Untouched, Tell
  <2>3. SaleInHand' /\ AnswerInHand' /\ CancelInTime'
    BY <1>7 DEF AmountRefused, SaleInHand, AnswerInHand, CancelInTime,
                BeforeSign, AfterSign
  <2> QED
    BY <1>1, <1>7, <2>1, <2>2, <2>3
       DEF AmountRefused, Tell, Untouched, Calm, DeclinedNeverLands,
           ApprovedIsMined, CancelStopsSale, SignedOnce
<1>8. CASE AmountShown
  <2>1. /\ pc = "amount" /\ pc' = "idle"
        /\ UNCHANGED <<rc, pending, fl, told, started, nvs>>
    BY <1>8 DEF AmountShown
  <2> QED
    BY <1>1, <2>1
       DEF NewSales, PendingIsNew, Untouched, SaleInHand, AnswerInHand,
           CancelInTime, InPayment, BeforeSign, AfterSign, Calm,
           DeclinedNeverLands, ApprovedIsMined, CancelStopsSale, SignedOnce
<1> QED
  BY <1>2, <1>3, <1>4, <1>5, <1>6, <1>7, <1>8 DEF Handle

(* A reset forgets RAM, and Boot takes up only what flash names.           *)
LEMMA BringUpKeeps == ASSUME SaleInv, Boot \/ Reset PROVE SaleFacts'
<1> USE SaleTypes
    DEF SaleInv, SaleFacts, mainVars, uiVars, history, chainVars, Goto
<1>1. UNCHANGED <<tx, told, sigs, stopped, started, nvs>>
  BY DEF Boot, Reset
<1>2. /\ pc' \in {"boot", "idle", "poll"} /\ pending' = 0
      /\ fl'.sale \in {0, nvs, fl.sale}
  BY DEF Boot, Reset, StartPoll, PendingIsNew
<1>3. NewSales' /\ PendingIsNew'
  BY <1>1, <1>2 DEF NewSales, PendingIsNew, Untouched, SaleIds
<1>4. SaleInHand' /\ AnswerInHand' /\ CancelInTime'
  BY <1>2 DEF SaleInHand, AnswerInHand, CancelInTime, BeforeSign, AfterSign
<1> QED
  BY <1>1, <1>3, <1>4
     DEF Calm, DeclinedNeverLands, ApprovedIsMined, CancelStopsSale,
         SignedOnce

(* pay_sign_and_broadcast, step by step: the signature is taken of a sale  *)
(* that has none, and nothing leaves past a raised flag.                   *)
LEMMA PayKeeps == ASSUME SaleInv, Pay PROVE SaleFacts'
<1> USE SaleTypes
    DEF SaleInv, SaleFacts, mainVars, uiVars, history, chainVars, Goto
<1>1. pc \in InPayment /\ fl.sale \in Sales /\ UNCHANGED <<stopped, started>>
  BY DEF Pay, ConnectReader, CardWait, CardCancelled, CardTimeout, NoCard,
         CardFound, CardPulled, CardReady, Build, Sign, LastCheck, Persist,
         PersistFails, Send, AnswerOrSilence, AnswerRefused, Refused, Refuse,
         SaleNamed, SaleIds, InPayment, BeforeSign, AfterSign
<1>2. CASE \/ ConnectReader \/ CardWait \/ NoCard \/ CardFound
           \/ CardPulled \/ CardReady \/ \E c \in Cards : Build(c)
  <2>1. /\ pc \in BeforeSign /\ pc' \in BeforeSign
        /\ UNCHANGED <<tx, rc, pending, fl, told, sigs, nvs, cancelled>>
    BY <1>2 DEF ConnectReader, CardWait, NoCard, CardFound, CardPulled,
                CardReady, Build, BeforeSign
  <2> QED
    BY <1>1, <2>1
       DEF NewSales, PendingIsNew, Untouched, SaleInHand, AnswerInHand,
           CancelInTime, InPayment, BeforeSign, AfterSign, Calm,
           DeclinedNeverLands, ApprovedIsMined, CancelStopsSale, SignedOnce
<1>3. CASE \/ CardCancelled \/ CardTimeout
           \/ \E from \in {"prepare", "channel", "checks", "sign",
                           "lastcheck"} : Refuse(from)
  <2>1. /\ pc \in BeforeSign \cup {"lastcheck"} /\ pc' = "refused"
        /\ UNCHANGED <<tx, rc, pending, fl, told, sigs, nvs, cancelled>>
    BY <1>3 DEF CardCancelled, CardTimeout, Refuse, BeforeSign
  <2> QED
    BY <1>1, <2>1
       DEF NewSales, PendingIsNew, Untouched, SaleInHand, AnswerInHand,
           CancelInTime, InPayment, BeforeSign, AfterSign, Calm,
           DeclinedNeverLands, ApprovedIsMined, CancelStopsSale, SignedOnce
<1>4. CASE Sign
  <2>1. /\ pc = "sign" /\ pc' = "lastcheck"
        /\ tx' = [tx EXCEPT ![fl.sale] = "signed"]
        /\ sigs' = [sigs EXCEPT ![fl.sale] = sigs[fl.sale] + 1]
        /\ UNCHANGED <<rc, pending, fl, told, nvs, cancelled>>
        /\ cancelled \/ screen' = "SENDING"
    BY <1>4 DEF Sign, ShowUnlessCancelled, Show
  <2>2. tx[fl.sale] = "none" /\ sigs[fl.sale] = 0 /\ told[fl.sale] = {}
    BY <2>1 DEF SaleInHand, BeforeSign
  <2>3. NewSales' /\ PendingIsNew'
    BY <1>1, <2>1 DEF NewSales, PendingIsNew, Untouched, InPayment,
                      AfterSign, SaleIds
  <2>4. SaleInHand' /\ AnswerInHand' /\ CancelInTime'
    BY <1>1, <2>1, <2>2
       DEF SaleInHand, AnswerInHand, CancelInTime, BeforeSign, AfterSign
  <2>5. /\ Calm => DeclinedNeverLands'
        /\ ApprovedIsMined' /\ CancelStopsSale'
    BY <1>1, <2>1, <2>2
       DEF DeclinedNeverLands, ApprovedIsMined, CancelStopsSale
  <2>6. SignedOnce'
    BY <2>1, <2>2 DEF SignedOnce
  <2> QED
    BY <2>3, <2>4, <2>5, <2>6 DEF Calm
<1>5. CASE LastCheck \/ Persist \/ PersistFails
  <2>1. /\ UNCHANGED <<tx, rc, pending, fl, told, sigs, cancelled, screen>>
        /\ nvs' \in {nvs, fl.sale}
        /\ \/ pc = "lastcheck" /\ cancelled /\ pc' = "refused"
           \/ pc = "lastcheck" /\ ~cancelled /\ pc' = "persist"
           \/ pc = "persist" /\ pc' = "send"
    BY <1>5 DEF LastCheck, Persist, PersistFails
  <2> QED
    BY <1>1, <2>1
       DEF NewSales, PendingIsNew, Untouched, SaleInHand, AnswerInHand,
           CancelInTime, InPayment, BeforeSign, AfterSign, Calm,
           DeclinedNeverLands, ApprovedIsMined, CancelStopsSale, SignedOnce
<1>6. CASE Send
  <2>1. /\ pc = "send" /\ pc' = "answer"
        /\ tx' = [tx EXCEPT ![fl.sale] = "wire"]
        /\ UNCHANGED <<rc, pending, fl, told, sigs, nvs, cancelled>>
    BY <1>6 DEF Send
  <2>2. tx[fl.sale] = "signed" /\ told[fl.sale] = {} /\ fl.sale \notin stopped
    BY <2>1 DEF SaleInHand, CancelInTime, AfterSign
  <2>3. NewSales' /\ PendingIsNew' /\ SaleInHand' /\ AnswerInHand'
        /\ CancelInTime'
    BY <1>1, <2>1
       DEF NewSales, PendingIsNew, Untouched, InPayment, AfterSign, SaleIds,
           SaleInHand, AnswerInHand, CancelInTime, BeforeSign
  <2> QED
    BY <1>1, <2>1, <2>2, <2>3
       DEF Calm, DeclinedNeverLands, ApprovedIsMined, CancelStopsSale,
           SignedOnce
<1>7. CASE AnswerOrSilence
  <2>1. /\ pc' = "poll" /\ pending' = 0 /\ fl'.sale = fl.sale
        /\ UNCHANGED <<tx, told, sigs, nvs, cancelled>>
    BY <1>7 DEF AnswerOrSilence, StartPoll
  <2> QED
    BY <1>1, <2>1
       DEF NewSales, PendingIsNew, Untouched, SaleInHand, AnswerInHand,
           CancelInTime, BeforeSign, AfterSign, Calm,
           DeclinedNeverLands, ApprovedIsMined, CancelStopsSale, SignedOnce
<1>8. CASE AnswerRefused
  <2>1. /\ pc' = "refused" /\ tx[fl.sale] = "wire"
        /\ tx' = [tx EXCEPT ![fl.sale] = "dead"]
        /\ UNCHANGED <<rc, pending, fl, told, sigs, nvs, cancelled>>
    BY <1>8 DEF AnswerRefused
  <2>2. NewSales' /\ PendingIsNew' /\ SaleInHand' /\ AnswerInHand'
        /\ CancelInTime'
    BY <1>1, <2>1
       DEF NewSales, PendingIsNew, Untouched, InPayment, SaleIds,
           SaleInHand, AnswerInHand, CancelInTime, BeforeSign, AfterSign
  <2> QED
    BY <1>1, <2>1, <2>2
       DEF Calm, DeclinedNeverLands, ApprovedIsMined, CancelStopsSale,
           SignedOnce
<1>9. CASE Refused
  <2>1. /\ pc = "refused" /\ pc' = "idle" /\ pending' = 0 /\ nvs' = 0
        /\ UNCHANGED <<tx, rc, fl, sigs, cancelled>>
    BY <1>9 DEF Refused
  <2>2. tx[fl.sale] \in {"none", "signed", "dead"}
    BY <2>1 DEF SaleInHand
  <2>4. told' = told \/ Tell(fl.sale, "declined")
    BY <1>9 DEF Refused
  <2>5. /\ \A s \in Sales \ {fl.sale} : told'[s] = told[s]
        /\ \A s \in Sales : "approved" \in told'[s] => "approved" \in told[s]
    BY <2>4, TellOne DEF Verdicts
  <2>3. NewSales' /\ PendingIsNew' /\ SaleInHand' /\ AnswerInHand'
        /\ CancelInTime'
    BY <1>1, <2>1, <2>5
       DEF NewSales, PendingIsNew, Untouched, SaleIds,
           SaleInHand, AnswerInHand, CancelInTime, BeforeSign, AfterSign
  <2> QED
    BY <1>1, <2>1, <2>2, <2>3, <2>5
       DEF Calm, DeclinedNeverLands, ApprovedIsMined, CancelStopsSale,
           SignedOnce
<1> QED
  BY <1>2, <1>3, <1>4, <1>5, <1>6, <1>7, <1>8, <1>9 DEF Pay

(* The poll and the verdict: what is said is what the answer in hand says. *)
LEMMA SettleKeeps == ASSUME SaleInv, Settle PROVE SaleFacts'
<1> USE SaleTypes
    DEF SaleInv, SaleFacts, mainVars, uiVars, history, chainVars, Goto
<1>1. /\ UNCHANGED <<tx, sigs, stopped, started, pending, cancelled>>
      /\ fl'.sale = fl.sale /\ fl.sale \in Sales /\ nvs' \in {nvs, 0}
      /\ pc \in {"poll", "close", "verdict"}
      /\ pc' \in {"poll", "close", "verdict", "idle"}
  BY DEF Settle, PollFinal, PollExpired, PollExpiredEarly, PollAgain,
         PollGivesUp, Close, ShowVerdict, GateFails, SaleNamed, SaleIds
<1>2. SaleInHand' /\ CancelInTime' /\ CancelStopsSale' /\ SignedOnce'
  BY <1>1 DEF SaleInHand, CancelInTime, BeforeSign, AfterSign,
              CancelStopsSale, SignedOnce
<1>3. AnswerInHand'
  BY <1>1 DEF Settle, PollFinal, PollExpired, PollExpiredEarly, PollAgain,
              PollGivesUp, Close, ShowVerdict, GateFails, AnswerInHand, Calm
<1>4. \/ told' = told
      \/ /\ Tell(fl.sale, "approved") /\ tx[fl.sale] = "mined"
      \/ /\ Tell(fl.sale, "declined")
         /\ Calm => tx[fl.sale] \in {"signed", "reverted", "dead"}
  BY DEF Settle, PollFinal, PollExpired, PollExpiredEarly, PollAgain,
         PollGivesUp, Close, ShowVerdict, GateFails, AnswerInHand, Calm
<1>8. /\ \A s \in Sales \ {fl.sale} : told'[s] = told[s]
      /\ tx[fl.sale] # "mined" =>
            \A s \in Sales : "approved" \in told'[s] => "approved" \in told[s]
      /\ (Calm /\ tx[fl.sale] \notin {"signed", "reverted", "dead"}) =>
            \A s \in Sales : "declined" \in told'[s] => "declined" \in told[s]
  BY <1>1, <1>4, TellOne DEF Verdicts
<1>5. NewSales' /\ PendingIsNew'
  <2>1. NewSales'
    BY <1>1, <1>8 DEF NewSales, Untouched, SaleIds
  <2>2. PendingIsNew'
    BY <1>1, <1>8 DEF PendingIsNew, Untouched, SaleIds, InPayment,
                      BeforeSign, AfterSign
  <2> QED
    BY <2>1, <2>2
<1>6. Calm => DeclinedNeverLands'
  BY <1>1, <1>8 DEF DeclinedNeverLands
<1>7. ApprovedIsMined'
  BY <1>1, <1>8 DEF ApprovedIsMined
<1> QED
  BY <1>2, <1>3, <1>5, <1>6, <1>7 DEF Calm

(* SaleInv is inductive. *)
LEMMA SaleInvHolds == Spec => []SaleInv
<1>1. Init => SaleInv
  BY TypeAtStart, ChainAssumption
     DEF Init, ChainInit, SaleInv, SaleFacts, NewSales, PendingIsNew,
         SaleInHand, AnswerInHand, CancelInTime, Untouched, BeforeSign,
         AfterSign, DeclinedNeverLands, ApprovedIsMined, CancelStopsSale,
         SignedOnce, Sales, ChainAssumption
<1>2. ASSUME SaleInv, [Next]_vars PROVE SaleInv'
  <2>1. TypeInv'
    BY <1>2, TypeStep DEF SaleInv
  <2>2. CASE UNCHANGED vars
    <3>1. UNCHANGED <<tx, told, sigs, stopped, started, nvs, cancelled,
                      screen, pc, rc, pending, fl>>
      BY <2>2 DEF vars, chainVars, mainVars, uiVars, history
    <3>2. NewSales' /\ PendingIsNew' /\ SaleInHand' /\ AnswerInHand'
          /\ CancelInTime'
      BY <1>2, <3>1
         DEF SaleInv, SaleFacts, NewSales, PendingIsNew, SaleInHand,
             AnswerInHand, CancelInTime, Untouched, Calm
    <3> QED
      BY <1>2, <2>1, <3>1, <3>2
         DEF SaleInv, SaleFacts, Calm, DeclinedNeverLands, ApprovedIsMined,
             CancelStopsSale, SignedOnce
  <2>3. CASE Next
    BY <1>2, <2>1, <2>3, ChainKeeps, UiKeeps, HandleKeeps, BringUpKeeps, PayKeeps,
       SettleKeeps DEF Next, MainStep, SaleInv
  <2> QED
    BY <1>2, <2>1, <2>2, <2>3 DEF SaleInv
<1> QED
  BY <1>1, <1>2, PTL DEF Spec

(* Approved is only ever said of a sale that is in a block, with any       *)
(* resets, flash failures, flipped bits and early expiries.                *)
THEOREM ApprovedSound == Spec => []ApprovedIsMined
BY SaleInvHolds, PTL DEF SaleInv, SaleFacts

(* A declined sale is never paid, provided the expiry test is not early    *)
(* (TronExpiry says when) and no bit flips under the decision gate.        *)
THEOREM DeclinedSound == ASSUME Calm PROVE Spec => []DeclinedNeverLands
<1>1. SaleInv => DeclinedNeverLands
  BY DEF SaleInv, SaleFacts
<1> QED
  BY <1>1, SaleInvHolds, PTL

(* Cancel on the card screen always stops the sale it was tapped for.      *)
THEOREM CancelSound == Spec => []CancelStopsSale
BY SaleInvHolds, PTL DEF SaleInv, SaleFacts

(* No charge takes two signatures from the card. *)
THEOREM OneSignature == Spec => []SignedOnce
BY SaleInvHolds, PTL DEF SaleInv, SaleFacts
=============================================================================
