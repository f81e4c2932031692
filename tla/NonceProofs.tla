----------------------------- MODULE NonceProofs -----------------------------
(***************************************************************************)
(* A sale that is built while an older one of the same account is still    *)
(* undecided replaces it on an EVM network, or is replaced by it: both     *)
(* never land.  For every number of sales and cards, whatever else goes    *)
(* wrong.                                                                  *)
(*                                                                         *)
(* The till reads the count of the account's transactions in a block and   *)
(* signs that as the nonce, so a later sale never has the smaller nonce;   *)
(* and a chain that has included a nonce includes nothing up to it again.  *)
(***************************************************************************)
EXTENDS SettlementProofs

Evm(s) == ~tron[s]

(* Nonces the chain is past: all up to that of a mined transaction.        *)
Reached(s) == nonce[s] <= LatestCount(card[s])
Passed(s)  == nonce[s] < LatestCount(card[s])

(* Where s_inflight's sale has no transaction yet. *)
Unbuilt == BeforeSign \ {"sign"}

(* s was built while t was undecided. *)
PairKnown(t, s) ==
    /\ s # t /\ s <= started /\ tx[t] \notin {"none", "signed"}
    /\ card[t] = card[s] /\ (Evm(t) <=> Evm(s))
    /\ pc \in Unbuilt => s # fl.sale
    /\ pc \notin InPayment => s # pending

PairOrdered(t, s) ==
    /\ nonce[t] <= nonce[s] /\ Reached(s)
    /\ tx[t] = "mined" => Passed(s)
    /\ ~(tx[t] = "mined" /\ tx[s] = "mined")

SentReached ==
    \A s \in Sales : (Evm(s) /\ tx[s] \notin {"none", "signed"}) =>
        Reached(s) /\ (tx[s] = "mined" => Passed(s))

BuiltReached ==
    (pc \in {"sign"} \cup AfterSign /\ Evm(fl.sale)) => Reached(fl.sale)

PairsKnown == \A p \in over : PairKnown(p[1], p[2])

PairsOrdered == \A p \in over : Evm(p[2]) => PairOrdered(p[1], p[2])

NonceInv == SentReached /\ BuiltReached /\ PairsKnown /\ PairsOrdered

LEMMA ChainTypes ==
    ASSUME TypeInv
    PROVE  /\ tx \in [Sales -> TxStates] /\ card \in [Sales -> Cards]
           /\ nonce \in [Sales -> Nat] /\ tron \in [Sales -> BOOLEAN]
           /\ Sales \subseteq Int /\ 0 \notin Sales
           /\ \A p \in over : p[1] \in Sales /\ p[2] \in Sales
BY DEF TypeInv, TypeOK, ChainTypeOK, HistoryTypeOK, Sales

-----------------------------------------------------------------------------
(***************************************************************************)
(* The account's count.                                                    *)
(***************************************************************************)

Counted(c) == {s \in Sales : /\ ~tron[s]
                             /\ card[s] = c
                             /\ tx[s] \in {"mined", "reverted"}}

LEMMA CountIs == ASSUME NEW c PROVE LatestCount(c) = Cardinality(Counted(c))
BY DEF LatestCount, Counted

LEMMA CountedFinite == ASSUME NEW c PROVE IsFiniteSet(Counted(c))
<1>1. IsFiniteSet(1 .. MaxSales)
  BY ChainAssumption, FS_Interval DEF ChainAssumption
<1> QED
  BY <1>1, FS_Subset DEF Counted, Sales

LEMMA CountType == ASSUME NEW c PROVE LatestCount(c) \in Nat
BY CountIs, CountedFinite, FS_CardinalityType

LEMMA CountTypeNext == ASSUME NEW c PROVE LatestCount(c)' \in Nat
<1>1. LatestCount(c)' = Cardinality(Counted(c)')
  BY DEF LatestCount, Counted
<1>2. IsFiniteSet(1 .. MaxSales)
  BY ChainAssumption, FS_Interval DEF ChainAssumption
<1>3. IsFiniteSet(Counted(c)')
  BY <1>2, FS_Subset DEF Counted, Sales
<1> QED
  BY <1>1, <1>3, FS_CardinalityType

(* The till's own steps leave it alone ...                                 *)
LEMMA CountStays ==
    ASSUME NEW c, Counted(c)' = Counted(c)
    PROVE  LatestCount(c)' = LatestCount(c)
BY DEF LatestCount, Counted

(* ... and the chain never takes it back.                                  *)
LEMMA CountGrows ==
    ASSUME NEW c, Counted(c) \subseteq Counted(c)'
    PROVE  /\ LatestCount(c) <= LatestCount(c)'
           /\ Counted(c) # Counted(c)' => LatestCount(c) < LatestCount(c)'
<1>1. IsFiniteSet(1 .. MaxSales)
  BY ChainAssumption, FS_Interval DEF ChainAssumption
<1>2. IsFiniteSet(Counted(c)')
  BY <1>1, FS_Subset DEF Counted, Sales
<1>3. /\ Cardinality(Counted(c)) <= Cardinality(Counted(c)')
      /\ Cardinality(Counted(c)) = Cardinality(Counted(c)') =>
            Counted(c) = Counted(c)'
  BY <1>2, FS_Subset
<1>4. LatestCount(c)' = Cardinality(Counted(c)')
  BY DEF LatestCount, Counted
<1> QED
  BY <1>3, <1>4, CountIs, CountType, CountTypeNext

-----------------------------------------------------------------------------
(***************************************************************************)
(* Steps that move no transaction, sign none and build none.               *)
(***************************************************************************)

LEMMA NonceFrame ==
    ASSUME SaleInv, NonceInv, UNCHANGED <<chainVars, over>>,
           started' \in {started, started + 1},
           pc' \in {"sign"} \cup AfterSign =>
              pc \in {"sign"} \cup AfterSign /\ fl'.sale = fl.sale,
           pc' \in Unbuilt =>
              \/ pc \in Unbuilt /\ fl'.sale = fl.sale
              \/ pc \notin InPayment /\ fl'.sale = pending,
           pc' \notin InPayment =>
              \/ pending' = 0
              \/ pending' = started + 1
              \/ pc \notin InPayment /\ pending' = pending
    PROVE  NonceInv'
<1> USE DEF NonceInv
<1>1. UNCHANGED <<tx, tron, card, nonce>>
  BY DEF chainVars
<1>2. \A c : LatestCount(c)' = LatestCount(c)
  BY <1>1 DEF LatestCount
<1>3. \A s : /\ Evm(s)' <=> Evm(s)
             /\ Reached(s)' <=> Reached(s)
             /\ Passed(s)' <=> Passed(s)
  BY <1>1, <1>2 DEF Evm, Reached, Passed
<1>4. SentReached'
  BY <1>1, <1>3 DEF SentReached
<1>5. BuiltReached'
  BY <1>3 DEF BuiltReached
<1>6. PairsKnown'
  <2> SUFFICES ASSUME NEW p \in over PROVE PairKnown(p[1], p[2])'
    BY DEF PairsKnown
  <2>1. PairKnown(p[1], p[2]) /\ p[2] \in Sales /\ started \in Nat
    BY ChainTypes, SaleTypes DEF PairsKnown, SaleInv
  <2>2. p[2] # 0 /\ p[2] # started + 1 /\ p[2] <= started'
    BY <2>1, ChainTypes DEF PairKnown, SaleInv
  <2> QED
    BY <1>1, <1>3, <2>1, <2>2 DEF PairKnown
<1>7. PairsOrdered'
  BY <1>1, <1>3 DEF PairsOrdered, PairOrdered
<1> QED
  BY <1>4, <1>5, <1>6, <1>7

LEMMA NonceTill ==
    ASSUME SaleInv, NonceInv,
           \/ UNCHANGED vars \/ UiStep \/ Handle \/ AmountRefused
           \/ AmountShown \/ Boot \/ Reset \/ Settle
    PROVE  NonceInv'
<1> USE DEF mainVars, history, chainVars, Goto, InPayment, BeforeSign,
            AfterSign, Unbuilt
<1>1. UNCHANGED <<chainVars, over>>
  BY DEF vars, UiStep, TapCharge, PickAsset, PickRearmsCharge, Pick, TapSend,
         PinCancel, PinSubmit, TapCancel, TapNew, TapRecheck, Handle,
         HandleAmount, HandleCancel, HandleStalePin, HandlePin,
         HandleRecheck, HandleRetry, AmountRefused, AmountShown, Boot, Reset,
         Settle, PollFinal, PollExpired, PollExpiredEarly, PollAgain,
         PollGivesUp, Close, ShowVerdict, GateFails
<1>2. CASE UNCHANGED vars \/ UiStep
  <2>1. UNCHANGED <<pc, fl, pending, started>>
    BY <1>2 DEF vars, UiStep, TapCharge, PickAsset, PickRearmsCharge, Pick,
         TapSend, PinCancel, PinSubmit, TapCancel, TapNew, TapRecheck
  <2> QED
    BY <1>1, <2>1, NonceFrame
<1>3. CASE HandlePin
  <2>1. /\ pc = "idle" /\ pc' = "prepare" /\ fl'.sale = pending
        /\ started' = started
    BY <1>3 DEF HandlePin, Take
  <2> QED
    BY <1>1, <2>1, NonceFrame
<1>4. CASE \/ (Handle /\ ~HandlePin) \/ AmountRefused \/ AmountShown \/ Boot
           \/ Reset \/ Settle
  <2>1. /\ pc' \in {"idle", "amount", "poll", "close", "verdict", "boot"}
        /\ started' \in {started, started + 1}
        /\ \/ pending' = 0
           \/ pending' = started + 1
           \/ /\ pc \in {"idle", "amount", "poll", "close", "verdict", "boot"}
              /\ pending' = pending
    BY <1>4 DEF Handle, Take, StartPoll,
         HandleAmount, HandleCancel, HandleStalePin, HandleRecheck,
         HandleRetry, AmountRefused, AmountShown, Boot, Reset, Settle,
         PollFinal, PollExpired, PollExpiredEarly, PollAgain, PollGivesUp,
         Close, ShowVerdict, GateFails
  <2> QED
    BY <1>1, <2>1, NonceFrame
<1> QED
  BY <1>2, <1>3, <1>4

-----------------------------------------------------------------------------
(***************************************************************************)
(* pay_sign_and_broadcast.                                                 *)
(***************************************************************************)

(* The sale in hand gets its family, or its account and nonce.             *)
LEMMA NonceMade ==
    ASSUME SaleInv, NonceInv, ConnectReader \/ \E c \in Cards : Build(c)
    PROVE  NonceInv'
<1> USE ChainTypes, SaleTypes
    DEF SaleInv, NonceInv, mainVars, history, chainVars, Goto, InPayment,
        BeforeSign, AfterSign, Unbuilt
<1>1. /\ fl.sale \in Sales /\ tx[fl.sale] = "none" /\ pc \in Unbuilt
      /\ UNCHANGED <<tx, fl, pending, started>>
      /\ fl.sale <= started /\ pc' \in {"card", "sign"}
  BY DEF ConnectReader, Build, SaleNamed, SaleIds, SaleFacts, SaleInHand,
         NewSales
<1>2. \A s \in Sales \ {fl.sale} :
         /\ tron'[s] = tron[s] /\ card'[s] = card[s] /\ nonce'[s] = nonce[s]
  BY <1>1 DEF ConnectReader, Build
<1>3. \A c : LatestCount(c)' = LatestCount(c)
  <2> SUFFICES ASSUME NEW c PROVE LatestCount(c)' = LatestCount(c)
    OBVIOUS
  <2>1. Counted(c)' = Counted(c)
    BY <1>1, <1>2 DEF Counted
  <2> QED
    BY <2>1, CountStays
<1>4. \A s \in Sales \ {fl.sale} : /\ Evm(s)' <=> Evm(s)
                                   /\ Reached(s)' <=> Reached(s)
                                   /\ Passed(s)' <=> Passed(s)
  BY <1>2, <1>3 DEF Evm, Reached, Passed
<1>5. SentReached'
  BY <1>1, <1>4 DEF SentReached
<1>6. \A p \in over : p[1] # fl.sale /\ p[2] # fl.sale
  BY <1>1 DEF PairsKnown, PairKnown
<1>7. \A p \in over : PairKnown(p[1], p[2])'
  BY <1>1, <1>2, <1>4, <1>6
     DEF PairsKnown, PairKnown
<1>8. \A p \in over : Evm(p[2])' => PairOrdered(p[1], p[2])'
  BY <1>1, <1>2, <1>4, <1>6 DEF PairsOrdered, PairOrdered
<1>9. CASE ConnectReader
  <2>1. over' = over /\ pc' = "card"
    BY <1>9 DEF ConnectReader
  <2> QED
    BY <1>5, <1>7, <1>8, <2>1 DEF BuiltReached, PairsKnown, PairsOrdered
<1>10. ASSUME NEW c \in Cards, Build(c) PROVE NonceInv'
  <2>1. /\ pc' = "sign" /\ UNCHANGED tron
        /\ card' = [card EXCEPT ![fl.sale] = c]
        /\ nonce' = [nonce EXCEPT ![fl.sale] = LatestCount(c)]
    BY <1>10 DEF Build
  <2>2. \A p \in over' \ over :
           /\ p[2] = fl.sale /\ p[1] \in Sales \ {fl.sale} /\ Loose(p[1])
           /\ card[p[1]] = c /\ tron[p[1]] = tron[fl.sale]
    BY <1>10 DEF Build
  <2>3. card'[fl.sale] = c /\ nonce'[fl.sale] = LatestCount(c)
    BY <1>1, <2>1
  <2>4. Reached(fl.sale)'
    BY <1>1, <1>3, <2>3, CountType DEF Reached
  <2>5. BuiltReached'
    BY <1>1, <2>4 DEF BuiltReached
  <2>6. ASSUME NEW p \in over' \ over PROVE PairKnown(p[1], p[2])'
    <3>1. Evm(p[1])' <=> Evm(p[2])'
      BY <2>1, <2>2, <2>6 DEF Evm
    <3>2. card'[p[1]] = c
      BY <1>2, <2>2, <2>6
    <3>3. tx[p[1]] \notin {"none", "signed"}
      BY <2>2, <2>6 DEF Loose
    <3> QED
      BY <1>1, <2>1, <2>2, <2>3, <2>6, <3>1, <3>2, <3>3 DEF PairKnown
  <2>7. ASSUME NEW p \in over' \ over, Evm(p[2])'
        PROVE  PairOrdered(p[1], p[2])'
    <3>1. /\ p[2] = fl.sale /\ p[1] \in Sales \ {fl.sale}
          /\ tx[p[1]] \in {"wire", "pool"} /\ card[p[1]] = c
      BY <2>2, <2>7 DEF Loose
    <3>2. Evm(p[1])
      BY <2>1, <2>2, <2>7 DEF Evm
    <3>3. Reached(p[1])
      BY <3>1, <3>2 DEF SentReached
    <3>4. nonce[p[1]] <= LatestCount(c)
      BY <3>1, <3>3 DEF Reached
    <3>5. nonce'[p[1]] <= nonce'[p[2]]
      BY <1>2, <2>3, <3>1, <3>4
    <3> QED
      BY <1>1, <2>4, <3>1, <3>5 DEF PairOrdered
  <2> QED
    BY <1>5, <1>7, <1>8, <2>5, <2>6, <2>7 DEF PairsKnown, PairsOrdered
<1> QED
  BY <1>9, <1>10

(* The sale in hand is signed, sent, or refused by the node.               *)
LEMMA NonceSent ==
    ASSUME SaleInv, NonceInv, Sign \/ Send \/ AnswerRefused PROVE NonceInv'
<1> USE ChainTypes, SaleTypes
    DEF SaleInv, NonceInv, mainVars, history, chainVars, Goto
<1>1. /\ fl.sale \in Sales /\ tx[fl.sale] \in {"none", "signed", "wire"}
      /\ UNCHANGED <<tron, card, nonce, over, fl, pending, started>>
      /\ tx'[fl.sale] \in {"signed", "wire", "dead"}
      /\ \A s \in Sales \ {fl.sale} : tx'[s] = tx[s]
      /\ tx'[fl.sale] # "signed" => tx[fl.sale] # "none"
  BY DEF Sign, Send, AnswerRefused, SaleNamed, SaleIds, SaleFacts,
         SaleInHand, BeforeSign, AfterSign
<1>2. \A c : LatestCount(c)' = LatestCount(c)
  <2> SUFFICES ASSUME NEW c PROVE LatestCount(c)' = LatestCount(c)
    OBVIOUS
  <2>1. Counted(c)' = Counted(c)
    BY <1>1 DEF Counted
  <2> QED
    BY <2>1, CountStays
<1>3. \A s : /\ Evm(s)' <=> Evm(s)
             /\ Reached(s)' <=> Reached(s)
             /\ Passed(s)' <=> Passed(s)
  BY <1>1, <1>2 DEF Evm, Reached, Passed
<1>4. SentReached'
  <2>1. (Evm(fl.sale) /\ tx'[fl.sale] # "signed") => Reached(fl.sale)
    <3>1. CASE Sign
      BY <3>1, <1>1 DEF Sign
    <3>2. CASE Send
      BY <3>2 DEF Send, BuiltReached, AfterSign
    <3>3. CASE AnswerRefused
      BY <1>1, <3>3 DEF AnswerRefused, SentReached
    <3> QED
      BY <3>1, <3>2, <3>3
  <2> QED
    BY <1>1, <1>3, <2>1 DEF SentReached
<1>5. BuiltReached'
  <2>1. pc' \in {"lastcheck", "answer", "refused"}
        /\ (pc' = "lastcheck" => pc = "sign")
    BY DEF Sign, Send, AnswerRefused
  <2> QED
    BY <1>1, <1>3, <2>1 DEF BuiltReached, AfterSign
<1>6. PairsKnown'
  <2> SUFFICES ASSUME NEW p \in over PROVE PairKnown(p[1], p[2])'
    BY <1>1 DEF PairsKnown
  <2>1. PairKnown(p[1], p[2]) /\ p[1] \in Sales
    BY DEF PairsKnown
  <2>2. tx'[p[1]] \notin {"none", "signed"}
    <3>1. CASE Sign
      <4>1. tx[fl.sale] = "none"
        BY <3>1 DEF Sign, SaleFacts, SaleInHand, BeforeSign
      <4> QED
        BY <1>1, <2>1, <4>1 DEF PairKnown
    <3>2. CASE Send \/ AnswerRefused
      BY <2>1, <3>2 DEF PairKnown, Send, AnswerRefused
    <3> QED
      BY <3>1, <3>2
  <2>3. pc' \in InPayment /\ pc' \notin Unbuilt
    BY DEF Sign, Send, AnswerRefused, InPayment, AfterSign, BeforeSign,
           Unbuilt
  <2> QED
    BY <1>1, <1>3, <2>1, <2>2, <2>3 DEF PairKnown
<1>7. PairsOrdered'
  <2>1. \A s \in Sales : tx'[s] = "mined" => tx[s] = "mined"
    BY <1>1
  <2> QED
    BY <1>1, <1>3, <2>1 DEF PairsOrdered, PairOrdered
<1> QED
  BY <1>4, <1>5, <1>6, <1>7

LEMMA NoncePay == ASSUME SaleInv, NonceInv, Pay PROVE NonceInv'
<1>1. CASE \/ ConnectReader \/ Sign \/ Send \/ AnswerRefused
           \/ \E c \in Cards : Build(c)
  BY <1>1, NonceMade, NonceSent
<1>2. CASE ~(\/ ConnectReader \/ Sign \/ Send \/ AnswerRefused
             \/ \E c \in Cards : Build(c))
  <2> USE <1>2 DEF mainVars, history, chainVars, Goto, InPayment, BeforeSign,
                   AfterSign, Unbuilt
  <2>1. UNCHANGED <<chainVars, over, started>>
    BY DEF Pay, CardWait, CardCancelled, CardTimeout, NoCard, CardFound,
           CardPulled, CardReady, LastCheck, Persist, PersistFails,
           AnswerOrSilence, Refused, Refuse
  <2>2. \/ pc' \in InPayment /\ pc \in InPayment /\ fl' = fl
           /\ (pc' \in AfterSign => pc \in AfterSign)
           /\ (pc' \in Unbuilt => pc \in Unbuilt)
           /\ pc' # "sign"
        \/ pc' \in {"idle", "poll"} /\ pending' = 0
    BY DEF Pay, CardWait, CardCancelled, CardTimeout, NoCard, CardFound,
           CardPulled, CardReady, LastCheck, Persist, PersistFails,
           AnswerOrSilence, Refused, Refuse, StartPoll
  <2> QED
    BY <2>1, <2>2, NonceFrame
<1> QED
  BY <1>1, <1>2

-----------------------------------------------------------------------------
(***************************************************************************)
(* The chain.                                                              *)
(***************************************************************************)

LEMMA NonceChain ==
    ASSUME SaleInv, NonceInv, ChainStep, TillUnchanged PROVE NonceInv'
<1> USE ChainTypes, SaleTypes
    DEF SaleInv, NonceInv, mainVars, history, TillUnchanged
<1>1. PICK u \in Sales :
         /\ Loose(u) /\ UNCHANGED <<tron, card, nonce>>
         /\ \A s \in Sales \ {u} : tx'[s] = tx[s]
         /\ tx'[u] \in {"pool", "mined", "reverted", "dead"}
         /\ tx'[u] = "mined" => Includable(u)
  BY DEF ChainStep, NodeTakes, Lost, Mine, Revert, Die, Move, Loose
<1>2. tx[u] \in {"wire", "pool"}
  BY <1>1 DEF Loose
<1>3. \A c : /\ LatestCount(c) \in Nat /\ LatestCount(c)' \in Nat
             /\ LatestCount(c) <= LatestCount(c)'
  <2> SUFFICES ASSUME NEW c
               PROVE  /\ LatestCount(c) \in Nat /\ LatestCount(c)' \in Nat
                      /\ LatestCount(c) <= LatestCount(c)'
    OBVIOUS
  <2>1. Counted(c) \subseteq Counted(c)'
    BY <1>1, <1>2 DEF Counted
  <2> QED
    BY <2>1, CountGrows, CountType, CountTypeNext
<1>4. \A s \in Sales : /\ Evm(s)' <=> Evm(s)
                       /\ Reached(s) => Reached(s)'
                       /\ Passed(s) => Passed(s)'
  <2>1. \A s \in Sales : Evm(s)' <=> Evm(s)
    BY <1>1 DEF Evm
  <2>2. \A s \in Sales : /\ Reached(s) => Reached(s)'
                         /\ Passed(s) => Passed(s)'
    BY <1>1, <1>3 DEF Reached, Passed
  <2> QED
    BY <2>1, <2>2
(* Including an EVM transaction passes its nonce, which was the next one. *)
<1>5. (tx'[u] = "mined" /\ Evm(u)) =>
         nonce[u] = LatestCount(card[u]) /\ Passed(u)'
  <2> SUFFICES ASSUME tx'[u] = "mined", Evm(u)
               PROVE  nonce[u] = LatestCount(card[u]) /\ Passed(u)'
    OBVIOUS
  <2>1. PICK c \in Cards : c = card[u] /\ c = card'[u]
    BY <1>1
  <2>2. nonce[u] = LatestCount(c)
    BY <1>1, <2>1 DEF Includable, Evm
  <2>3. Counted(c) \subseteq Counted(c)'
    BY <1>1, <1>2 DEF Counted
  <2>4. u \in Counted(c)' /\ u \notin Counted(c)
    BY <1>1, <1>2, <2>1 DEF Counted, Evm
  <2>5. LatestCount(c) < LatestCount(c)'
    BY <2>3, <2>4, CountGrows
  <2>6. Passed(u)'
    BY <1>1, <2>1, <2>2, <2>5 DEF Passed
  <2> QED
    BY <2>1, <2>2, <2>6
<1>6. SentReached'
  BY <1>1, <1>2, <1>4, <1>5 DEF SentReached
<1>7. BuiltReached'
  <2>1. pc \in {"sign"} \cup AfterSign => fl.sale \in Sales
    BY DEF SaleNamed, SaleIds, AfterSign
  <2> QED
    BY <1>4, <2>1 DEF BuiltReached
<1>8. PairsKnown'
  BY <1>1, <1>4 DEF PairsKnown, PairKnown
<1>9. PairsOrdered'
  <2> SUFFICES ASSUME NEW p \in over, Evm(p[2])
               PROVE  PairOrdered(p[1], p[2])'
    BY <1>4 DEF PairsOrdered
  <2>1. /\ PairOrdered(p[1], p[2]) /\ Evm(p[1]) /\ p[1] # p[2]
        /\ card[p[1]] = card[p[2]] /\ p[1] \in Sales /\ p[2] \in Sales
    BY DEF PairsOrdered, PairsKnown, PairKnown
  <2>2. nonce'[p[1]] <= nonce'[p[2]] /\ Reached(p[2])'
    BY <1>1, <1>4, <2>1 DEF PairOrdered
  <2>3. CASE u \notin {p[1], p[2]} \/ tx'[u] # "mined"
    <3>1. /\ tx'[p[1]] = "mined" => tx[p[1]] = "mined"
          /\ tx'[p[2]] = "mined" => tx[p[2]] = "mined"
      BY <1>1, <2>1, <2>3
    <3> QED
      BY <1>4, <2>1, <2>2, <3>1 DEF PairOrdered
  <2>4. CASE u = p[1] /\ tx'[u] = "mined"
    <3>1. nonce[u] = LatestCount(card[u]) /\ Passed(u)'
      BY <1>5, <2>1, <2>4
    <3>2. nonce[p[2]] = nonce[u] /\ card[p[2]] = card[u]
      <4>1. nonce[p[1]] <= nonce[p[2]] /\ nonce[p[2]] <= LatestCount(card[p[2]])
        BY <2>1 DEF PairOrdered, Reached
      <4> QED
        BY <1>3, <2>1, <2>4, <3>1, <4>1
    <3>3. Passed(p[2])'
      BY <1>1, <3>1, <3>2 DEF Passed
    <3>4. tx'[p[2]] # "mined"
      <4>1. tx[p[2]] = "mined" => Passed(p[2])
        BY <2>1 DEF SentReached
      <4>2. ~Passed(p[2])
        BY <1>3, <3>1, <3>2 DEF Passed
      <4> QED
        BY <1>1, <2>1, <2>4, <4>1, <4>2
    <3> QED
      BY <2>2, <3>3, <3>4 DEF PairOrdered
  <2>5. CASE u = p[2] /\ tx'[u] = "mined"
    <3>1. nonce[u] = LatestCount(card[u])
      BY <1>5, <2>1, <2>5
    <3>2. ~Passed(u)
      BY <1>3, <3>1 DEF Passed
    <3>3. tx[p[1]] # "mined"
      BY <2>1, <2>5, <3>2 DEF PairOrdered
    <3>4. tx'[p[1]] # "mined"
      BY <1>1, <2>1, <2>5, <3>3
    <3> QED
      BY <2>2, <3>4 DEF PairOrdered
  <2> QED
    BY <2>3, <2>4, <2>5
<1> QED
  BY <1>6, <1>7, <1>8, <1>9

(* On an EVM network a sale that was built over an undecided one of the    *)
(* same account never lands beside it, with any upset.                     *)
THEOREM EvmReplaced == Spec => []EvmReplacedNotBeside
<1>1. ASSUME Init PROVE NonceInv
  BY <1>1 DEF Init, ChainInit, NonceInv, SentReached, BuiltReached,
              PairsKnown, PairsOrdered, AfterSign
<1>2. ASSUME SaleInv, NonceInv, [Next]_vars PROVE NonceInv'
  BY <1>2, NonceTill, NoncePay, NonceChain DEF Next, MainStep
<1>3. ASSUME SaleInv, NonceInv PROVE EvmReplacedNotBeside
  <2> SUFFICES ASSUME NEW p \in over, ~tron[p[1]]
               PROVE  ~(tx[p[1]] = "mined" /\ tx[p[2]] = "mined")
    BY DEF EvmReplacedNotBeside
  <2>1. PairKnown(p[1], p[2]) /\ Evm(p[1])
    BY <1>3 DEF NonceInv, PairsKnown, Evm
  <2>2. Evm(p[2])
    BY <2>1 DEF PairKnown
  <2> QED
    BY <1>3, <2>2 DEF NonceInv, PairsOrdered, PairOrdered
<1>4. /\ Init => NonceInv
      /\ SaleInv /\ NonceInv /\ [Next]_vars => NonceInv'
      /\ SaleInv /\ NonceInv => EvmReplacedNotBeside
  BY <1>1, <1>2, <1>3
<1> QED
  BY <1>4, SaleInvHolds, PTL DEF Spec

==============================================================================
