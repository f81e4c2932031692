---------------------------- MODULE CheckoutProofs ----------------------------
(***************************************************************************)
(* What Money's arithmetic gives for every width and scale, and what       *)
(* Checkout promises of the figures that are signed, for every set of      *)
(* assets, balances and fees, any queue length and any number of charges.  *)
(***************************************************************************)
EXTENDS Checkout, TLAPS

-------------------------------------------------------------------------------
(* Arithmetic.                                                             *)

(* Multiplying by a natural number keeps the order. *)
LEMMA TimesMonotone ==
    ASSUME NEW a \in Nat, NEW b \in Nat, NEW c \in Nat, a <= b
    PROVE  a * c <= b * c
<1> DEFINE d == b - a
<1>1. d \in Nat /\ b = a + d
  OBVIOUS
<1>2. (a + d) * c = a * c + d * c
  BY <1>1
<1>3. d * c >= 0
  BY <1>1
<1> QED
  BY <1>1, <1>2, <1>3

(* Units that pass the limit are multiplied exactly: the word holds them. *)
LEMMA WeiExact ==
    ASSUME NEW u \in Nat, ~TooLarge(u)
    PROVE  Wei(u) = u * WeiPerUnit
<1> USE Scales DEF Scales
<1>1. u * WeiPerUnit <= NativeMaxUnits * WeiPerUnit
  BY TimesMonotone DEF TooLarge
<1> DEFINE p == u * WeiPerUnit
<1>2. p \in Nat /\ p < Word
  BY <1>1
<1> HIDE DEF p
<1>3. p % Word = p
  BY <1>2
<1> QED
  BY <1>3 DEF Wei, p

(* What is left of a division. *)
LEMMA DivMod ==
    ASSUME NEW a \in Nat, NEW d \in Nat \ {0}
    PROVE  /\ a \div d \in Nat /\ a % d \in 0..d - 1
           /\ a = (a \div d) * d + (a % d)
OBVIOUS

(* A fee on the panel, in the units it is printed in, is never less than   *)
(* the fee.                                                                *)
LEMMA CeilingCovers ==
    ASSUME NEW v \in Nat
    PROVE  Ceiling(v) \in Nat /\ v <= Ceiling(v) * ShownUnit
<1> USE Scales DEF Scales
<1> DEFINE q == v \div ShownUnit
           r == v % ShownUnit
<1>1. q \in Nat /\ r \in 0..ShownUnit - 1 /\ v = q * ShownUnit + r
  BY DivMod
<1>2. Ceiling(v) = q + (IF r # 0 THEN 1 ELSE 0)
  BY DEF Ceiling
<1> HIDE DEF q, r
<1>3. CASE r = 0
  BY <1>1, <1>2, <1>3
<1>4. CASE r # 0
  <2>1. Ceiling(v) = q + 1 /\ (q + 1) * ShownUnit = q * ShownUnit + ShownUnit
    BY <1>1, <1>2, <1>4
  <2> QED
    BY <1>1, <2>1
<1> QED
  BY <1>3, <1>4

(* The keypad's ceiling on a coin is not above the one on a token. *)
LEMMA CapType == NativeMaxUnits \div UnitsPerCent \in 0..CentsMax
<1> USE Scales DEF Scales
<1> DEFINE q == NativeMaxUnits \div UnitsPerCent
<1>1. q \in Nat /\ q * UnitsPerCent <= NativeMaxUnits
  BY DivMod
<1> HIDE DEF q
<1>2. ~(q > CentsMax)
  <2> SUFFICES ASSUME q > CentsMax PROVE FALSE
    OBVIOUS
  <2>1. (CentsMax + 1) * UnitsPerCent <= q * UnitsPerCent
    BY <1>1, TimesMonotone
  <2>2. (CentsMax + 1) * UnitsPerCent = CentsMax * UnitsPerCent + UnitsPerCent
    OBVIOUS
  <2>3. CentsMax * UnitsPerCent \in Nat
    OBVIOUS
  <2> QED
    BY <1>1, <2>1, <2>2, <2>3
<1> QED
  BY <1>1, <1>2 DEF q

(* No key takes the figure past its ceiling, or out of it. *)
LEMMA KeysStayUnderCap ==
    ASSUME NEW c \in Nat, NEW cap \in Nat, NEW d \in 0..9
    PROVE  /\ KeyDigit(c, d, cap) \in 0..Most(c, cap)
           /\ Key00(c, cap) \in 0..cap
           /\ KeyBack(c) \in 0..c
<1>1. KeyBack(c) \in 0..c
  <2>1. c \div 10 \in Nat /\ c \div 10 <= c
    OBVIOUS
  <2> QED
    BY <2>1 DEF KeyBack
<1> QED
  BY <1>1 DEF KeyDigit, Key00, Most

(* The floor of a network lifts the cap with the tip. *)
LEMMA FeesOrdered ==
    \A m, t \in Nat : \A p :
        /\ EvmFees(m, t, p) \in [max : Nat, prio : Nat]
        /\ EvmFees(m, t, p).prio <= EvmFees(m, t, p).max
BY Scales DEF Scales, EvmFees, Least, Most

(* A balance that passes covers gas and value together: the subtraction    *)
(* of evm_funds_check cannot wrap, and the value is exact.                 *)
LEMMA FundsCover ==
    ASSUME NEW have \in Nat, NEW gas \in Nat, NEW u \in Nat,
           Funds(TRUE, have, gas, u) = "ok"
    PROVE  gas + u * WeiPerUnit <= have
<1>1. ~(have < gas) /\ ~TooLarge(u) /\ ~(have - gas < Wei(u))
  BY DEF Funds
<1>2. Wei(u) = u * WeiPerUnit /\ u * WeiPerUnit \in Nat
  BY <1>1, WeiExact, Scales DEF Scales
<1> QED
  BY <1>1, <1>2

-------------------------------------------------------------------------------
(* Types.                                                                  *)

(* What is put on a queue or taken off it leaves a queue. *)
LEMMA PostType ==
    ASSUME NEW k \in {"CHARGE", "CANCEL", "PIN", "NEW"}, NEW u \in Amounts,
           k # "CHARGE" => u = 0,
           queue \in Seq(Events), Len(queue) <= QueueLen, Post(k, u)
    PROVE  queue' \in Seq(Events) /\ Len(queue') <= QueueLen
<1>1. [kind |-> k, units |-> u] \in Events
  BY DEF Events
<1> QED
  BY <1>1, Inputs DEF Inputs, Post

LEMMA TakeType ==
    ASSUME NEW k, queue \in Seq(Events), Len(queue) <= QueueLen, Take(k)
    PROVE  /\ queue' \in Seq(Events) /\ Len(queue') <= QueueLen
           /\ Head(queue) \in Events /\ Head(queue).units \in Amounts
<1>1. Head(queue) \in Events
  BY DEF Take
<1>2. 0 \in Amounts
  BY Scales DEF Scales, Amounts, Units
<1>3. Head(queue).units \in Amounts
  BY <1>1, <1>2 DEF Events
<1> QED
  BY <1>1, <1>3, Inputs DEF Take, Inputs

(* Amounts are natural numbers, and nothing is one of them. *)
LEMMA AmountType == /\ Amounts \subseteq Nat /\ 0 \in Amounts
                    /\ \A c \in 0..CentsMax : Units(c) \in Amounts
BY Scales DEF Scales, Amounts, Units

LEMMA FeeTextType ==
    ASSUME NEW a \in Assets, NEW m \in Nat
    PROVE  Gas(a, m) \in Nat /\ FeeText(a, m) \in Nat
<1>1. Gas(a, m) \in Nat
  BY Inputs DEF Inputs, Gas
<1> QED
  BY <1>1, CeilingCovers DEF FeeText

LEMMA NothingType == ASSUME NEW a \in Assets
                     PROVE Nothing \in Shown /\ Nothing.asset \in Assets
<1>1. (CHOOSE b \in Assets : TRUE) \in Assets
  OBVIOUS
<1> QED
  BY <1>1 DEF Nothing, Shown

LEMMA TypeAtStart == Init => TypeOK
<1> SUFFICES ASSUME Init PROVE TypeOK
  OBVIOUS
<1>1. SettingTypeOK
  <2>1. PICK b \in Boots :
          /\ payout  = [f \in Families |-> PayoutOf[b[f]].set]
          /\ inForce = [f \in Families |-> PayoutOf[b[f]].who]
          /\ bad     = [f \in Families |-> PayoutOf[b[f]].bad]
    BY DEF Init
  <2>2. \A f \in Families : b[f] \in {"set", "unset", "rejected"}
    BY Inputs DEF Inputs
  <2>3. \A k \in {"set", "unset", "rejected"} :
          /\ PayoutOf[k].set \in BOOLEAN /\ PayoutOf[k].bad \in BOOLEAN
          /\ PayoutOf[k].who \in {"chosen", "builtin"}
    <3> TAKE k \in {"set", "unset", "rejected"}
    <3>1. CASE k = "set"
      BY <3>1 DEF PayoutOf
    <3>2. CASE k = "unset"
      BY <3>2 DEF PayoutOf
    <3>3. CASE k = "rejected"
      BY <3>3 DEF PayoutOf
    <3> QED
      BY <3>1, <3>2, <3>3
  <2>4. PICK p \in FeePairs : maxFee = p[1] /\ tip = p[2]
    BY DEF Init
  <2>5. maxFee \in Nat \ {0} /\ tip \in Nat \ {0}
    BY <2>4, Inputs DEF Inputs
  <2> QED
    <3>1. /\ chain \in Assets /\ posting = 0
          /\ checked = {a \in Assets : Token(a)} \ OperatorSet
      BY DEF Init
    <3> QED
      BY <2>1, <2>2, <2>3, <2>5, <3>1 DEF SettingTypeOK
<1>0. Nothing \in Shown /\ Nothing.asset \in Assets
  <2>1. chain \in Assets
    BY DEF Init
  <2> QED
    BY <2>1, NothingType
<1>2. PanelTypeOK
  <2>1. /\ screen = "AMOUNT" /\ cents = 0 /\ busy = FALSE
        /\ confirm = Nothing /\ agreed = Nothing
    BY DEF Init
  <2>2. 0 \in 0..CentsMax
    BY Scales DEF Scales
  <2> QED
    BY <1>0, <2>1, <2>2 DEF PanelTypeOK, Screens
<1>3. MainTypeOK
  <2>1. /\ mpc = "idle" /\ asked = Nothing.asset /\ capRead = 0 /\ pending = 0
        /\ saleFee = NoFees
    BY DEF Init
  <2> QED
    BY <1>0, <2>1, AmountType DEF MainTypeOK, NoFees, Fees
<1>4. queue \in Seq(Events) /\ Len(queue) <= QueueLen
  BY Inputs DEF Inputs, Init
<1>5. signed \subseteq Signed /\ switched \in BOOLEAN /\ charges \in Nat /\ posts \in Nat
  BY DEF Init
<1> QED
  BY <1>1, <1>2, <1>3, <1>4, <1>5 DEF TypeOK

(* The pairs the page may store. *)
LEMMA PairType ==
    ASSUME NEW p \in FeePairs
    PROVE  p[1] \in Nat \ {0} /\ p[2] \in Nat \ {0} /\ p[2] <= p[1]
BY Inputs DEF Inputs

LEMMA SettingTypeStep == ASSUME TypeOK, [Next]_vars PROVE SettingTypeOK'
<1> USE DEF TypeOK, SettingTypeOK
<1>1. CASE PostFees
  <2>1. PICK p \in FeePairs : maxFee' = p[1] /\ posting' = p[2]
    BY <1>1 DEF PostFees
  <2>2. UNCHANGED <<chain, payout, inForce, bad, checked, tip>>
    BY <1>1 DEF PostFees, settingVars
  <2> QED
    BY <2>1, <2>2, PairType
<1>2. CASE PostTip
  BY <1>2 DEF PostTip, settingVars
<1>3. CASE AcceptPayout
  BY <1>3 DEF AcceptPayout, feeVars
<1>4. ASSUME NEW a \in Assets, Pick(a) PROVE SettingTypeOK'
  BY <1>4 DEF Pick, settingVars, feeVars
<1>5. CASE Decimals
  <2>1. checked' \subseteq Assets
    BY <1>5 DEF Decimals, MainTypeOK
  <2> QED
    BY <1>5, <2>1 DEF Decimals, MainElsewhere, settingVars, feeVars
<1>6. CASE \/ Key \/ Charge \/ Swipe \/ AdminCancel \/ Cancel \/ Send
           \/ PinCancel \/ PinSubmit \/ New \/ UNCHANGED vars
  BY <1>6 DEF Key, Charge, Swipe, AdminCancel, Cancel, Send, PinCancel,
              PinSubmit, New, vars, settingVars, feeVars
<1>7. CASE \/ TakeCharge \/ TakeChargeRefused \/ DecimalsRefused \/ ReadCap
           \/ Show \/ TakeAmountEntry \/ StalePin \/ TakePin \/ PageWork
           \/ Sign \/ NotSigned
  <2>1. UNCHANGED <<chain, settingVars, checked, feeVars>>
    BY <1>7 DEF TakeCharge, TakeChargeRefused, DecimalsRefused, ReadCap, Show,
                TakeAmountEntry, StalePin, TakePin, PageWork, Sign, NotSigned,
                MainElsewhere
  <2> QED
    BY <2>1 DEF settingVars, feeVars
<1> QED
  BY <1>1, <1>2, <1>3, <1>4, <1>5, <1>6, <1>7
     DEF Next, PanelStep, PageStep, MainStep

LEMMA PanelTypeStep == ASSUME TypeOK, [Next]_vars PROVE PanelTypeOK'
<1> USE DEF TypeOK, PanelTypeOK
<1>0. Nothing \in Shown
  BY NothingType DEF SettingTypeOK
<1>1. CASE Key
  <2>1. CentsMax \in Nat /\ Cap \in 0..CentsMax /\ cents \in 0..CentsMax
    BY CapType, Scales DEF Cap, CentsCap, Scales
  <2> HIDE DEF TypeOK, PanelTypeOK
  <2>2. /\ KeyBack(cents) \in 0..cents
        /\ Key00(cents, Cap) \in 0..Cap
        /\ \A d \in 0..9 : KeyDigit(cents, d, Cap) \in 0..Most(cents, Cap)
    BY <2>1, KeysStayUnderCap
  <2>3. \A n \in 0..cents \cup 0..Cap \cup 0..Most(cents, Cap) : n \in 0..CentsMax
    BY <2>1 DEF Most
  <2>4. \A d \in Digits : d \in 0..9
    BY Inputs DEF Inputs
  <2>5. cents' \in 0..CentsMax
    BY <1>1, <2>2, <2>3, <2>4 DEF Key
  <2> QED
    BY <1>1, <2>5 DEF Key, TypeOK, PanelTypeOK
<1>2. ASSUME NEW a \in Assets, Pick(a) PROVE PanelTypeOK'
  <2>1. CentsMax \in Nat /\ CentsCap(NativeEvm(a)) \in 0..CentsMax
    BY CapType, Scales DEF CentsCap, Scales
  <2>2. Least(cents, CentsCap(NativeEvm(a))) \in 0..CentsMax
    BY <2>1 DEF Least
  <2> QED
    BY <1>2, <2>2 DEF Pick, Rearm
<1>3. CASE Charge \/ Swipe \/ AdminCancel \/ Cancel \/ Send \/ PinCancel
           \/ PinSubmit \/ New
  BY <1>3 DEF Charge, Swipe, Rearm, AdminCancel, Cancel, Send, PinCancel,
              PinSubmit, New, panelVars, Screens
<1>4. CASE PageStep \/ UNCHANGED vars
  BY <1>4 DEF PageStep, PostFees, PostTip, AcceptPayout, vars, panelVars
<1>5. CASE TakeCharge \/ ReadCap \/ StalePin \/ PageWork
  BY <1>5 DEF TakeCharge, ReadCap, StalePin, PageWork, panelVars
<1>6. CASE TakeChargeRefused \/ DecimalsRefused \/ NotSigned
  BY <1>0, <1>6 DEF TakeChargeRefused, DecimalsRefused, NotSigned, Refuse, Screens
<1>7. CASE Decimals \/ TakePin
  BY <1>7 DEF Decimals, TakePin, ToConfirm, ToCard, panelVars, Screens
<1>8. CASE Show
  <2>1. capRead \in Nat /\ tip \in Nat /\ asked \in Assets /\ pending \in Nat
    BY AmountType DEF MainTypeOK, SettingTypeOK
  <2>2. saleFee' \in Fees
    BY <1>8, <2>1, FeesOrdered DEF Show, Fees
  <2>3. FeeText(asked, saleFee'.max) \in Nat
    BY <2>1, <2>2, FeeTextType DEF Fees
  <2>4. inForce[Family(asked)] \in {"chosen", "builtin"}
    BY DEF SettingTypeOK, Family, Families
  <2>5. confirm' \in Shown
    BY <1>8, <2>1, <2>3, <2>4 DEF Show, Shown
  <2> QED
    BY <1>8, <2>5 DEF Show, Screens
<1>9. CASE TakeAmountEntry
  <2>1. 0 \in 0..CentsMax
    BY Scales DEF Scales
  <2> QED
    BY <1>9, <2>1 DEF TakeAmountEntry, AmountEntry, Screens
<1>10. CASE Sign
  BY <1>0, <1>10 DEF Sign
<1> QED
  BY <1>1, <1>2, <1>3, <1>4, <1>5, <1>6, <1>7, <1>8, <1>9, <1>10
     DEF Next, PanelStep, MainStep

LEMMA MainTypeStep == ASSUME TypeOK, [Next]_vars PROVE MainTypeOK'
<1> USE DEF TypeOK, MainTypeOK
<1>0. Nothing.asset \in Assets /\ 0 \in Amounts /\ chain \in Assets
  BY NothingType, AmountType DEF SettingTypeOK
<1>1. CASE PanelStep \/ PageStep \/ UNCHANGED vars
  <2>1. UNCHANGED mainVars
    BY <1>1 DEF PanelStep, Key, Charge, Swipe, AdminCancel, Cancel, Send,
                PinCancel, PinSubmit, New, Pick, PageStep, PostFees, PostTip,
                AcceptPayout, vars
  <2> QED
    BY <2>1 DEF mainVars
<1>2. CASE TakeCharge
  <2>1. Head(queue).units \in Amounts
    BY <1>2, TakeType DEF TakeCharge
  <2> QED
    BY <1>0, <1>2, <2>1 DEF TakeCharge
<1>3. CASE TakeChargeRefused \/ DecimalsRefused \/ NotSigned
  BY <1>0, <1>3 DEF TakeChargeRefused, DecimalsRefused, NotSigned, Refuse, Idle
<1>4. CASE Decimals \/ TakePin
  BY <1>0, <1>4 DEF Decimals, ToConfirm, ToCard, TakePin
<1>5. CASE ReadCap
  BY <1>5 DEF ReadCap, SettingTypeOK
<1>6. CASE Show
  <2>1. saleFee' \in Fees
    BY <1>6, FeesOrdered DEF Show, Fees, SettingTypeOK
  <2> QED
    BY <1>0, <1>6, <2>1 DEF Show, Idle
<1>7. CASE TakeAmountEntry \/ StalePin \/ PageWork
  BY <1>7 DEF TakeAmountEntry, StalePin, PageWork, mainVars
<1>8. CASE Sign
  BY <1>0, <1>8 DEF Sign, Idle
<1> QED
  BY <1>1, <1>2, <1>3, <1>4, <1>5, <1>6, <1>7, <1>8 DEF Next, MainStep

LEMMA QueueTypeStep ==
    ASSUME TypeOK, [Next]_vars
    PROVE  queue' \in Seq(Events) /\ Len(queue') <= QueueLen
<1> USE DEF TypeOK
<1>1. CASE Charge
  <2>1. Units(cents) \in Amounts
    BY AmountType DEF PanelTypeOK
  <2> QED
    BY <1>1, <2>1, PostType DEF Charge
<1>2. CASE Cancel \/ PinSubmit \/ New
  BY <1>2, PostType, AmountType DEF Cancel, PinSubmit, New
<1>3. CASE TakeCharge \/ TakeChargeRefused \/ TakeAmountEntry \/ StalePin \/ TakePin
  BY <1>3, TakeType DEF TakeCharge, TakeChargeRefused, TakeAmountEntry,
                        StalePin, TakePin
<1>4. CASE \/ Decimals \/ DecimalsRefused \/ ReadCap \/ Show \/ PageWork
           \/ Sign \/ NotSigned \/ PageStep \/ UNCHANGED vars
  BY <1>4 DEF Decimals, DecimalsRefused, ReadCap, Show, PageWork, Sign, NotSigned,
              PageStep, PostFees, PostTip, AcceptPayout, vars
<1>5. CASE \/ Key \/ Swipe \/ AdminCancel \/ Send \/ PinCancel
           \/ \E a \in Assets : Pick(a)
  BY <1>5 DEF Key, Swipe, AdminCancel, Send, PinCancel, Pick
<1> QED
  BY <1>1, <1>2, <1>3, <1>4, <1>5 DEF Next, PanelStep, MainStep

(* What is put into a transaction, when a card is asked to sign it. *)
LEMMA FiguresType ==
    ASSUME TypeOK, NEW have \in {{}} \cup {{b} : b \in Balances}
    PROVE  Figures(asked, pending, have) \in Signed
<1> USE DEF TypeOK
<1>1. /\ asked \in Assets /\ pending \in Nat /\ saleFee \in Fees
      /\ agreed \in Shown
  BY AmountType DEF MainTypeOK, PanelTypeOK
<1>2. inForce[Family(asked)] \in {"chosen", "builtin"}
  BY DEF SettingTypeOK, Family, Families
<1>3. Wei(pending) \in Nat
  <2>1. pending * WeiPerUnit \in Nat /\ Word \in Nat \ {0}
    BY <1>1, Scales DEF Scales
  <2> QED
    BY <2>1, DivMod DEF Wei
<1>4. have \in SUBSET Balances
  OBVIOUS
<1> QED
  BY <1>1, <1>2, <1>3, <1>4 DEF Figures, Signed

LEMMA RestTypeStep ==
    ASSUME TypeOK, [Next]_vars
    PROVE  /\ signed' \subseteq Signed
           /\ switched' \in BOOLEAN /\ charges' \in Nat /\ posts' \in Nat
<1> USE DEF TypeOK
<1>1. CASE Sign
  <2>1. PICK have \in {{}} \cup {{b} : b \in Balances} :
          signed' = {Figures(asked, pending, have)}
    BY <1>1 DEF Sign
  <2>2. signed' \subseteq Signed
    BY <2>1, FiguresType
  <2> QED
    BY <1>1, <2>2 DEF Sign, MainElsewhere
<1>2. CASE PanelStep \/ UNCHANGED vars
  <2>1. UNCHANGED <<signed, posts>>
    BY <1>2 DEF PanelStep, Key, Charge, Swipe, AdminCancel, Cancel, Send,
                PinCancel, PinSubmit, New, Pick, mainVars, vars
  <2>2. charges' \in {charges, charges + 1}
    BY <1>2 DEF PanelStep, Key, Charge, Swipe, AdminCancel, Cancel, Send,
                PinCancel, PinSubmit, New, Pick, vars
  <2>3. switched' \in {switched, switched \/ busy}
    BY <1>2 DEF PanelStep, Key, Charge, Swipe, AdminCancel, Cancel, Send,
                PinCancel, PinSubmit, New, Pick, Rearm, vars
  <2> QED
    BY <2>1, <2>2, <2>3 DEF PanelTypeOK
<1>3. CASE PageStep
  BY <1>3 DEF PageStep, PostFees, PostTip, AcceptPayout, mainVars
<1>4. CASE \/ TakeCharge \/ TakeChargeRefused \/ Decimals \/ DecimalsRefused
           \/ ReadCap \/ Show \/ TakeAmountEntry \/ StalePin \/ TakePin
           \/ PageWork \/ NotSigned
  <2>1. UNCHANGED <<switched, charges, posts>>
    BY <1>4 DEF TakeCharge, TakeChargeRefused, Decimals, DecimalsRefused, ReadCap,
                Show, TakeAmountEntry, StalePin, TakePin, PageWork, NotSigned,
                MainElsewhere
  <2>2. signed' \in {signed, {}}
    BY <1>4 DEF TakeCharge, TakeChargeRefused, Decimals, DecimalsRefused, ReadCap,
                Show, TakeAmountEntry, StalePin, TakePin, PageWork, NotSigned,
                mainVars
  <2> QED
    BY <2>1, <2>2
<1> QED
  BY <1>1, <1>2, <1>3, <1>4 DEF Next, MainStep

LEMMA TypeStep == ASSUME TypeOK, [Next]_vars PROVE TypeOK'
BY SettingTypeStep, PanelTypeStep, MainTypeStep, QueueTypeStep, RestTypeStep
   DEF TypeOK

(* Every figure on the panel, on the queue and in a transaction is of the  *)
(* range its type in the code has, for every width and every scale.        *)
THEOREM CheckoutTypeCorrect == Spec => []TypeOK
<1>1. Init => TypeOK
  BY TypeAtStart
<1>2. TypeOK /\ [Next]_vars => TypeOK'
  BY TypeStep
<1> QED
  BY <1>1, <1>2, PTL DEF Spec

-------------------------------------------------------------------------------
(* Values: what holds of a signature however the tasks interleave.         *)
FeesInOrder == saleFee.prio <= saleFee.max

SignedValues == ExactValue /\ TipWithinCap /\ BalanceCovers

ValueInv == TypeOK /\ FeesInOrder /\ SignedValues

(* What is signed passed MaySign with the figures it is signed with. *)
LEMMA SignValues ==
    ASSUME TypeOK, FeesInOrder, Sign
    PROVE  SignedValues'
<1>1. PICK have \in {{}} \cup {{b} : b \in Balances} :
        /\ MaySign(asked, pending, have)
        /\ signed' = {Figures(asked, pending, have)}
  BY DEF Sign
<1> DEFINE s == Figures(asked, pending, have)
<1>2. /\ s.asset = asked /\ s.units = pending /\ s.fees = saleFee
      /\ s.have = have
      /\ s.wei = IF NativeEvm(asked) THEN Wei(pending) ELSE 0
  BY DEF Figures
<1> HIDE DEF s
<1>3. /\ pending \in Nat /\ asked \in Assets
      /\ saleFee.max \in Nat /\ Gas(asked, saleFee.max) \in Nat
  BY AmountType, FeeTextType DEF TypeOK, MainTypeOK, Fees
<1>4. NativeEvm(asked) => ~TooLarge(pending)
  BY <1>1 DEF MaySign
<1>5. NativeEvm(asked) => s.wei = s.units * WeiPerUnit
  BY <1>2, <1>3, <1>4, WeiExact
<1>6. ASSUME NativeEvm(asked), NEW b \in have
      PROVE  Gas(asked, saleFee.max) + pending * WeiPerUnit <= b
  <2>1. Covered(asked, pending, b)
    BY <1>1, <1>6 DEF MaySign
  <2>2. Funds(NativeEvm(asked), b, Gas(asked, saleFee.max), pending)
            \in {"ok", "unknown"}
    BY <1>6, <2>1 DEF Covered, NativeEvm, Family
  <2>3. Funds(TRUE, b, Gas(asked, saleFee.max), pending) = "ok"
    BY <1>4, <1>6, <2>2 DEF Funds
  <2>4. b \in Nat
    BY <1>6, Inputs, Scales DEF Inputs, Scales
  <2> QED
    BY <1>3, <2>3, <2>4, FundsCover
<1>7. signed' = {s}
  BY <1>1 DEF s
<1>8. ExactValue'
  BY <1>2, <1>5, <1>7 DEF ExactValue
<1>9. TipWithinCap'
  BY <1>2, <1>7 DEF TipWithinCap, FeesInOrder
<1>10. BalanceCovers'
  BY <1>2, <1>6, <1>7 DEF BalanceCovers
<1> QED
  BY <1>8, <1>9, <1>10 DEF SignedValues

LEMMA ValueStep == ASSUME ValueInv, [Next]_vars PROVE ValueInv'
<1> USE DEF ValueInv
<1>1. TypeOK'
  BY TypeStep
<1>2. CASE Sign
  <2>1. saleFee' = saleFee
    BY <1>2 DEF Sign
  <2> QED
    BY <1>1, <1>2, <2>1, SignValues DEF FeesInOrder
<1>3. CASE Show
  <2>1. saleFee'.prio <= saleFee'.max
    BY <1>3, FeesOrdered DEF Show, TypeOK, SettingTypeOK, MainTypeOK
  <2>2. signed' = signed
    BY <1>3 DEF Show
  <2> QED
    BY <1>1, <2>1, <2>2
       DEF FeesInOrder, SignedValues, ExactValue, TipWithinCap, BalanceCovers
<1>4. CASE ~Sign /\ ~Show
  <2>1. saleFee' = saleFee /\ signed' \in {signed, {}}
    <3>1. CASE PanelStep \/ PageStep \/ UNCHANGED vars
      BY <3>1 DEF PanelStep, Key, Charge, Swipe, AdminCancel, Cancel, Send,
                  PinCancel, PinSubmit, New, Pick, PageStep, PostFees, PostTip,
                  AcceptPayout, vars, mainVars
    <3>2. CASE MainStep
      BY <1>4, <3>2 DEF MainStep, TakeCharge, TakeChargeRefused, Decimals,
             DecimalsRefused, ReadCap, TakeAmountEntry, StalePin, TakePin,
             PageWork, NotSigned, mainVars
    <3> QED
      BY <3>1, <3>2 DEF Next
  <2> QED
    BY <1>1, <2>1
       DEF FeesInOrder, SignedValues, ExactValue, TipWithinCap, BalanceCovers
<1> QED
  BY <1>2, <1>3, <1>4

LEMMA ValuesHold == Spec => []ValueInv
<1>1. Init => ValueInv
  BY TypeAtStart DEF Init, ValueInv, FeesInOrder, NoFees, SignedValues,
                     ExactValue, TipWithinCap, BalanceCovers
<1>2. ValueInv /\ [Next]_vars => ValueInv'
  BY ValueStep
<1> QED
  BY <1>1, <1>2, PTL DEF Spec

(* The wei of a coin sale are the units signed for, for every word that    *)
(* holds the limit (money.h:105 is looked at on the way to the card).      *)
THEOREM ValueSound == Spec => []ExactValue
<1>1. ValueInv => ExactValue
  BY DEF ValueInv, SignedValues
<1> QED
  BY <1>1, ValuesHold, PTL

(* No interleaving of the config page's two writes and main's two reads    *)
(* signs a tip above its cap: evm_fees_from_gwei orders what it was given. *)
THEOREM TipSound == Spec => []TipWithinCap
<1>1. ValueInv => TipWithinCap
  BY DEF ValueInv, SignedValues
<1> QED
  BY <1>1, ValuesHold, PTL

(* A sale is only signed on a balance that pays gas and value together, if *)
(* the node told one.                                                      *)
THEOREM BalanceSound == Spec => []BalanceCovers
<1>1. ValueInv => BalanceCovers
  BY DEF ValueInv, SignedValues
<1> QED
  BY <1>1, ValuesHold, PTL

-------------------------------------------------------------------------------
(* What is signed, as long as Charge was not armed again under a charge.   *)
(* The argument follows one figure: from the charge that main took up, to  *)
(* the confirm screen, to the PIN on the queue and to the card.  It cannot *)
(* be replaced on the way, because at each of these places the panel is on *)
(* a screen from which neither the asset nor a second charge can be picked *)
(* without arming Charge again.                                            *)
Kind(i)  == queue[i].kind
Slots    == 1..Len(queue)
TakingUp == mpc \in {"decimals", "fees", "show"}

(* A family and a contract a charge is not refused for. *)
Fit(a) == payout[Family(a)] /\ ~bad[Family(a)] /\ a \notin Broken

(* The figure c is what a confirm screen of now would show for the asset. *)
Stands(c, a) ==
    /\ c = [asset |-> a, units |-> pending, payee |-> inForce[Family(a)],
            fee |-> FeeText(a, saleFee.max)]
    /\ Fit(a) /\ Known(a)

(* A tap that ends a screen is first on the queue, with no charge behind.  *)
TapsFirst ==
    \A i \in Slots : Kind(i) \in {"CANCEL", "NEW"} =>
        /\ i = 1 /\ screen \notin {"AMOUNT", "ADMIN"}
        /\ \A j \in Slots : Kind(j) # "CHARGE"

(* A charge is last on the queue, and the only one: Charge is deaf.        *)
ChargeLast ==
    \A i \in Slots : Kind(i) = "CHARGE" =>
        /\ i = Len(queue) /\ ~TakingUp
        /\ screen \in {"AMOUNT", "STATUS"} /\ (screen = "AMOUNT" => busy)

(* While a charge is taken up nothing is queued and the asset stays.       *)
TakesOne ==
    TakingUp => /\ queue = <<>>
                /\ screen \in {"AMOUNT", "STATUS"} /\ (screen = "AMOUNT" => busy)
                /\ asked = chain /\ Fit(asked)
                /\ mpc # "decimals" => Known(asked)

(* A PIN on the queue is for the figure that stands.                       *)
PinStands ==
    \A i \in Slots : Kind(i) = "PIN" =>
        /\ mpc \in {"idle", "page"} /\ screen \in {"STATUS", "AMOUNT"}
        /\ screen = "AMOUNT" => mpc = "idle"
        /\ Stands(agreed, chain)
        /\ \A j \in Slots : Kind(j) = "PIN" => i = j

ConfirmStands ==
    screen \in {"CONFIRM", "PIN"} =>
        mpc \in {"idle", "page"} /\ Stands(confirm, chain)

CardStands ==
    /\ mpc # "again"
    /\ mpc = "sign" => screen = "STATUS" /\ Stands(agreed, asked)

SignedStands ==
    \A s \in signed : /\ SameAsAgreed(s) /\ s.payee = inForce[Family(s.asset)]
                      /\ Fit(s.asset) /\ Known(s.asset)

CalmFacts == /\ ChargeLast /\ TakesOne /\ PinStands
             /\ ConfirmStands /\ CardStands /\ SignedStands

CalmInv == /\ TypeOK /\ TapsFirst
           /\ checked \subseteq SixDecimals \cup Broken
           /\ ~switched => CalmFacts

(* Where the events on the queue come from: a post, or the queue before.   *)
LEMMA PostSlots ==
    ASSUME TypeOK, NEW k, NEW u, Post(k, u)
    PROVE  \A i \in 1..Len(queue') :
              \/ i \in Slots /\ queue'[i] = queue[i] /\ Len(queue) <= Len(queue')
              \/ i = Len(queue) + 1 /\ i = Len(queue') /\ queue'[i].kind = k
<1> DEFINE e == [kind |-> k, units |-> u]
<1>0. queue \in Seq(Events) /\ Len(queue) \in Nat
  BY DEF TypeOK
<1>1. CASE queue' = queue
  BY <1>0, <1>1 DEF Slots
<1>2. CASE queue' = Append(queue, e)
  <2>1. e.kind = k
    OBVIOUS
  <2> HIDE DEF e
  <2>2. /\ Len(queue') = Len(queue) + 1
        /\ \A i \in 1..Len(queue') :
              queue'[i] = IF i <= Len(queue) THEN queue[i] ELSE e
    BY <1>0, <1>2
  <2> QED
    BY <1>0, <2>1, <2>2 DEF Slots
<1> QED
  BY <1>1, <1>2 DEF Post

LEMMA TakeSlots ==
    ASSUME TypeOK, NEW k, Take(k)
    PROVE  /\ 1 \in Slots /\ Kind(1) = k
           /\ Len(queue') = Len(queue) - 1
           /\ \A i \in 1..Len(queue') : i + 1 \in Slots /\ queue'[i] = queue[i + 1]
<1>1. queue \in Seq(Events) /\ queue # <<>> /\ queue' = Tail(queue)
      /\ queue[1].kind = k
  BY DEF TypeOK, Take
<1> QED
  BY <1>1 DEF Slots, Kind

(* The figure a sale stands for moves only with these. *)
standVars == <<pending, saleFee, inForce, payout, bad, checked>>

(* An empty queue has no slots. *)
LEMMA NoSlots == queue = <<>> => Slots = {}
BY DEF Slots

(* The family of an asset is one of the two. *)
LEMMA FamilyType == ASSUME NEW a PROVE Family(a) \in Families
BY DEF Family, Families

(* No step takes a payout address back, or a token's check.                *)
LEMMA SettingsGrow ==
    ASSUME TypeOK, [Next]_vars
    PROVE  /\ inForce' = inForce /\ bad' = bad /\ checked \subseteq checked'
           /\ \A f \in Families : payout[f] => payout'[f]
<1>1. CASE PanelStep \/ UNCHANGED vars
  BY <1>1 DEF PanelStep, Key, Charge, Swipe, AdminCancel, Cancel, Send,
              PinCancel, PinSubmit, New, Pick, vars, settingVars
<1>2. CASE PostFees \/ PostTip
  BY <1>2 DEF PostFees, PostTip, settingVars
<1>3. CASE AcceptPayout
  <2>1. PICK f \in Families : payout' = [payout EXCEPT ![f] = TRUE]
    BY <1>3 DEF AcceptPayout
  <2>2. payout \in [Families -> BOOLEAN]
    BY DEF TypeOK, SettingTypeOK
  <2> QED
    BY <1>3, <2>1, <2>2 DEF AcceptPayout
<1>4. CASE MainStep
  <2>1. UNCHANGED settingVars /\ checked \subseteq checked'
    BY <1>4 DEF MainStep, TakeCharge, TakeChargeRefused, Decimals,
           DecimalsRefused, ReadCap, Show, TakeAmountEntry, StalePin, TakePin,
           PageWork, Sign, NotSigned, MainElsewhere
  <2> QED
    BY <2>1 DEF settingVars
<1> QED
  BY <1>1, <1>2, <1>3, <1>4 DEF Next, PageStep

(* So what stands for an asset stands, unless another amount or other fees *)
(* take its place.                                                         *)
LEMMA StandStays ==
    ASSUME TypeOK, [Next]_vars, UNCHANGED <<pending, saleFee>>
    PROVE  /\ agreed' = agreed /\ chain' = chain /\ Stands(agreed, chain)
                 => Stands(agreed, chain)'
           /\ confirm' = confirm /\ chain' = chain /\ Stands(confirm, chain)
                 => Stands(confirm, chain)'
           /\ agreed' = agreed /\ asked' = asked /\ Stands(agreed, asked)
                 => Stands(agreed, asked)'
           /\ agreed' = confirm /\ chain' = chain /\ Stands(confirm, chain)
                 => Stands(agreed, chain)'
           /\ agreed' = agreed /\ asked' = chain /\ Stands(agreed, chain)
                 => Stands(agreed, asked)'
<1> DEFINE StandsNext(c, a) ==
      /\ c = [asset |-> a, units |-> pending', payee |-> inForce'[Family(a)],
              fee |-> FeeText(a, saleFee'.max)]
      /\ payout'[Family(a)] /\ ~bad'[Family(a)] /\ a \notin Broken
      /\ a \in checked' \/ ~Token(a)
<1>1. ASSUME NEW c, NEW a, Stands(c, a) PROVE StandsNext(c, a)
  BY <1>1, SettingsGrow, FamilyType DEF Stands, Fit, Known
<1>2. Stands(agreed, chain)' <=> StandsNext(agreed', chain')
  BY DEF Stands, Fit, Known
<1>3. Stands(confirm, chain)' <=> StandsNext(confirm', chain')
  BY DEF Stands, Fit, Known
<1>4. Stands(agreed, asked)' <=> StandsNext(agreed', asked')
  BY DEF Stands, Fit, Known
<1> HIDE DEF StandsNext
<1>5. /\ Stands(agreed, chain) => StandsNext(agreed, chain)
      /\ Stands(confirm, chain) => StandsNext(confirm, chain)
      /\ Stands(agreed, asked) => StandsNext(agreed, asked)
  BY <1>1
<1> QED
  BY <1>2, <1>3, <1>4, <1>5

(* Nothing takes the history back.                                         *)
LEMMA CalmBefore ==
    ASSUME CalmInv, [Next]_vars, ~switched'
    PROVE  CalmFacts /\ (Rearm => ~busy)
<1>1. switched' \in {switched, switched \/ busy}
  <2>1. CASE PanelStep \/ PageStep \/ UNCHANGED vars
    BY <2>1 DEF PanelStep, Key, Charge, Swipe, AdminCancel, Cancel, Send,
              PinCancel, PinSubmit, New, Pick, Rearm, PageStep, PostFees,
              PostTip, AcceptPayout, vars
  <2>2. CASE MainStep
    BY <2>2 DEF MainStep, TakeCharge, TakeChargeRefused, Decimals,
           DecimalsRefused, ReadCap, Show, TakeAmountEntry, StalePin, TakePin,
           PageWork, Sign, NotSigned, MainElsewhere
  <2> QED
    BY <2>1, <2>2 DEF Next
<1>2. switched \in BOOLEAN /\ busy \in BOOLEAN
  BY DEF CalmInv, TypeOK, PanelTypeOK
<1> QED
  BY <1>1, <1>2 DEF CalmInv, Rearm

(* The steps by what they do to the queue.                                 *)
Takes == TakeCharge \/ TakeChargeRefused \/ TakeAmountEntry \/ StalePin \/ TakePin

Posts == Charge \/ Cancel \/ PinSubmit \/ New

LEMMA QueueMoves ==
    ASSUME TypeOK, [Next]_vars
    PROVE  /\ ~Posts /\ ~Takes => queue' = queue
           /\ ~TakeAmountEntry /\ screen' \in {"AMOUNT", "ADMIN"}
                 => screen \in {"AMOUNT", "ADMIN"}
<1>1. CASE PanelStep \/ PageStep \/ UNCHANGED vars
  BY <1>1 DEF PanelStep, Posts, Key, Charge, Swipe, AdminCancel, Cancel, Send,
              PinCancel, PinSubmit, New, Pick, PageStep, PostFees, PostTip,
              AcceptPayout, vars, panelVars
<1>2. CASE MainStep
  BY <1>2 DEF MainStep, Takes, TakeCharge, TakeChargeRefused, Decimals,
         DecimalsRefused, ReadCap, Show, TakeAmountEntry, StalePin, TakePin,
         PageWork, Sign, NotSigned, Refuse, ToConfirm, ToCard, panelVars
<1> QED
  BY <1>1, <1>2 DEF Next

LEMMA TapsStep == ASSUME TypeOK, TapsFirst, [Next]_vars PROVE TapsFirst'
<1> USE DEF TapsFirst, Kind, Slots
<1>1. CASE Takes
  <2>1. PICK k : Take(k)
    BY <1>1 DEF Takes, TakeCharge, TakeChargeRefused, TakeAmountEntry, StalePin,
                TakePin
  <2>2. \A i \in 1..Len(queue') : queue'[i].kind \notin {"CANCEL", "NEW"}
    BY <2>1, TakeSlots DEF TypeOK
  <2> QED
    BY <2>2
<1>2. CASE Posts
  <2>0. PICK k \in {"CHARGE", "CANCEL", "PIN", "NEW"} : \E u : Post(k, u)
    BY <1>2 DEF Posts, Charge, Cancel, PinSubmit, New
  <2>1. PICK u : Post(k, u)
    BY <2>0
  <2>2. \A i \in 1..Len(queue') :
            \/ i \in Slots /\ queue'[i] = queue[i] /\ Len(queue) <= Len(queue')
            \/ i = Len(queue) + 1 /\ i = Len(queue') /\ queue'[i].kind = k
    BY <2>1, PostSlots
  <2> QED
    BY <1>2, <2>2 DEF Posts, Charge, Cancel, PinSubmit, New, Post, panelVars
<1>3. CASE ~Takes /\ ~Posts
  BY <1>3, QueueMoves DEF Takes
<1> QED
  BY <1>1, <1>2, <1>3

(* The charge stays where it is until main takes it up. *)
LEMMA ChargeStep ==
    ASSUME CalmInv, [Next]_vars, ~switched'
    PROVE  ChargeLast'
<1> USE DEF ChargeLast, Kind, Slots, TakingUp
<1>0. TypeOK /\ TapsFirst /\ ChargeLast /\ TakesOne /\ CardStands /\ (Rearm => ~busy)
  BY CalmBefore DEF CalmInv, CalmFacts
<1>1. CASE Takes
  <2>1. PICK k : Take(k)
    BY <1>1 DEF Takes, TakeCharge, TakeChargeRefused, TakeAmountEntry, StalePin,
                TakePin
  <2>2. /\ Len(queue') = Len(queue) - 1 /\ Len(queue) \in Nat
        /\ \A i \in 1..Len(queue') : i + 1 \in Slots /\ queue'[i] = queue[i + 1]
    BY <1>0, <2>1, TakeSlots DEF TypeOK
  <2>3. ASSUME NEW i \in 1..Len(queue'), queue'[i].kind = "CHARGE"
        PROVE  /\ i = Len(queue') /\ ~TakeAmountEntry /\ ~TakeCharge
               /\ ~TakeChargeRefused
               /\ screen \in {"AMOUNT", "STATUS"} /\ (screen = "AMOUNT" => busy)
    <3>1. i + 1 = Len(queue) /\ 1 \in Slots /\ 1 # Len(queue)
          /\ screen \in {"AMOUNT", "STATUS"} /\ (screen = "AMOUNT" => busy)
      BY <1>0, <2>2, <2>3
    <3>2. Kind(1) = k /\ Kind(1) # "CHARGE" /\ Kind(1) \notin {"CANCEL", "NEW"}
      BY <1>0, <2>1, <2>2, <2>3, <3>1, TakeSlots DEF TapsFirst
    <3>3. ~TakeCharge /\ ~TakeChargeRefused /\ ~TakeAmountEntry
      BY <3>2 DEF TakeCharge, TakeChargeRefused, TakeAmountEntry, Take
    <3> QED
      BY <2>2, <3>1, <3>3
  <2>4. ASSUME StalePin \/ TakePin
        PROVE  /\ mpc' \in {"idle", "sign", "again"}
               /\ screen' = "STATUS" \/ (screen' = screen /\ busy' = busy)
    BY <2>4 DEF StalePin, TakePin, Take, ToCard, panelVars, mainVars
  <2> QED
    BY <1>1, <2>3, <2>4 DEF Takes
<1>2. CASE Charge
  <2>1. \A i \in 1..Len(queue') :
            \/ i \in Slots /\ queue'[i] = queue[i] /\ Len(queue) <= Len(queue')
            \/ i = Len(queue) + 1 /\ i = Len(queue') /\ queue'[i].kind = "CHARGE"
    BY <1>0, <1>2, PostSlots DEF Charge
  <2> QED
    BY <1>0, <1>2, <2>1 DEF Charge, TakesOne, mainVars
<1>3. CASE Cancel \/ PinSubmit \/ New
  <2>1. PICK k \in {"CANCEL", "PIN", "NEW"} : Post(k, 0)
    BY <1>3 DEF Cancel, PinSubmit, New
  <2>2. \A i \in 1..Len(queue') :
            \/ i \in Slots /\ queue'[i] = queue[i] /\ Len(queue) <= Len(queue')
            \/ i = Len(queue) + 1 /\ i = Len(queue') /\ queue'[i].kind = k
    BY <1>0, <2>1, PostSlots
  <2>3. \A i \in Slots : queue[i].kind # "CHARGE"
    BY <1>0, <1>3 DEF Cancel, PinSubmit, New
  <2> QED
    BY <2>1, <2>2, <2>3
<1>4. CASE \/ Key \/ Swipe \/ AdminCancel \/ Send \/ PinCancel
           \/ \E a \in Assets : Pick(a)
  BY <1>0, <1>4 DEF Key, Swipe, AdminCancel, Send, PinCancel, Pick, mainVars
<1>5. CASE PageStep \/ UNCHANGED vars
  BY <1>0, <1>5 DEF PageStep, PostFees, PostTip, AcceptPayout, vars, panelVars,
                    mainVars
<1>6. CASE Decimals \/ DecimalsRefused \/ ReadCap \/ Show
  <2>1. TakingUp /\ queue' = queue
    BY <1>0, <1>6 DEF Decimals, DecimalsRefused, ReadCap, Show, CardStands
  <2> QED
    BY <1>0, <2>1 DEF TakesOne
<1>7. CASE PageWork \/ Sign \/ NotSigned
  BY <1>0, <1>7 DEF PageWork, Sign, NotSigned, Idle, Refuse, panelVars
<1> QED
  BY <1>1, <1>2, <1>3, <1>4, <1>5, <1>6, <1>7
     DEF Next, PanelStep, MainStep, Takes

(* While main takes one up, the asset it asks about is the one selected. *)
LEMMA TakingStep ==
    ASSUME CalmInv, [Next]_vars, ~switched'
    PROVE  TakesOne'
<1> USE DEF TakingUp
<1>0. TypeOK /\ TapsFirst /\ ChargeLast /\ TakesOne /\ CardStands /\ (Rearm => ~busy)
  BY CalmBefore DEF CalmInv, CalmFacts
<1>1. CASE PanelStep
  <2>1. UNCHANGED mainVars
    BY <1>1 DEF PanelStep, Key, Charge, Swipe, AdminCancel, Cancel, Send,
                PinCancel, PinSubmit, New, Pick
  <2>2. TakingUp => Key
    BY <1>0, <1>1 DEF PanelStep, Charge, Swipe, AdminCancel, Cancel, Send,
                PinCancel, PinSubmit, New, Pick, TakesOne
  <2>3. Key => UNCHANGED <<chain, screen, busy, queue, settingVars, checked>>
    BY DEF Key
  <2> QED
    BY <1>0, <2>1, <2>2, <2>3 DEF TakesOne, Fit, Known, mainVars, settingVars
<1>2. CASE PageStep \/ UNCHANGED vars
  <2>1. UNCHANGED <<mpc, asked, chain, screen, busy, queue>>
    BY <1>2 DEF PageStep, PostFees, PostTip, AcceptPayout, vars, panelVars, mainVars
  <2> QED
    BY <1>0, <2>1, SettingsGrow, FamilyType DEF TakesOne, Fit, Known
<1>3. CASE TakeCharge
  <2>1. Take("CHARGE")
    BY <1>3 DEF TakeCharge
  <2>2. 1 \in Slots /\ Kind(1) = "CHARGE" /\ Len(queue') = Len(queue) - 1
    BY <1>0, <2>1, TakeSlots
  <2>3. /\ 1 = Len(queue) /\ screen \in {"AMOUNT", "STATUS"}
        /\ (screen = "AMOUNT" => busy)
    BY <1>0, <2>2 DEF ChargeLast
  <2>4. queue' \in Seq(Events)
    BY TypeStep, <1>0 DEF TypeOK
  <2>5. queue' = <<>>
    <3>0. Len(queue) \in Nat /\ Len(queue) = 1
      BY <1>0, <2>3 DEF TypeOK
    <3>1. Len(queue') = 0
      BY <2>2, <3>0
    <3> QED
      BY <2>4, <3>1
  <2>6. /\ UNCHANGED <<screen, busy, chain, settingVars, checked>>
        /\ asked' = chain /\ Fit(chain)
        /\ mpc' # "decimals" => Known(chain)
    BY <1>3 DEF TakeCharge, MainElsewhere, MayCharge, Fit, panelVars
  <2> QED
    BY <2>3, <2>5, <2>6 DEF TakesOne, Fit, Known, settingVars
<1>4. CASE Decimals \/ ReadCap
  <2>1. TakingUp /\ queue = <<>> /\ asked = chain /\ Fit(asked)
        /\ screen \in {"AMOUNT", "STATUS"} /\ (screen = "AMOUNT" => busy)
    BY <1>0, <1>4 DEF Decimals, ReadCap, TakesOne, CardStands
  <2>2. /\ UNCHANGED <<chain, settingVars, screen, busy, queue>> /\ asked' = chain
        /\ asked \in checked' \/ ~Token(asked)
    BY <1>0, <1>4, <2>1 DEF Decimals, ReadCap, ToConfirm, MainElsewhere,
       panelVars, CardStands, TakesOne, Known
  <2> QED
    BY <2>1, <2>2 DEF TakesOne, Fit, Known, settingVars
<1>5. CASE \/ TakeChargeRefused \/ DecimalsRefused \/ Show \/ TakeAmountEntry
           \/ StalePin \/ TakePin \/ PageWork \/ Sign \/ NotSigned
  <2>1. mpc' \in {"idle", "page", "sign", "again"}
    BY <1>5 DEF TakeChargeRefused, DecimalsRefused, Show, TakeAmountEntry,
       StalePin, TakePin, PageWork, Sign, NotSigned, Refuse, Idle, ToCard, Take,
       mainVars
  <2> QED
    BY <2>1 DEF TakesOne
<1> QED
  BY <1>1, <1>2, <1>3, <1>4, <1>5 DEF Next, MainStep

(* A PIN is for the figure that stands, until main takes it. *)
LEMMA PinStep ==
    ASSUME CalmInv, [Next]_vars, ~switched'
    PROVE  PinStands'
<1> USE DEF Kind, Slots
<1>0. /\ TypeOK /\ TapsFirst /\ ChargeLast /\ TakesOne /\ CardStands /\ PinStands
      /\ ConfirmStands /\ (Rearm => ~busy)
  BY CalmBefore DEF CalmInv, CalmFacts
<1>1. CASE \/ AdminCancel \/ Send \/ PinCancel \/ Cancel \/ Swipe
           \/ \E a \in Assets : Pick(a)
  <2>1. \A i \in Slots : Kind(i) # "PIN"
    BY <1>0, <1>1 DEF AdminCancel, Send, PinCancel, Cancel, Swipe, Pick, Waiting,
                      PinStands
  <2>2. queue' = queue \/ Post("CANCEL", 0)
    BY <1>1 DEF AdminCancel, Send, PinCancel, Cancel, Swipe, Pick
  <2>3. \A i \in 1..Len(queue') : queue'[i].kind # "PIN"
    <3>1. CASE queue' = queue
      BY <2>1, <3>1
    <3>2. CASE Post("CANCEL", 0)
      BY <1>0, <2>1, <3>2, PostSlots
    <3> QED
      BY <2>2, <3>1, <3>2
  <2> QED
    BY <2>3 DEF PinStands
<1>2. CASE Key \/ Charge \/ New
  <2>1. queue' = queue \/ Post("CHARGE", Units(cents)) \/ Post("NEW", 0)
    BY <1>2 DEF Key, Charge, New
  <2>2. \A i \in 1..Len(queue') : queue'[i].kind = "PIN" =>
            i \in Slots /\ Kind(i) = "PIN"
    <3>1. CASE queue' = queue
      BY <3>1
    <3>2. CASE Post("CHARGE", Units(cents))
      BY <1>0, <3>2, PostSlots
    <3>3. CASE Post("NEW", 0)
      BY <1>0, <3>3, PostSlots
    <3> QED
      BY <2>1, <3>1, <3>2, <3>3
  <2>3. UNCHANGED <<mpc, screen, pending, saleFee, agreed, chain>>
    BY <1>2 DEF Key, Charge, New, panelVars, mainVars
  <2> QED
    BY <1>0, <2>2, <2>3, StandStays DEF PinStands
<1>3. CASE PinSubmit
  <2>1. \A i \in Slots : Kind(i) # "PIN"
    BY <1>0, <1>3 DEF PinSubmit, PinStands
  <2>2. \A i \in 1..Len(queue') : queue'[i].kind = "PIN" => i = Len(queue')
    BY <1>0, <1>3, <2>1, PostSlots DEF PinSubmit
  <2>3. /\ mpc' \in {"idle", "page"} /\ screen' = "STATUS" /\ agreed' = confirm
        /\ UNCHANGED <<pending, saleFee, chain>> /\ Stands(confirm, chain)
    BY <1>0, <1>3 DEF PinSubmit, ConfirmStands, mainVars
  <2> QED
    BY <1>0, <2>2, <2>3, StandStays DEF PinStands
<1>4. CASE PageStep \/ UNCHANGED vars
  <2>1. UNCHANGED <<mpc, screen, pending, saleFee, agreed, chain, queue>>
    BY <1>4 DEF PageStep, PostFees, PostTip, AcceptPayout, vars, panelVars, mainVars
  <2> QED
    BY <1>0, <2>1, StandStays DEF PinStands
<1>5. CASE TakeCharge \/ TakeChargeRefused \/ StalePin \/ TakePin
  <2>1. PICK k \in {"CHARGE", "PIN"} : Take(k)
    BY <1>5 DEF TakeCharge, TakeChargeRefused, StalePin, TakePin
  <2>2. /\ 1 \in Slots /\ Kind(1) = k /\ Len(queue') = Len(queue) - 1
        /\ \A i \in 1..Len(queue') : i + 1 \in Slots /\ queue'[i] = queue[i + 1]
    BY <1>0, <2>1, TakeSlots
  <2>3. \A i \in 1..Len(queue') : queue'[i].kind # "PIN"
    BY <1>0, <2>2 DEF PinStands, ChargeLast, TypeOK
  <2> QED
    BY <2>3 DEF PinStands
<1>6. CASE TakeAmountEntry
  <2>1. PICK k : Take(k)
    BY <1>6 DEF TakeAmountEntry
  <2>2. \A i \in 1..Len(queue') : i + 1 \in Slots /\ queue'[i] = queue[i + 1]
    BY <1>0, <2>1, TakeSlots
  <2>3. /\ mpc' = "idle" /\ screen' = "AMOUNT"
        /\ UNCHANGED <<pending, saleFee, agreed, chain>>
    BY <1>6 DEF TakeAmountEntry, AmountEntry, Take, MainElsewhere
  <2>4. Stands(agreed, chain) => Stands(agreed, chain)'
    BY <1>0, <2>3, StandStays
  <2>5. \A i, j \in 1..Len(queue') :
            queue'[i].kind = "PIN" /\ queue'[j].kind = "PIN" => i = j
    <3> TAKE i, j \in 1..Len(queue')
    <3>1. i + 1 \in Slots /\ j + 1 \in Slots /\ i \in Nat /\ j \in Nat
          /\ queue'[i] = queue[i + 1] /\ queue'[j] = queue[j + 1]
      BY <2>2
    <3>2. queue'[i].kind = "PIN" /\ queue'[j].kind = "PIN" => i + 1 = j + 1
      BY <1>0, <3>1 DEF PinStands
    <3> QED
      BY <3>1, <3>2
  <2>6. ASSUME NEW i \in 1..Len(queue'), queue'[i].kind = "PIN"
        PROVE  Stands(agreed, chain)
    BY <1>0, <2>2, <2>6 DEF PinStands
  <2> QED
    BY <2>3, <2>4, <2>5, <2>6 DEF PinStands
<1>7. CASE Decimals \/ DecimalsRefused \/ ReadCap \/ Show \/ Sign \/ NotSigned
  <2>1. mpc \notin {"idle", "page"} /\ queue' = queue
    BY <1>7 DEF Decimals, DecimalsRefused, ReadCap, Show, Sign, NotSigned
  <2> QED
    BY <1>0, <2>1 DEF PinStands
<1>8. CASE PageWork
  <2>1. /\ queue' = queue /\ (queue = <<>> \/ mpc' = "idle")
        /\ UNCHANGED <<screen, pending, saleFee, agreed, chain>>
    BY <1>8 DEF PageWork, panelVars, MainElsewhere
  <2> QED
    BY <1>0, <2>1, StandStays DEF PinStands
<1> QED
  BY <1>1, <1>2, <1>3, <1>4, <1>5, <1>6, <1>7, <1>8
     DEF Next, PanelStep, MainStep

(* The confirm screen shows what stands, until it is left. *)
LEMMA ConfirmStep ==
    ASSUME CalmInv, [Next]_vars, ~switched'
    PROVE  ConfirmStands'
<1> USE DEF Kind, Slots, TakingUp
<1>0. /\ TypeOK /\ TapsFirst /\ ChargeLast /\ TakesOne /\ CardStands /\ PinStands
      /\ ConfirmStands
  BY CalmBefore DEF CalmInv, CalmFacts
<1>1. CASE PanelStep \/ PageStep \/ UNCHANGED vars
  <2>1. UNCHANGED <<mpc, pending, saleFee, confirm>>
    BY <1>1 DEF PanelStep, Key, Charge, Swipe, AdminCancel, Cancel, Send,
                PinCancel, PinSubmit, New, Pick, PageStep, PostFees, PostTip,
                AcceptPayout, vars, panelVars, mainVars
  <2>2. screen' \in {"CONFIRM", "PIN"} =>
            screen \in {"CONFIRM", "PIN"} /\ chain' = chain
    BY <1>1 DEF PanelStep, Key, Charge, Swipe, AdminCancel, Cancel, Send,
                PinCancel, PinSubmit, New, Pick, PageStep, PostFees, PostTip,
                AcceptPayout, vars, panelVars
  <2> QED
    BY <1>0, <2>1, <2>2, StandStays DEF ConfirmStands
<1>2. CASE TakeCharge \/ StalePin \/ TakePin
  <2>1. PICK k \in {"CHARGE", "PIN"} : Take(k)
    BY <1>2 DEF TakeCharge, StalePin, TakePin
  <2>2. screen \in {"AMOUNT", "STATUS"}
    BY <1>0, <2>1, TakeSlots DEF PinStands, ChargeLast
  <2>3. screen' \in {screen, "STATUS"}
    BY <1>2 DEF TakeCharge, StalePin, TakePin, ToCard, panelVars
  <2> QED
    BY <2>2, <2>3 DEF ConfirmStands
<1>3. CASE Decimals \/ ReadCap
  <2>1. screen \in {"AMOUNT", "STATUS"}
    BY <1>0, <1>3 DEF Decimals, ReadCap, TakesOne, CardStands
  <2>2. screen' \in {screen, "STATUS"}
    BY <1>3 DEF Decimals, ReadCap, ToConfirm, ToCard, panelVars
  <2> QED
    BY <2>1, <2>2 DEF ConfirmStands
<1>4. CASE Show
  <2>1. asked = chain /\ Fit(asked) /\ Known(asked)
    BY <1>0, <1>4 DEF Show, TakesOne
  <2>2. /\ mpc' = "idle"
        /\ confirm' = [asset |-> asked, units |-> pending,
                       payee |-> inForce[Family(asked)],
                       fee   |-> FeeText(asked, saleFee'.max)]
        /\ UNCHANGED <<chain, payout, inForce, bad, checked, pending>>
    BY <1>4 DEF Show, Idle, MainElsewhere, settingVars
  <2>3. Stands(confirm, chain)'
    BY <2>1, <2>2 DEF Stands, Fit, Known
  <2> QED
    BY <2>2, <2>3 DEF ConfirmStands
<1>5. CASE PageWork
  <2>1. /\ mpc \in {"idle", "page"} /\ mpc' \in {"idle", "page"}
        /\ UNCHANGED <<screen, pending, saleFee, confirm, chain>>
    BY <1>5 DEF PageWork, panelVars, MainElsewhere
  <2> QED
    BY <1>0, <2>1, StandStays DEF ConfirmStands
<1>6. CASE \/ TakeChargeRefused \/ DecimalsRefused \/ TakeAmountEntry
           \/ Sign \/ NotSigned
  <2>1. screen' \in {"STATUS", "AMOUNT"}
    BY <1>0, <1>6 DEF TakeChargeRefused, DecimalsRefused, TakeAmountEntry, Sign,
       NotSigned, Refuse, AmountEntry, CardStands
  <2> QED
    BY <2>1 DEF ConfirmStands
<1> QED
  BY <1>1, <1>2, <1>3, <1>4, <1>5, <1>6 DEF Next, MainStep

(* A card is only asked for the figure the PIN was typed for. *)
LEMMA CardStep ==
    ASSUME CalmInv, [Next]_vars, ~switched'
    PROVE  CardStands'
<1> USE DEF Kind, Slots, TakingUp
<1>0. TypeOK /\ CardStands /\ PinStands
  BY CalmBefore DEF CalmInv, CalmFacts
<1>1. CASE PanelStep \/ PageStep \/ UNCHANGED vars
  <2>1. UNCHANGED <<mpc, asked, pending, saleFee>>
    BY <1>1 DEF PanelStep, Key, Charge, Swipe, AdminCancel, Cancel, Send,
                PinCancel, PinSubmit, New, Pick, PageStep, PostFees, PostTip,
                AcceptPayout, vars, mainVars
  <2>2. mpc = "sign" => UNCHANGED <<screen, agreed>>
    BY <1>0, <1>1 DEF PanelStep, Key, Charge, Swipe, AdminCancel, Cancel, Send,
                PinCancel, PinSubmit, New, Pick, PageStep, PostFees, PostTip,
                AcceptPayout, vars, panelVars, CardStands
  <2> QED
    BY <1>0, <2>1, <2>2, StandStays DEF CardStands
<1>2. CASE TakePin
  <2>1. Take("PIN")
    BY <1>2 DEF TakePin
  <2>2. Stands(agreed, chain)
    BY <1>0, <2>1, TakeSlots DEF PinStands
  <2>3. Known(chain)
    BY <2>2 DEF Stands
  <2>4. /\ mpc' = "sign" /\ screen' = "STATUS" /\ agreed' = agreed
        /\ asked' = chain /\ UNCHANGED <<pending, saleFee>>
    BY <1>2, <2>3 DEF TakePin, ToCard
  <2> QED
    BY <1>0, <2>2, <2>4, StandStays DEF CardStands
<1>3. CASE \/ TakeCharge \/ TakeChargeRefused \/ Decimals \/ DecimalsRefused
           \/ ReadCap \/ Show \/ TakeAmountEntry \/ StalePin \/ PageWork
           \/ Sign \/ NotSigned
  <2>1. mpc' \in {"idle", "page", "decimals", "fees", "show"}
    BY <1>0, <1>3 DEF TakeCharge, TakeChargeRefused, Decimals, DecimalsRefused,
       ReadCap, Show, TakeAmountEntry, StalePin, PageWork, Sign, NotSigned,
       Refuse, Idle, ToConfirm, Take, mainVars, CardStands
  <2> QED
    BY <2>1 DEF CardStands
<1> QED
  BY <1>1, <1>2, <1>3 DEF Next, MainStep

(* And what it signs is that figure. *)
LEMMA SignedStep ==
    ASSUME CalmInv, [Next]_vars, ~switched'
    PROVE  SignedStands'
<1>0. TypeOK /\ CardStands /\ SignedStands
  BY CalmBefore DEF CalmInv, CalmFacts
<1>1. CASE Sign
  <2>1. PICK have \in {{}} \cup {{b} : b \in Balances} :
          signed' = {Figures(asked, pending, have)}
    BY <1>1 DEF Sign
  <2>2. Stands(agreed, asked)
    BY <1>0, <1>1 DEF Sign, CardStands
  <2> DEFINE s == Figures(asked, pending, have)
  <2>3. /\ s.asset = asked /\ s.payee = inForce[Family(asked)]
        /\ s.units = pending /\ s.fees = saleFee /\ s.agreed = agreed
    BY DEF Figures
  <2>4. signed' = {s}
    BY <2>1
  <2> HIDE DEF s
  <2>5. SameAsAgreed(s)
    BY <2>2, <2>3 DEF SameAsAgreed, Stands
  <2>6. UNCHANGED <<payout, inForce, bad, checked>>
    BY <1>1 DEF Sign, MainElsewhere, settingVars
  <2>7. Fit(asked) /\ Known(asked)
    BY <2>2 DEF Stands
  <2> QED
    BY <2>3, <2>4, <2>5, <2>6, <2>7 DEF SignedStands, SameAsAgreed, Fit, Known
<1>2. CASE ~Sign
  <2>1. signed' \in {signed, {}}
    <3>1. CASE PanelStep \/ PageStep \/ UNCHANGED vars
      BY <3>1 DEF PanelStep, Key, Charge, Swipe, AdminCancel, Cancel, Send,
                  PinCancel, PinSubmit, New, Pick, PageStep, PostFees, PostTip,
                  AcceptPayout, vars, mainVars
    <3>2. CASE MainStep
      BY <1>2, <3>2 DEF MainStep, TakeCharge, TakeChargeRefused, Decimals,
             DecimalsRefused, ReadCap, Show, TakeAmountEntry, StalePin, TakePin,
             PageWork, NotSigned, mainVars
    <3> QED
      BY <3>1, <3>2 DEF Next
  <2> QED
    BY <1>0, <2>1, SettingsGrow, FamilyType
       DEF SignedStands, SameAsAgreed, Fit, Known
<1> QED
  BY <1>1, <1>2

(* A contract is only taken for checked if it says 6, or did not parse. *)
LEMMA CheckedStep ==
    ASSUME CalmInv, [Next]_vars
    PROVE  checked' \subseteq SixDecimals \cup Broken
<1>0. checked \subseteq SixDecimals \cup Broken
  BY DEF CalmInv
<1>1. CASE Decimals
  BY <1>0, <1>1 DEF Decimals
<1>2. CASE ~Decimals
  <2>1. checked' = checked
    <3>1. CASE PanelStep \/ PageStep \/ UNCHANGED vars
      BY <3>1 DEF PanelStep, Key, Charge, Swipe, AdminCancel, Cancel, Send,
                  PinCancel, PinSubmit, New, Pick, PageStep, PostFees, PostTip,
                  AcceptPayout, vars
    <3>2. CASE MainStep
      BY <1>2, <3>2 DEF MainStep, TakeCharge, TakeChargeRefused,
             DecimalsRefused, ReadCap, Show, TakeAmountEntry, StalePin, TakePin,
             PageWork, Sign, NotSigned
    <3> QED
      BY <3>1, <3>2 DEF Next
  <2> QED
    BY <1>0, <2>1
<1> QED
  BY <1>1, <1>2

LEMMA CalmStart == Init => CalmInv
<1> SUFFICES ASSUME Init PROVE CalmInv
  OBVIOUS
<1>1. TypeOK
  BY TypeAtStart
<1>2. Slots = {}
  BY DEF Init, Slots
<1>3. checked \subseteq SixDecimals \cup Broken
  BY AssetKinds DEF AssetKinds, Init, Token
<1>4. mpc = "idle" /\ screen = "AMOUNT" /\ signed = {}
  BY DEF Init
<1> QED
  BY <1>1, <1>2, <1>3, <1>4
     DEF CalmInv, TapsFirst, CalmFacts, ChargeLast, TakesOne, PinStands,
         ConfirmStands, CardStands, SignedStands, TakingUp

LEMMA CalmHolds == Spec => []CalmInv
<1>1. CalmInv /\ [Next]_vars => CalmInv'
  BY TypeStep, TapsStep, CheckedStep, ChargeStep, TakingStep, PinStep,
     ConfirmStep, CardStep, SignedStep DEF CalmInv, CalmFacts
<1> QED
  BY <1>1, CalmStart, PTL DEF Spec

(* What a card signs is what the confirm screen showed when the PIN was    *)
(* typed, whatever the operator, the page, the node and the card do in     *)
(* between, if Charge was not armed again under a charge (main.cpp:153).   *)
THEOREM AgreedSound == Spec => []SignedWasConfirmed
<1>1. CalmInv => SignedWasConfirmed
  BY DEF CalmInv, CalmFacts, SignedStands, SignedWasConfirmed, SignedIsAgreed
<1> QED
  BY <1>1, CalmHolds, PTL

(* No sale pays the address in the image, but for a first address whose    *)
(* restart was lost (main.cpp:122-144).                                    *)
THEOREM PayeeSound == Spec => []PayeeWasChosen
<1>1. CalmInv => PayeeWasChosen
  <2> SUFFICES ASSUME CalmInv, ~switched, NEW s \in signed
               PROVE  s.payee = "chosen" \/ Unapplied(Family(s.asset))
    BY DEF PayeeWasChosen
  <2>1. s.payee = inForce[Family(s.asset)] /\ Fit(s.asset)
    BY DEF CalmInv, CalmFacts, SignedStands
  <2>2. inForce[Family(s.asset)] \in {"chosen", "builtin"}
    BY FamilyType DEF CalmInv, TypeOK, SettingTypeOK
  <2> QED
    BY <2>1, <2>2 DEF Fit, Unapplied
<1> QED
  BY <1>1, CalmHolds, PTL

(* The gas of what is signed is at most the figure the customer saw.       *)
THEOREM CeilingSound == Spec => []FeeUnderCeiling
<1>1. CalmInv => FeeUnderCeiling
  <2> SUFFICES ASSUME CalmInv, ~switched, NEW s \in signed,
                      Family(s.asset) = "evm"
               PROVE  Gas(s.asset, s.fees.max) <= s.agreed.fee * ShownUnit
    BY DEF FeeUnderCeiling
  <2>1. FeeText(s.asset, s.fees.max) = s.agreed.fee
    BY DEF CalmInv, CalmFacts, SignedStands, SameAsAgreed
  <2>2. s.asset \in Assets /\ s.fees.max \in Nat
    BY DEF CalmInv, TypeOK, Signed, Fees
  <2>3. Gas(s.asset, s.fees.max) \in Nat
    BY <2>2, FeeTextType
  <2>4. s.agreed.fee = Ceiling(Gas(s.asset, s.fees.max))
    BY <2>1 DEF FeeText, Family
  <2> QED
    BY <2>3, <2>4, CeilingCovers
<1> QED
  BY <1>1, CalmHolds, PTL

(* Every token that is signed for was asked for its decimals, or is one of *)
(* config.h (pay.cpp:99-110).                                              *)
THEOREM TokensSound == Spec => []TokensVetted
<1>1. CalmInv => TokensVetted
  BY DEF CalmInv, CalmFacts, SignedStands, TokensVetted, Fit, Known
<1> QED
  BY <1>1, CalmHolds, PTL

-------------------------------------------------------------------------------
(* The keypad's figure fits the asset however picks, keys and charges come *)
(* in turn, for every limit and every scale (ui.cpp:322, money.h:54).      *)
THEOREM FigureSound == Spec => []FigureFits
<1>1. Init => FigureFits
  BY CapType, Scales DEF Init, FigureFits, Cap, CentsCap, Scales
<1>2. ASSUME TypeOK, FigureFits, [Next]_vars PROVE FigureFits'
  <2> USE DEF FigureFits, Cap
  <2>0. /\ CentsCap(NativeEvm(chain)) \in Nat /\ cents \in Nat
        /\ \A a \in Assets : CentsCap(NativeEvm(a)) \in Nat
    BY <1>2, CapType, Scales DEF CentsCap, Scales, TypeOK, PanelTypeOK
  <2>1. CASE Key
    <3> DEFINE cap == Cap
    <3>1. cap \in Nat /\ cents \in 0..cap
      BY <1>2, <2>0
    <3>2. cap' = cap
      BY <2>1 DEF Key
    <3> HIDE DEF cap
    <3>3. Most(cents, cap) = cap /\ 0..cents \subseteq 0..cap
      BY <3>1 DEF Most
    <3>4. KeyBack(cents) \in 0..cap /\ Key00(cents, cap) \in 0..cap
          /\ \A d \in 0..9 : KeyDigit(cents, d, cap) \in 0..cap
      BY <3>1, <3>3, KeysStayUnderCap
    <3>5. \A d \in Digits : d \in 0..9
      BY Inputs DEF Inputs
    <3>6. cents' \in 0..cap
      BY <2>1, <3>4, <3>5 DEF Key, cap
    <3> QED
      BY <3>2, <3>6 DEF cap
  <2>2. ASSUME NEW a \in Assets, Pick(a) PROVE FigureFits'
    BY <2>0, <2>2 DEF Pick, Least
  <2>3. CASE TakeAmountEntry
    BY <2>0, <2>3 DEF TakeAmountEntry, AmountEntry, MainElsewhere
  <2>4. CASE \/ Charge \/ Swipe \/ AdminCancel \/ Cancel \/ Send \/ PinCancel
             \/ PinSubmit \/ New \/ PageStep \/ UNCHANGED vars
    BY <1>2, <2>4 DEF Charge, Swipe, AdminCancel, Cancel, Send, PinCancel,
       PinSubmit, New, PageStep, PostFees, PostTip, AcceptPayout, vars, panelVars
  <2>5. CASE \/ TakeCharge \/ TakeChargeRefused \/ Decimals \/ DecimalsRefused
             \/ ReadCap \/ Show \/ StalePin \/ TakePin \/ PageWork \/ Sign
             \/ NotSigned
    <3>1. UNCHANGED <<chain, cents>>
      BY <2>5 DEF TakeCharge, TakeChargeRefused, Decimals, DecimalsRefused,
         ReadCap, Show, StalePin, TakePin, PageWork, Sign, NotSigned, ToConfirm,
         ToCard, Refuse, panelVars, MainElsewhere
    <3> QED
      BY <1>2, <3>1
  <2> QED
    BY <1>2, <2>1, <2>2, <2>3, <2>4, <2>5 DEF Next, PanelStep, MainStep
<1> QED
  BY <1>1, <1>2, CheckoutTypeCorrect, PTL DEF Spec
===============================================================================
