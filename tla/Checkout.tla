------------------------------- MODULE Checkout -------------------------------
(***************************************************************************)
(* The figures of a sale: what is typed, in which asset, what main checks  *)
(* and shows, what the customer agrees to and what is put into the         *)
(* transaction.  The UI task types, picks and confirms; the main task      *)
(* takes its events one at a time and blocks on the node in between; the   *)
(* HTTP task may change the fees.  What happens to a signed sale is        *)
(* Settlement's.                                                           *)
(***************************************************************************)
EXTENDS Money, Sequences

CONSTANTS
    Assets,          \* pos_chain_t
    TronAssets,      \* pos_chain_is_tron
    PolygonAssets,   \* pos_chain_is_polygon
    Coins,           \* a network's own coin: active_token() is NULL
    OperatorSet,     \* tokens whose contract the operator set: not checked at boot
    Broken,          \* tokens whose contract did not parse: ok is FALSE
    SixDecimals,     \* tokens whose contract says 6
    Boots,           \* what bring-up may leave of the two payout addresses
    Digits, Balances,
    FeePairs,        \* the <<max, tip>> the config page may store
    GasCoin, GasToken,       \* GAS_LIMIT_NATIVE, GAS_LIMIT_ERC20
    QueueLen,                \* depth of s_ui_queue
    MaxCharges, MaxPosts,    \* bounds: taps on Charge, fees stored
    Upsets                   \* what is not ruled out: see UpsetKinds

(* "switch"     Charge armed again while main takes a charge up: an asset  *)
(*              is picked, or the amount screen is left and comes back     *)
(* "unapplied"  a first payout address of a family is accepted on the      *)
(*              config page and the restart that applies it is lost        *)
UpsetKinds == {"switch", "unapplied"}

ASSUME AssetKinds ==
    /\ TronAssets \subseteq Assets /\ PolygonAssets \subseteq Assets \ TronAssets
    /\ Coins \subseteq Assets
    /\ OperatorSet \subseteq Assets \ Coins /\ Broken \subseteq Assets \ Coins
    \* config.h contracts are vetted when the image is built
    /\ (Assets \ Coins) \ (OperatorSet \cup Broken) \subseteq SixDecimals

Families == {"evm", "tron"}

(* What bring-up makes of a payout address: one was set, none ever was, or *)
(* the one that was set failed its checksum.  In the last two cases the    *)
(* dual store holds the address compiled into the image.                   *)
PayoutOf == [set      |-> [set |-> TRUE,  who |-> "chosen",  bad |-> FALSE],
             unset    |-> [set |-> FALSE, who |-> "builtin", bad |-> FALSE],
             rejected |-> [set |-> TRUE,  who |-> "builtin", bad |-> TRUE]]

ASSUME Inputs ==
    /\ Boots \subseteq [Families -> {"set", "unset", "rejected"}]
    /\ Digits \subseteq 0..9 /\ Balances \subseteq 0..Word - 1
    /\ FeePairs \subseteq {p \in (Nat \ {0}) \X (Nat \ {0}) : p[2] <= p[1]}
    /\ GasCoin \in Nat /\ GasToken \in Nat /\ QueueLen \in Nat
    /\ MaxCharges \in Nat /\ MaxPosts \in Nat
    /\ Upsets \subseteq UpsetKinds

VARIABLES
    chain,      \* settings_get_chain()
    payout,     \* settings_has_payout, by family
    inForce,    \* whose address the dual store of a family holds
    bad,        \* s_payout_bad
    checked,    \* the tokens with checked set
    maxFee, tip,   \* the two fee keys in flash
    posting,    \* the HTTP task between the two writes: the tip still to write
    screen,     \* s_req_screen
    cents,      \* s_amount_cents
    busy,       \* s_charge_busy
    confirm,    \* what the confirm screen shows
    agreed,     \* what it showed when the PIN was submitted
    queue,      \* s_ui_queue
    mpc,        \* where the main task is
    asked,      \* the asset as main last read it, and asks about
    capRead,    \* the max fee evm_fees_wei has read
    pending,    \* pending_amount
    saleFee,    \* s_sale_fee
    signed,     \* the figures of this sale's transaction, once signed
    switched,   \* history: Charge was armed again under a charge
    charges, posts   \* counters for the bounds

settingVars == <<payout, inForce, bad>>
feeVars     == <<maxFee, tip, posting>>
panelVars   == <<screen, cents, busy, confirm, agreed>>
mainVars    == <<mpc, asked, capRead, pending, saleFee, signed>>

vars == <<chain, settingVars, checked, feeVars, panelVars, queue, mainVars,
          switched, charges, posts>>

Family(a) == IF a \in TronAssets THEN "tron" ELSE "evm"

NativeEvm(a) == a \in Coins \ TronAssets
Token(a)     == a \notin Coins
Polygon(a)   == a \in PolygonAssets

Cap == CentsCap(NativeEvm(chain))

Amounts == {Units(c) : c \in 0..CentsMax}

Events == [kind : {"CHARGE"}, units : Amounts] \cup
          [kind : {"CANCEL", "PIN", "NEW"}, units : {0}]

Fees == [max : Nat, prio : Nat]

(* GAS_LIMIT * max fee; Tron's ceiling is a constant and not modelled.     *)
Gas(a, max) == (IF NativeEvm(a) THEN GasCoin ELSE GasToken) * max

FeeText(a, max) == IF a \in TronAssets THEN 0 ELSE Ceiling(Gas(a, max))

Shown  == [asset : Assets, units : Nat, payee : {"chosen", "builtin"}, fee : Nat]
Signed == [asset : Assets, units : Nat, payee : {"chosen", "builtin"},
           wei : Nat, fees : Fees, have : SUBSET Balances, agreed : Shown]

Nothing == [asset |-> CHOOSE a \in Assets : TRUE, units |-> 0,
            payee |-> "chosen", fee |-> 0]

NoFees == [max |-> 0, prio |-> 0]

Screens == {"AMOUNT", "ADMIN", "CONFIRM", "PIN", "STATUS"}

SettingTypeOK ==
    /\ chain \in Assets
    /\ payout \in [Families -> BOOLEAN] /\ bad \in [Families -> BOOLEAN]
    /\ inForce \in [Families -> {"chosen", "builtin"}]
    /\ checked \subseteq Assets
    /\ maxFee \in Nat \ {0} /\ tip \in Nat \ {0} /\ posting \in Nat

PanelTypeOK ==
    /\ screen \in Screens /\ cents \in 0..CentsMax /\ busy \in BOOLEAN
    /\ confirm \in Shown /\ agreed \in Shown

MainTypeOK ==
    /\ mpc \in {"idle", "page", "decimals", "fees", "show", "again", "sign"}
    /\ asked \in Assets /\ capRead \in Nat /\ pending \in Amounts
    /\ saleFee \in Fees

TypeOK ==
    /\ SettingTypeOK /\ PanelTypeOK /\ MainTypeOK
    /\ queue \in Seq(Events) /\ Len(queue) <= QueueLen
    /\ signed \subseteq Signed
    /\ switched \in BOOLEAN /\ charges \in Nat /\ posts \in Nat

-------------------------------------------------------------------------------
(* The selected chain is of a family with a payout (boot.cpp:651).         *)
Init ==
    /\ \E b \in Boots :
          /\ payout  = [f \in Families |-> PayoutOf[b[f]].set]
          /\ inForce = [f \in Families |-> PayoutOf[b[f]].who]
          /\ bad     = [f \in Families |-> PayoutOf[b[f]].bad]
    /\ chain \in Assets /\ payout[Family(chain)]
    /\ checked = {a \in Assets : Token(a)} \ OperatorSet
    /\ \E p \in FeePairs : maxFee = p[1] /\ tip = p[2]
    /\ posting = 0
    /\ screen = "AMOUNT" /\ cents = 0 /\ busy = FALSE
    /\ confirm = Nothing /\ agreed = Nothing
    /\ queue = <<>>
    /\ mpc = "idle" /\ asked = Nothing.asset /\ capRead = 0 /\ pending = 0
    /\ saleFee = NoFees /\ signed = {}
    /\ switched = FALSE /\ charges = 0 /\ posts = 0

-------------------------------------------------------------------------------
(* The UI task.                                                            *)

(* A post with no wait: a full queue drops the event.                      *)
Post(kind, units) ==
    queue' = IF Len(queue) < QueueLen
             THEN Append(queue, [kind |-> kind, units |-> units]) ELSE queue

(* Main is blocked, or has nothing to do.  What takes several taps or a    *)
(* code fits only there, and not between two of main's own steps.          *)
Waiting == \/ mpc = "idle" /\ queue = <<>>
           \/ mpc \in {"page", "decimals", "again", "sign"}

Key ==
    /\ screen = "AMOUNT"
    /\ \/ \E d \in Digits : cents' = KeyDigit(cents, d, Cap)
       \/ cents' = Key00(cents, Cap)
       \/ cents' = KeyBack(cents)
    /\ UNCHANGED <<chain, settingVars, checked, feeVars, screen, busy, confirm,
                   agreed, queue, mainVars, switched, charges, posts>>

Charge ==
    /\ screen = "AMOUNT" /\ ~busy /\ cents > 0
    /\ charges < MaxCharges /\ charges' = charges + 1
    /\ busy' = TRUE
    /\ Post("CHARGE", Units(cents))
    /\ UNCHANGED <<chain, settingVars, checked, feeVars, screen, cents, confirm,
                   agreed, mainVars, switched, posts>>

(* The amount screen is built again under a charge: Charge is armed.       *)
Rearm == /\ busy => "switch" \in Upsets
         /\ busy' = FALSE
         /\ switched' = (switched \/ busy)

(* A network with no payout address is not offered, one with a bad one is. *)
Pick(a) ==
    /\ screen = "AMOUNT" /\ payout[Family(a)] /\ Waiting
    /\ chain' = a
    /\ cents' = Least(cents, CentsCap(NativeEvm(a)))
    /\ Rearm
    /\ UNCHANGED <<settingVars, checked, feeVars, screen, confirm, agreed,
                   queue, mainVars, charges, posts>>

(* The swipe up to the admin code, and Cancel there.                       *)
Swipe ==
    /\ screen = "AMOUNT" /\ Waiting /\ screen' = "ADMIN"
    /\ Rearm
    /\ UNCHANGED <<chain, settingVars, checked, feeVars, cents, confirm, agreed,
                   queue, mainVars, charges, posts>>

AdminCancel ==
    /\ screen = "ADMIN" /\ screen' = "AMOUNT"
    /\ UNCHANGED <<chain, settingVars, checked, feeVars, cents, busy, confirm,
                   agreed, queue, mainVars, switched, charges, posts>>

(* ACT_CANCEL: main brings the amount screen back, and leaves the pending  *)
(* amount as it is.  Taps behind an event not yet taken are Settlement's.  *)
Cancel ==
    /\ screen = "CONFIRM" /\ queue = <<>>
    /\ Post("CANCEL", 0)
    /\ UNCHANGED <<chain, settingVars, checked, feeVars, panelVars, mainVars,
                   switched, charges, posts>>

Send ==
    /\ screen = "CONFIRM" /\ screen' = "PIN"
    /\ UNCHANGED <<chain, settingVars, checked, feeVars, cents, busy, confirm,
                   agreed, queue, mainVars, switched, charges, posts>>

PinCancel ==
    /\ screen = "PIN" /\ screen' = "CONFIRM"
    /\ UNCHANGED <<chain, settingVars, checked, feeVars, cents, busy, confirm,
                   agreed, queue, mainVars, switched, charges, posts>>

PinSubmit ==
    /\ screen = "PIN" /\ Waiting /\ screen' = "STATUS"
    /\ agreed' = confirm
    /\ Post("PIN", 0)
    /\ UNCHANGED <<chain, settingVars, checked, feeVars, cents, busy, confirm,
                   mainVars, switched, charges, posts>>

(* New sale, on a verdict or a refusal.                                    *)
New ==
    /\ screen = "STATUS" /\ mpc = "idle" /\ queue = <<>>
    /\ Post("NEW", 0)
    /\ UNCHANGED <<chain, settingVars, checked, feeVars, panelVars, mainVars,
                   switched, charges, posts>>

(* ui_show_amount_entry                                                    *)
AmountEntry == /\ screen' = "AMOUNT" /\ cents' = 0 /\ busy' = FALSE
               /\ UNCHANGED <<confirm, agreed>>

-------------------------------------------------------------------------------
(* The HTTP task: fees_post writes one key, then the other.                *)

PostFees ==
    /\ posting = 0 /\ posts < MaxPosts /\ posts' = posts + 1
    /\ \E p \in FeePairs : maxFee' = p[1] /\ posting' = p[2]
    /\ UNCHANGED <<chain, settingVars, checked, tip, panelVars, queue, mainVars,
                   switched, charges>>

PostTip ==
    /\ posting # 0
    /\ tip' = posting /\ posting' = 0
    /\ UNCHANGED <<chain, settingVars, checked, maxFee, panelVars, queue,
                   mainVars, switched, charges, posts>>

(* prov_value_commit of a family's first address, with the restart lost    *)
(* (Portal, AcceptedIsInForce): in flash, and not in the dual store.       *)
AcceptPayout ==
    /\ "unapplied" \in Upsets
    /\ \E f \in Families : ~payout[f] /\ payout' = [payout EXCEPT ![f] = TRUE]
    /\ UNCHANGED <<chain, inForce, bad, checked, feeVars, panelVars, queue,
                   mainVars, switched, charges, posts>>

-------------------------------------------------------------------------------
(* The main task: UI_EVENT_AMOUNT_CONFIRMED.                               *)

Take(kind) == /\ mpc = "idle" /\ queue # <<>> /\ Head(queue).kind = kind
              /\ queue' = Tail(queue)

MainElsewhere == UNCHANGED <<chain, settingVars, feeVars, switched, charges, posts>>

(* Main waits for its next event, and forgets what it had read.            *)
Idle == mpc' = "idle" /\ asked' = Nothing.asset /\ capRead' = 0

(* ui_show_tx_status(FAILED): the pending amount is cleared with it.       *)
Refuse == /\ Idle /\ pending' = 0
          /\ screen' = "STATUS" /\ busy' = FALSE
          /\ agreed' = Nothing
          /\ UNCHANGED <<cents, confirm>>

MayCharge == /\ payout[Family(chain)]
             /\ ~bad[Family(chain)]
             /\ chain \notin Broken

(* Offline, or with no clock, a charge is refused whatever the settings.   *)
TakeChargeRefused ==
    /\ Take("CHARGE")
    /\ Refuse
    /\ UNCHANGED <<checked, saleFee, signed>> /\ MainElsewhere

(* token_decimals_ok is free for a coin, a config.h contract and a token   *)
(* already read; else it asks the contract, and blocks.                    *)
Known(a) == a \in checked \/ ~Token(a)

(* Mutant: the address that failed its checksum is not asked about.        *)
TakeChargeUnlessUnset ==
    /\ Take("CHARGE") /\ payout[Family(chain)] /\ chain \notin Broken
    /\ pending' = Head(queue).units
    /\ asked' = chain
    /\ mpc' = (IF Known(chain) THEN "fees" ELSE "decimals")
    /\ UNCHANGED <<checked, panelVars, capRead, saleFee, signed>> /\ MainElsewhere

TakeCharge ==
    /\ Take("CHARGE") /\ MayCharge
    /\ pending' = Head(queue).units
    /\ asked' = chain
    /\ mpc' = (IF Known(chain) THEN "fees" ELSE "decimals")
    /\ UNCHANGED <<checked, panelVars, capRead, saleFee, signed>> /\ MainElsewhere

(* On to the fees and the confirm screen.                                  *)
ToConfirm == mpc' = "fees" /\ UNCHANGED panelVars

(* On to the card: the panel asks for it.                                  *)
ToCard == /\ mpc' = "sign" /\ screen' = "STATUS" /\ busy' = FALSE
          /\ UNCHANGED <<cents, confirm, agreed>>

(* Mutant: any answer of the contract will do.                             *)
AnyDecimals ==
    /\ \/ mpc = "decimals" /\ ToConfirm
       \/ mpc = "again" /\ ToCard
    /\ checked' = checked \cup {asked}
    /\ asked' = chain
    /\ UNCHANGED <<queue, capRead, pending, saleFee, signed>>
    /\ MainElsewhere

(* The contract says 6, and main goes on with the asset selected by now.   *)
Decimals ==
    /\ asked \in SixDecimals
    /\ \/ mpc = "decimals" /\ ToConfirm
       \/ mpc = "again" /\ ToCard
    /\ checked' = checked \cup {asked}
    /\ asked' = chain
    /\ UNCHANGED <<queue, capRead, pending, saleFee, signed>>
    /\ MainElsewhere

(* No answer, or another number of decimals: at either place of the call.  *)
DecimalsRefused ==
    /\ mpc \in {"decimals", "again"}
    /\ Refuse
    /\ UNCHANGED <<checked, queue, saleFee, signed>>
    /\ MainElsewhere

(* evm_fees_wei reads one of its two settings, and the other.              *)
ReadCap ==
    /\ mpc = "fees" /\ mpc' = "show"
    /\ capRead' = maxFee
    /\ UNCHANGED <<checked, panelVars, queue, asked, pending, saleFee, signed>>
    /\ MainElsewhere

(* ui_show_confirm with the fees just read.  The screen is built before    *)
(* the next tap is looked at, and reads the asset once more.               *)
Show ==
    /\ mpc = "show" /\ Idle
    /\ saleFee' = EvmFees(capRead, tip, Polygon(asked))
    /\ confirm' = [asset |-> asked, units |-> pending,
                   payee |-> inForce[Family(asked)],
                   fee   |-> FeeText(asked, saleFee'.max)]
    /\ screen' = "CONFIRM" /\ busy' = FALSE
    /\ UNCHANGED <<checked, cents, agreed, queue, pending, signed>>
    /\ MainElsewhere

-------------------------------------------------------------------------------
(* The main task: the other events.                                        *)

TakeAmountEntry ==
    /\ Take("CANCEL") \/ Take("NEW")
    /\ AmountEntry /\ signed' = {}
    /\ UNCHANGED <<checked, mpc, asked, capRead, pending, saleFee>>
    /\ MainElsewhere

StalePin ==
    /\ Take("PIN") /\ pending = 0
    /\ UNCHANGED <<checked, panelVars, mainVars>> /\ MainElsewhere

(* The events of the configuration page, prov_stop() among them: main is   *)
(* away for seconds, and the panel is not.                                 *)
PageWork ==
    /\ \/ mpc = "idle" /\ queue = <<>> /\ mpc' = "page"
       \/ mpc = "page" /\ mpc' = "idle"
    /\ UNCHANGED <<checked, panelVars, queue, asked, capRead, pending, saleFee, signed>>
    /\ MainElsewhere

TakePin ==
    /\ Take("PIN") /\ pending # 0
    /\ asked' = chain
    /\ \/ Known(chain) /\ ToCard
       \/ ~Known(chain) /\ mpc' = "again" /\ UNCHANGED panelVars
    /\ UNCHANGED <<checked, capRead, pending, saleFee, signed>>
    /\ MainElsewhere

(* What the balances must cover, where the node tells them: gas and value  *)
(* on EVM, the value alone for TRX.  A token's own balance is left out.    *)
Covered(a, units, have) ==
    IF Family(a) = "evm"
    THEN Funds(NativeEvm(a), have, Gas(a, saleFee.max), units) \in {"ok", "unknown"}
    ELSE Token(a) \/ units <= have

(* What either path looks at before it signs: the contract, the balance    *)
(* (one that cannot be read is no refusal) and the width of the value.     *)
MaySign(a, units, have) ==
    /\ a \notin Broken
    /\ \A b \in have : Covered(a, units, b)
    /\ NativeEvm(a) => ~TooLarge(units)

Figures(a, units, have) ==
    [asset |-> a, units |-> units, payee |-> inForce[Family(a)],
     wei |-> IF NativeEvm(a) THEN Wei(units) ELSE 0,
     fees |-> saleFee, have |-> have, agreed |-> agreed]

(* Mutant: the fees are read afresh at the signature.                      *)
SignFresh ==
    /\ mpc = "sign" /\ Idle
    /\ \E have \in {{}} \cup {{b} : b \in Balances} :
          /\ MaySign(asked, pending, have)
          /\ signed' = {[Figures(asked, pending, have) EXCEPT
                             !.fees = EvmFees(maxFee, tip, Polygon(asked))]}
    /\ pending' = 0 /\ agreed' = Nothing
    /\ UNCHANGED <<checked, screen, cents, busy, confirm, queue, saleFee>>
    /\ MainElsewhere

(* The card signs; that it is then broadcast is Settlement's.              *)
Sign ==
    /\ mpc = "sign" /\ Idle
    /\ \E have \in {{}} \cup {{b} : b \in Balances} :
          /\ MaySign(asked, pending, have)
          /\ signed' = {Figures(asked, pending, have)}
    /\ pending' = 0 /\ agreed' = Nothing
    /\ UNCHANGED <<checked, screen, cents, busy, confirm, queue, saleFee>>
    /\ MainElsewhere

(* A check, the card, the node or Cancel stops it.                         *)
NotSigned ==
    /\ mpc = "sign"
    /\ Refuse
    /\ UNCHANGED <<checked, queue, saleFee, signed>>
    /\ MainElsewhere

-------------------------------------------------------------------------------
PanelStep == \/ Key \/ Charge \/ Swipe \/ AdminCancel \/ Cancel \/ Send
             \/ PinCancel \/ PinSubmit \/ New
             \/ \E a \in Assets : Pick(a)

PageStep == PostFees \/ PostTip \/ AcceptPayout

MainStep == \/ TakeCharge \/ TakeChargeRefused \/ Decimals \/ DecimalsRefused
            \/ ReadCap \/ Show \/ TakeAmountEntry \/ StalePin \/ TakePin
            \/ PageWork \/ Sign \/ NotSigned

Next == PanelStep \/ PageStep \/ MainStep

Spec == Init /\ [][Next]_vars

-------------------------------------------------------------------------------
(* Properties.                                                             *)

SameAsAgreed(s) ==
    /\ s.asset = s.agreed.asset /\ s.units = s.agreed.units
    /\ s.payee = s.agreed.payee
    /\ FeeText(s.asset, s.fees.max) = s.agreed.fee

(* What the card signs is what the customer saw when the PIN was entered:  *)
(* the asset, the amount, the payee and the most the network may take      *)
(* (main.cpp:153-155, pos_app.h:130-133).                                  *)
SignedIsAgreed == \A s \in signed : SameAsAgreed(s)

(* That holds as long as Charge is not armed again under a charge.         *)
SignedWasConfirmed == ~switched => SignedIsAgreed

(* No sale pays the address compiled into the image: a family nobody set,  *)
(* or set to an address that failed its checksum, is refused               *)
(* (main.cpp:122-144).                                                     *)
PaidWhereChosen == \A s \in signed : s.payee = "chosen"

(* A payout address in flash and not in force: its restart never came.     *)
Unapplied(f) == payout[f] /\ ~bad[f] /\ inForce[f] = "builtin"

(* That holds as long as Charge is not armed again under a charge and the  *)
(* restart that puts a first address in force is not lost.                 *)
PayeeWasChosen ==
    ~switched => \A s \in signed : s.payee = "chosen" \/ Unapplied(Family(s.asset))

(* The most the panel says the network may take covers what is signed: the *)
(* fees are a snapshot, and the text is rounded up.                        *)
FeeUnderCeiling ==
    ~switched => \A s \in signed :
        Family(s.asset) = "evm" =>
            Gas(s.asset, s.fees.max) <= s.agreed.fee * ShownUnit

(* However picks, charges and refusals interleave, the wei in a coin sale  *)
(* are the units signed for, unwrapped (money.h:102, pay_evm.cpp:205).     *)
ExactValue ==
    \A s \in signed : NativeEvm(s.asset) => s.wei = s.units * WeiPerUnit

(* A token is only signed for under a contract that parsed and that says 6 *)
(* decimals (pay.cpp:99-110, "no route to the card skips it", 348-349), if *)
(* Charge is not armed again under a charge: main reads the selected asset *)
(* afresh after each question, and may go on with one it never asked       *)
(* about.                                                                  *)
TokensVetted ==
    ~switched => \A s \in signed :
        Token(s.asset) => s.asset \in SixDecimals \ Broken

(* The tip is within the cap, though the two are read while the config     *)
(* page writes them (provision.cpp:827, money.h:126).                      *)
TipWithinCap == \A s \in signed : s.fees.prio <= s.fees.max

(* A card whose balance was told can pay the value and the gas together.   *)
BalanceCovers ==
    \A s \in signed :
        NativeEvm(s.asset) => \A b \in s.have :
            Gas(s.asset, s.fees.max) + s.units * WeiPerUnit <= b

(* The figure on the amount screen is one the selected asset can carry,    *)
(* though it outlives the picker (ui.cpp:322).                             *)
FigureFits == cents <= Cap
===============================================================================
