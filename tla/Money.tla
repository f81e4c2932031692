-------------------------------- MODULE Money --------------------------------
(***************************************************************************)
(* The integer arithmetic of a sale (money.h), with the word size and the  *)
(* scales as parameters: cents on the keypad, 6-decimal units in the       *)
(* queue, wei in the transaction.                                          *)
(***************************************************************************)
EXTENDS Naturals

CONSTANTS
    CentsMax,        \* AMOUNT_CENTS_MAX
    UnitsPerCent,    \* 10^4
    WeiPerUnit,      \* 10^12
    NativeMaxUnits,  \* POS_AMOUNT_UNITS_MAX_NATIVE
    Word,            \* 2^64
    TipFloor,        \* POLY_MIN_PRIORITY_FEE_GWEI
    ShownUnit        \* wei in the last decimal of a fee on the panel

ASSUME Scales ==
    /\ CentsMax \in Nat /\ NativeMaxUnits \in Nat /\ TipFloor \in Nat
    /\ UnitsPerCent \in Nat \ {0} /\ WeiPerUnit \in Nat \ {0}
    /\ Word \in Nat \ {0} /\ ShownUnit \in Nat \ {0}
    /\ NativeMaxUnits * WeiPerUnit < Word
    /\ CentsMax * UnitsPerCent < Word
    \* a token carries any figure a coin does
    /\ NativeMaxUnits <= CentsMax * UnitsPerCent

-------------------------------------------------------------------------------
(* The keypad.                                                             *)

CentsCap(native) == IF native THEN NativeMaxUnits \div UnitsPerCent ELSE CentsMax

(* Mutant: the ceiling is looked at before the digit is shifted in.        *)
KeyDigitLate(cents, digit, cap) == IF cents <= cap THEN 10 * cents + digit ELSE cents

(* A digit that would pass the ceiling is refused whole.                   *)
KeyDigit(cents, digit, cap) ==
    IF 10 * cents + digit <= cap THEN 10 * cents + digit ELSE cents

(* Mutant: two zeroes, with no ceiling.                                    *)
Key00Free(cents, cap) == 100 * cents

Key00(cents, cap) == IF 100 * cents > cap THEN cap ELSE 100 * cents

KeyBack(cents) == cents \div 10

Units(cents) == cents * UnitsPerCent

-------------------------------------------------------------------------------
(* Units, wei, fees.                                                       *)

(* Mutant: the keypad is trusted with the limit.                           *)
TooLargeTrusted(units) == FALSE

TooLarge(units) == units > NativeMaxUnits

(* The product is kept in a word, whatever the units are.                  *)
Wei(units) == (units * WeiPerUnit) % Word

Least(a, b) == IF a < b THEN a ELSE b
Most(a, b)  == IF a > b THEN a ELSE b

(* Mutant: the floor lifts the tip and leaves the cap.                     *)
EvmFeesFloorTipOnly(max, prio, polygon) ==
    LET tip == Least(prio, max)
    IN  [max |-> max, prio |-> IF polygon THEN Most(tip, TipFloor) ELSE tip]

(* The two settings may be of two different pairs: see ReadCap and Show of Checkout.   *)
EvmFees(max, prio, polygon) ==
    LET tip    == Least(prio, max)
        lifted == IF polygon THEN Most(tip, TipFloor) ELSE tip
    IN  [max |-> Most(max, lifted), prio |-> lifted]

(* Mutant: value and gas are added, in a word.                             *)
FundsAdded(native, have, gas, units) ==
    IF have < gas THEN "gas"
    ELSE IF ~native THEN "ok"
    ELSE IF TooLarge(units) THEN "unknown"
    ELSE IF have < (gas + Wei(units)) % Word THEN "value" ELSE "ok"

(* evm_funds_check                                                         *)
Funds(native, have, gas, units) ==
    IF have < gas THEN "gas"
    ELSE IF ~native THEN "ok"
    ELSE IF TooLarge(units) THEN "unknown"
    ELSE IF have - gas < Wei(units) THEN "value" ELSE "ok"

(* Mutant: a fee is shown to the nearest unit below it.                    *)
CeilingTruncated(wei) == wei \div ShownUnit

(* fmt_coin, in units of the last decimal it prints.                       *)
Ceiling(wei) == (wei \div ShownUnit) + (IF wei % ShownUnit # 0 THEN 1 ELSE 0)
===============================================================================
