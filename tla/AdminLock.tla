------------------------------ MODULE AdminLock -------------------------------
(***************************************************************************)
(* The admin code (settings.cpp) and the wait that wrong codes cost        *)
(* (ui_admin.cpp).  The code and the count of wrong tries are in flash,    *)
(* the wait is in RAM.                                                     *)
(***************************************************************************)
EXTENDS Naturals

CONSTANTS
    FreeTries,     \* wrong codes before the first wait: 3
    ShiftMax,      \* doublings: 12
    WaitMax,       \* ADMIN_PENALTY_MAX_S
    FailsMax,      \* 255
    MaxSets        \* bound: codes typed in on the creation screen

ASSUME LockSizes ==
    /\ FreeTries \in Nat /\ ShiftMax \in Nat /\ WaitMax \in Nat
    /\ FailsMax \in Nat /\ MaxSets \in Nat

(* Said because the provers do not know the operator.                      *)
ASSUME Doublings == \A k \in 0..ShiftMax : 2 ^ k \in Nat

VARIABLES
    salt, hash,   \* which entry of a code each was written by, 0: no key
    fails,        \* K_ADMIN_FAILS
    creating,     \* the creation screen is up, which has no way out
    setting,      \* settings_set_admin_code: the key it writes next
    sets,         \* counter for the bound, and the name of an entry
    unlock,       \* the code screen is up
    menu,         \* what is behind it is
    wait,         \* s_admin_lock_ms less the time since s_admin_lock_start
    counting,     \* a wrong code was compared and is not yet counted
    since         \* history: time on the code screen since it came up, or
                  \* since a code was last compared on it

codeVars == <<salt, hash, fails>>
lockVars == <<creating, setting, sets, unlock, menu, wait, counting, since>>
adminVars == <<codeVars, lockVars>>

AtMost(a, b) == IF a < b THEN a ELSE b

(* admin_penalty_ms                                                        *)
Penalty(n) ==
    IF n < FreeTries THEN 0
    ELSE AtMost(2 ^ AtMost(n - FreeTries, ShiftMax), WaitMax)

HasCode == hash # 0

AdminFiguresOK ==
    /\ salt \in 0..MaxSets /\ hash \in 0..MaxSets /\ sets \in 0..MaxSets
    /\ fails \in 0..FailsMax
    /\ wait \in 0..WaitMax /\ since \in 0..WaitMax

AdminFlagsOK ==
    /\ setting \in {"none", "hash", "fails"}
    /\ creating \in BOOLEAN /\ unlock \in BOOLEAN /\ menu \in BOOLEAN
    /\ counting \in BOOLEAN

AdminTypeOK == AdminFiguresOK /\ AdminFlagsOK

AdminInit ==
    /\ salt = 0 /\ hash = 0 /\ fails = 0
    /\ creating = FALSE /\ setting = "none" /\ sets = 0
    /\ unlock = FALSE /\ menu = FALSE /\ wait = 0
    /\ counting = FALSE /\ since = 0

(* The keys go with the partition.                                         *)
EraseCode == salt' = 0 /\ hash' = 0 /\ fails' = 0

(* What was in RAM goes with a reset.                                      *)
ForgetLock ==
    /\ creating' = FALSE /\ setting' = "none"
    /\ unlock' = FALSE /\ menu' = FALSE /\ wait' = 0
    /\ counting' = FALSE /\ since' = 0
    /\ UNCHANGED sets

-------------------------------------------------------------------------------
(* The creation screen: three writes, one after the other.                 *)

(* Mutant: the hash first, then the salt it was made with.                 *)
SetSaltLast ==
    /\ creating /\ setting = "none" /\ sets < MaxSets
    /\ sets' = sets + 1 /\ hash' = sets + 1 /\ setting' = "hash"
    /\ UNCHANGED <<salt, fails, creating, unlock, menu, wait, counting, since>>

SetSalt ==
    /\ creating /\ setting = "none" /\ sets < MaxSets
    /\ sets' = sets + 1 /\ salt' = sets + 1 /\ setting' = "hash"
    /\ UNCHANGED <<hash, fails, creating, unlock, menu, wait, counting, since>>

SetHash ==
    /\ setting = "hash"
    /\ hash' = salt /\ setting' = "fails"
    /\ UNCHANGED <<salt, fails, creating, sets, unlock, menu, wait, counting, since>>

SetFails ==
    /\ setting = "fails"
    /\ fails' = 0 /\ setting' = "none" /\ creating' = FALSE
    /\ UNCHANGED <<salt, hash, sets, unlock, menu, wait, counting, since>>

(* "Storage error - try again", at any of the three.                       *)
SetRefused ==
    /\ setting # "none" /\ setting' = "none"
    /\ UNCHANGED <<codeVars, creating, sets, unlock, menu, wait, counting, since>>

-------------------------------------------------------------------------------
(* The code screen.                                                        *)

(* Mutant: a visit starts with the wait the last one left in RAM.          *)
OpenCodeAsLeft ==
    /\ HasCode /\ ~creating /\ ~unlock
    /\ unlock' = TRUE /\ menu' = FALSE
    /\ since' = 0
    /\ UNCHANGED <<codeVars, creating, setting, sets, wait, counting>>

(* The swipe, or the code screen for a browser: the wait is made anew from *)
(* the count in flash.                                                     *)
OpenCode ==
    /\ HasCode /\ ~creating /\ ~unlock
    /\ unlock' = TRUE /\ menu' = FALSE
    /\ wait' = Penalty(fails) /\ since' = 0
    /\ UNCHANGED <<codeVars, creating, setting, sets, counting>>

(* Nobody reads the wait until the next visit makes it anew.               *)
CloseCode ==
    /\ unlock /\ ~counting /\ unlock' = FALSE /\ wait' = 0 /\ since' = 0
    /\ UNCHANGED <<codeVars, creating, setting, sets, menu, counting>>

LeaveMenu ==
    /\ menu /\ menu' = FALSE
    /\ UNCHANGED <<codeVars, creating, setting, sets, unlock, wait, counting, since>>

Admitted == unlock /\ wait = 0 /\ ~counting

(* settings_check_admin_code: no code matches a hash of another salt.      *)
TryRight(written) ==
    /\ Admitted /\ salt = hash
    /\ unlock' = FALSE /\ menu' = TRUE /\ since' = 0
    /\ fails' = IF written THEN 0 ELSE fails
    /\ UNCHANGED <<salt, hash, creating, setting, sets, wait, counting>>

TryWrong ==
    /\ Admitted
    /\ counting' = TRUE /\ since' = 0
    /\ UNCHANGED <<codeVars, creating, setting, sets, unlock, menu, wait>>

(* Mutant: the count goes past its ceiling.                                *)
CountWrongPast(written) ==
    /\ counting /\ counting' = FALSE
    /\ fails' = IF written /\ salt # 0 THEN fails + 1 ELSE fails
    /\ wait' = Penalty(fails')
    /\ UNCHANGED <<salt, hash, creating, setting, sets, unlock, menu, since>>

(* Mutant: the count is a byte that wraps.                                 *)
CountWrongWraps(written) ==
    /\ counting /\ counting' = FALSE
    /\ fails' = IF written /\ salt # 0 THEN (fails + 1) % (FailsMax + 1)
                ELSE fails
    /\ wait' = Penalty(fails')
    /\ UNCHANGED <<salt, hash, creating, setting, sets, unlock, menu, since>>

(* A try without a salt to try it with is not counted.                     *)
CountWrong(written) ==
    /\ counting /\ counting' = FALSE
    /\ fails' = IF written /\ salt # 0 THEN AtMost(fails + 1, FailsMax)
                ELSE fails
    /\ wait' = Penalty(fails')
    /\ UNCHANGED <<salt, hash, creating, setting, sets, unlock, menu, since>>

(* The code is compared and counted in one pass of the UI task.            *)
Tick ==
    /\ unlock /\ ~counting
    /\ wait' = IF wait = 0 THEN 0 ELSE wait - 1
    /\ since' = AtMost(since + 1, WaitMax)
    /\ UNCHANGED <<codeVars, creating, setting, sets, unlock, menu, counting>>
===============================================================================
