----------------------------- MODULE DeviceProofs -----------------------------
(***************************************************************************)
(* What holds of a terminal through any number of resets, uploads,         *)
(* rollbacks, factory resets and refused writes, whatever the images and   *)
(* their builds, and however long the waits of the admin code.             *)
(***************************************************************************)
EXTENDS Device, TLAPS

(* No wait is above the cap. *)
LEMMA PenaltyType == \A n \in Nat : Penalty(n) \in 0..WaitMax
<1> USE LockSizes DEF LockSizes
<1> TAKE n \in Nat
<1>1. CASE n < FreeTries
  BY <1>1 DEF Penalty
<1>2. CASE ~(n < FreeTries)
  <2>1. AtMost(n - FreeTries, ShiftMax) \in 0..ShiftMax
    BY <1>2 DEF AtMost
  <2> DEFINE p == 2 ^ AtMost(n - FreeTries, ShiftMax)
  <2>2. p \in Nat
    BY <2>1, Doublings DEF Doublings
  <2>3. Penalty(n) = AtMost(p, WaitMax)
    BY <1>2 DEF Penalty
  <2> HIDE DEF p
  <2> QED
    BY <2>2, <2>3 DEF AtMost
<1> QED
  BY <1>1, <1>2

(* The other slot is a slot, and its other is the first. *)
LEMMA OtherSlot == \A s \in Slots : /\ Other(s) \in Slots /\ Other(s) # s
                                    /\ Other(Other(s)) = s
BY DEF Slots, Other

-------------------------------------------------------------------------------
(* What a step does to each part of the state.                             *)

Early == {"settings", "erasing", "stamping", "bringup", "confirm"}

(* A reset, however it comes about. *)
Falls == GoesDown /\ UNCHANGED slotVars

(* The firmware is left alone, and bring-up is not over by it. *)
Rests == /\ UNCHANGED fwVars
         /\ phase' = "up" => phase = "up"
         /\ phase' \in Early => phase \in Early
         /\ phase' = "cut" <=> phase = "cut"

LEMMA FirmwareMoves ==
    ASSUME [Next]_vars
    PROVE  Start \/ Confirm \/ Upload \/ Panel \/ Commit \/ Falls \/ Rests
<1>1. CASE Reset \/ EraseCut \/ Restart \/ BootFault
  BY <1>1 DEF Reset, EraseCut, Restart, BootFault, Falls
<1>2. CASE Compare \/ Erase \/ EraseRefused \/ Stamp \/ BringUp
  BY <1>2 DEF Compare, Erase, EraseRefused, Stamp, BringUp, Rests, Early
<1>3. CASE \/ CreateCode \/ CodeScreen \/ TimePasses \/ OpenPage \/ ClosePage
           \/ SetPayout \/ Sale \/ UNCHANGED vars
  <2>1. UNCHANGED fwVars /\ phase' = phase
    BY <1>3 DEF CreateCode, CodeScreen, TimePasses, OpenPage, ClosePage, SetPayout,
           Sale, deviceVars, vars
  <2> QED
    BY <2>1 DEF Rests
<1>4. CASE FactoryReset \/ Clear \/ ClearRefused \/ Restamp
  BY <1>4 DEF FactoryReset, Clear, ClearRefused, Restamp, Up, Rests, Early
<1> QED
  BY <1>1, <1>2, <1>3, <1>4 DEF Next, BootStep, UpStep

(* The screens are gone, and the code with the partition, or not at all.   *)
Forgotten == ForgetLock /\ CodeGone

(* The code is erased, or some of it, with no screen of it up.             *)
Wiped == /\ phase \in {"erasing", "clearing"} /\ phase' # "up"
         /\ UNCHANGED lockVars /\ CodeGone

LEMMA EachGone ==
    ASSUME CodeGone
    PROVE  salt' \in {0, salt} /\ hash' \in {0, hash} /\ fails' \in {0, fails}
BY DEF CodeGone, EraseCode, codeVars

LEMMA NoneGone == EraseCode \/ UNCHANGED codeVars => CodeGone
BY DEF CodeGone, EraseCode, codeVars

(* The lock is touched by the code screens, by what empties the flash and  *)
(* by a reset, and left alone by the rest.                                 *)
LEMMA LockMoves ==
    ASSUME [Next]_vars
    PROVE  \/ CreateCode \/ CodeScreen \/ TimePasses \/ FactoryReset \/ Wiped
           \/ Confirm
           \/ Forgotten
           \/ UNCHANGED adminVars /\ (phase = "up" => phase' = "up")
<1>1. CASE Reset \/ EraseCut \/ Restart \/ BootFault
  BY <1>1, NoneGone
     DEF Reset, EraseCut, Restart, BootFault, GoesDown, SomeGone, Forgotten
<1>2. CASE \/ Start \/ Compare \/ EraseRefused \/ Stamp \/ BringUp \/ OpenPage
           \/ ClosePage \/ SetPayout \/ Sale \/ Upload \/ Panel \/ Commit
           \/ Restamp \/ UNCHANGED vars
  BY <1>2 DEF Start, Compare, EraseRefused, Stamp, BringUp, OpenPage, ClosePage,
         SetPayout, Sale, Upload, Panel, Commit, Restamp, vars, deviceVars
<1>3. CASE CreateCode \/ CodeScreen \/ TimePasses \/ FactoryReset \/ Confirm
  BY <1>3
<1>4. CASE Erase \/ Clear \/ ClearRefused
  BY <1>4, NoneGone DEF Erase, Clear, ClearRefused, Empty, SomeGone, Wiped
<1> QED
  BY <1>1, <1>2, <1>3, <1>4 DEF Next, BootStep, UpStep

-------------------------------------------------------------------------------
(* The wait.  A count survives a reset and the wait does not, so the wait  *)
(* is made anew on every visit, and what is left of it and what was served *)
(* of it add up to what the count costs for as long as the visit lasts.    *)
Screens ==
    /\ menu => ~unlock
    /\ counting => unlock
    /\ setting # "none" => creating
    /\ creating => ~unlock
    /\ unlock \/ creating => phase = "up"

WaitDue == unlock /\ ~counting => since + wait >= Penalty(fails)

LockInv == AdminTypeOK /\ Screens /\ WaitDue

LEMMA LockStart == Init => LockInv
<1> SUFFICES ASSUME Init PROVE LockInv
  OBVIOUS
<1>1. /\ salt = 0 /\ hash = 0 /\ fails = 0 /\ creating = FALSE
      /\ setting = "none" /\ sets = 0 /\ unlock = FALSE /\ menu = FALSE
      /\ wait = 0 /\ counting = FALSE /\ since = 0
  BY DEF Init, AdminInit
<1>2. AdminFiguresOK
  BY <1>1, LockSizes DEF LockSizes, AdminFiguresOK
<1>3. AdminFlagsOK /\ Screens /\ WaitDue
  BY <1>1 DEF AdminFlagsOK, Screens, WaitDue
<1> QED
  BY <1>2, <1>3 DEF LockInv, AdminTypeOK

(* The figures of the lock, step by step. *)
LEMMA FiguresStep == ASSUME AdminFiguresOK, [Next]_vars PROVE AdminFiguresOK'
<1> USE DEF AdminFiguresOK
<1>0. WaitMax \in Nat /\ FailsMax \in Nat /\ MaxSets \in Nat
  BY LockSizes DEF LockSizes
<1>1. CASE UNCHANGED adminVars
  BY <1>0, <1>1 DEF adminVars, codeVars, lockVars
<1>2. CASE CreateCode
  <2>1. CASE SetSalt
    BY <1>0, <2>1 DEF SetSalt
  <2>2. CASE SetHash \/ SetFails \/ SetRefused
    BY <1>0, <2>2 DEF SetHash, SetFails, SetRefused, codeVars
  <2> QED
    BY <1>2, <2>1, <2>2 DEF CreateCode
<1>3. CASE CodeScreen
  <2>1. CASE OpenCode \/ CloseCode \/ LeaveMenu \/ TryWrong
    BY <1>0, <2>1, PenaltyType DEF OpenCode, CloseCode, LeaveMenu, TryWrong, codeVars
  <2>2. ASSUME NEW ok \in BOOLEAN, TryRight(ok) PROVE AdminFiguresOK'
    BY <1>0, <2>2 DEF TryRight
  <2>3. ASSUME NEW ok \in BOOLEAN, CountWrong(ok) PROVE AdminFiguresOK'
    <3>1. fails' \in 0..FailsMax
      BY <1>0, <2>3 DEF CountWrong, AtMost
    <3>2. wait' \in 0..WaitMax
      BY <1>0, <2>3, <3>1, PenaltyType DEF CountWrong
    <3> QED
      BY <1>0, <2>3, <3>1, <3>2 DEF CountWrong
  <2> QED
    BY <1>3, <2>1, <2>2, <2>3 DEF CodeScreen
<1>4. CASE TimePasses
  <2>1. wait' \in 0..WaitMax /\ since' \in 0..WaitMax
    BY <1>0, <1>4 DEF TimePasses, Tick, AtMost
  <2> QED
    BY <1>0, <1>4, <2>1 DEF TimePasses, Tick, codeVars
<1>5. CASE Wiped
  BY <1>0, <1>5, EachGone DEF Wiped, lockVars
<1>6. CASE Confirm
  BY <1>0, <1>6 DEF Confirm, codeVars
<1>7. CASE Forgotten
  BY <1>0, <1>7, EachGone DEF Forgotten, ForgetLock
<1>8. CASE FactoryReset
  BY <1>0, <1>8 DEF FactoryReset, adminVars, codeVars, lockVars
<1> QED
  BY <1>1, <1>2, <1>3, <1>4, <1>5, <1>6, <1>7, <1>8, LockMoves

(* The screens of the lock: the code screen is not the menu behind it, nor *)
(* the screen a code is created on, and none outlives a reset.             *)
LEMMA ScreensStep ==
    ASSUME AdminFlagsOK, Screens, [Next]_vars
    PROVE  AdminFlagsOK' /\ Screens'
<1> USE DEF AdminFlagsOK, Screens
<1>1. CASE UNCHANGED adminVars /\ (phase = "up" => phase' = "up")
  BY <1>1 DEF adminVars, codeVars, lockVars
<1>2. CASE CreateCode
  <2>0. phase' = phase
    BY <1>2 DEF CreateCode
  <2>1. CASE SetSalt
    BY <2>0, <2>1 DEF SetSalt
  <2>2. CASE SetHash
    BY <2>0, <2>2 DEF SetHash
  <2>3. CASE SetFails
    BY <2>0, <2>3 DEF SetFails
  <2>4. CASE SetRefused
    BY <2>0, <2>4 DEF SetRefused
  <2> QED
    BY <1>2, <2>1, <2>2, <2>3, <2>4 DEF CreateCode
<1>3. CASE CodeScreen
  <2>0. phase' = phase /\ phase = "up" /\ ~creating
    BY <1>3 DEF CodeScreen, Up
  <2>1. CASE OpenCode
    BY <2>0, <2>1 DEF OpenCode
  <2>2. CASE CloseCode
    BY <2>0, <2>2 DEF CloseCode
  <2>3. CASE LeaveMenu
    BY <2>0, <2>3 DEF LeaveMenu
  <2>4. CASE TryWrong
    BY <2>0, <2>4 DEF TryWrong, Admitted
  <2>5. ASSUME NEW ok \in BOOLEAN, TryRight(ok)
        PROVE  AdminFlagsOK' /\ Screens'
    BY <2>0, <2>5 DEF TryRight, Admitted
  <2>6. ASSUME NEW ok \in BOOLEAN, CountWrong(ok)
        PROVE  AdminFlagsOK' /\ Screens'
    BY <2>0, <2>6 DEF CountWrong
  <2> QED
    BY <1>3, <2>1, <2>2, <2>3, <2>4, <2>5, <2>6 DEF CodeScreen
<1>4. CASE TimePasses
  BY <1>4 DEF TimePasses, Tick, deviceVars
<1>5. CASE Wiped
  BY <1>5 DEF Wiped, lockVars
<1>6. CASE Confirm
  <2>1. creating' \in BOOLEAN
    BY <1>6 DEF Confirm
  <2> QED
    BY <1>6, <2>1 DEF Confirm
<1>7. CASE Forgotten
  BY <1>7 DEF Forgotten, ForgetLock
<1>8. CASE FactoryReset
  BY <1>8 DEF FactoryReset, Up, adminVars, lockVars
<1> QED
  BY <1>1, <1>2, <1>3, <1>4, <1>5, <1>6, <1>7, <1>8, LockMoves

(* Nothing lowers what is left of a wait but time served on the screen.    *)
LEMMA WaitStep == ASSUME LockInv, [Next]_vars PROVE WaitDue'
<1> USE DEF WaitDue
<1>0. /\ fails \in Nat /\ wait \in 0..WaitMax /\ since \in 0..WaitMax
      /\ WaitMax \in Nat /\ Penalty(fails) \in 0..WaitMax /\ fails' \in Nat
      /\ Penalty(fails') \in 0..WaitMax
      /\ AdminFlagsOK /\ Screens /\ WaitDue
  BY FiguresStep, PenaltyType, LockSizes
     DEF LockSizes, AdminFiguresOK, LockInv, AdminTypeOK
<1>1. CASE UNCHANGED adminVars /\ (phase = "up" => phase' = "up")
  BY <1>0, <1>1 DEF adminVars, codeVars, lockVars
<1>2. CASE CreateCode
  <2>1. ~unlock /\ unlock' = unlock
    BY <1>0, <1>2 DEF CreateCode, SetSalt, SetHash, SetFails, SetRefused, Screens
  <2> QED
    BY <2>1
<1>3. CASE CodeScreen
  <2>1. CASE OpenCode
    <3>1. fails' = fails /\ since' = 0 /\ wait' = Penalty(fails)
      BY <2>1 DEF OpenCode, codeVars
    <3> QED
      BY <1>0, <3>1
  <2>2. CASE CloseCode
    BY <2>2 DEF CloseCode
  <2>3. CASE LeaveMenu
    <3>1. UNCHANGED <<fails, since, wait, unlock, counting>>
      BY <2>3 DEF LeaveMenu, codeVars
    <3> QED
      BY <1>0, <3>1
  <2>4. CASE TryWrong
    BY <2>4 DEF TryWrong
  <2>5. ASSUME NEW ok \in BOOLEAN, TryRight(ok) PROVE WaitDue'
    BY <2>5 DEF TryRight
  <2>6. ASSUME NEW ok \in BOOLEAN, CountWrong(ok) PROVE WaitDue'
    <3>1. since' = since /\ wait' = Penalty(fails')
      BY <2>6 DEF CountWrong
    <3> QED
      BY <1>0, <3>1
  <2> QED
    BY <1>3, <2>1, <2>2, <2>3, <2>4, <2>5, <2>6 DEF CodeScreen
<1>4. CASE TimePasses
  <2>1. unlock /\ ~counting /\ fails' = fails
    BY <1>4 DEF TimePasses, Tick, codeVars
  <2>2. /\ wait' = IF wait = 0 THEN 0 ELSE wait - 1
        /\ since' = AtMost(since + 1, WaitMax)
    BY <1>4 DEF TimePasses, Tick
  <2>3. since' + wait' >= Penalty(fails)
    BY <1>0, <2>1, <2>2 DEF AtMost
  <2> QED
    BY <2>1, <2>3
<1>5. CASE Wiped \/ FactoryReset
  <2>1. ~unlock /\ unlock' = unlock
    BY <1>0, <1>5 DEF Wiped, FactoryReset, adminVars, lockVars, Screens
  <2> QED
    BY <2>1
<1>6. CASE Confirm
  <2>1. ~unlock /\ unlock' = unlock
    BY <1>0, <1>6 DEF Confirm, Screens
  <2> QED
    BY <2>1
<1>7. CASE Forgotten
  BY <1>7 DEF Forgotten, ForgetLock
<1> QED
  BY <1>1, <1>2, <1>3, <1>4, <1>5, <1>6, <1>7, LockMoves

LEMMA LockHolds == Spec => []LockInv
<1>1. LockInv /\ [Next]_vars => LockInv'
  BY FiguresStep, ScreensStep, WaitStep DEF LockInv, AdminTypeOK
<1> QED
  BY <1>1, LockStart, PTL DEF Spec

(* No code is compared on a visit before the wait its count costs has been *)
(* served on that visit, through any number of resets and of refused       *)
(* writes, for waits of any length (ui.cpp:291-296).                       *)
THEOREM WaitSound == Spec => WaitIsServed
<1>1. ASSUME LockInv, [Next]_vars, Compared
      PROVE  since >= Penalty(fails) \/ UNCHANGED vars
  <2>0. wait = 0 /\ Admitted => since >= Penalty(fails)
    BY <1>1, PenaltyType DEF LockInv, WaitDue, AdminTypeOK, AdminFiguresOK, Admitted
  <2>1. CASE \/ UNCHANGED adminVars
             \/ CreateCode \/ TimePasses \/ Wiped \/ FactoryReset \/ Confirm
             \/ ForgetLock
    <3>1. (counting' = counting \/ ~counting') /\ (menu' = menu \/ ~menu')
      BY <2>1 DEF adminVars, lockVars, CreateCode, SetSalt, SetHash, SetFails,
         SetRefused, TimePasses, Tick, Wiped, FactoryReset, Confirm, ForgetLock
    <3> QED
      BY <1>1, <3>1 DEF Compared
  <2>2. CASE CodeScreen
    <3>1. CASE OpenCode \/ CloseCode \/ LeaveMenu
      <4>1. counting' = counting /\ (menu' = menu \/ ~menu')
        BY <3>1 DEF OpenCode, CloseCode, LeaveMenu
      <4> QED
        BY <1>1, <4>1 DEF Compared
    <3>2. CASE TryWrong
      BY <2>0, <3>2 DEF TryWrong, Admitted
    <3>3. ASSUME NEW ok \in BOOLEAN, TryRight(ok)
          PROVE  since >= Penalty(fails)
      BY <2>0, <3>3 DEF TryRight, Admitted
    <3>4. ASSUME NEW ok \in BOOLEAN, CountWrong(ok)
          PROVE  FALSE
      BY <1>1, <3>4 DEF CountWrong, Compared
    <3> QED
      BY <2>2, <3>1, <3>2, <3>3, <3>4 DEF CodeScreen
  <2> QED
    BY <1>1, <2>1, <2>2, LockMoves DEF Forgotten
<1>2. LockInv /\ [Next]_vars => [Compared => since >= Penalty(fails)]_vars
  BY <1>1
<1> QED
  BY <1>2, LockHolds, PTL DEF Spec, WaitIsServed

-------------------------------------------------------------------------------
(* The code.  It is created on a terminal that has none: until the second  *)
(* of the three writes there is no hash to match.                          *)
CodeInv ==
    /\ HasCode => salt = hash
    /\ creating /\ setting # "fails" => hash = 0

LEMMA CodeStep ==
    ASSUME Upsets = {}, LockInv, CodeInv, [Next]_vars
    PROVE  CodeInv'
<1> USE DEF CodeInv, HasCode
<1>0. Screens /\ AdminFlagsOK
  BY DEF LockInv, AdminTypeOK
<1>1. CASE UNCHANGED adminVars
  BY <1>1 DEF adminVars, codeVars, lockVars
<1>2. CASE CreateCode
  <2>1. CASE SetSalt
    BY <2>1 DEF SetSalt
  <2>2. CASE SetHash
    BY <2>2 DEF SetHash
  <2>3. CASE SetFails
    BY <2>3 DEF SetFails
  <2> QED
    BY <1>2, <2>1, <2>2, <2>3 DEF CreateCode
<1>3. CASE CodeScreen \/ TimePasses
  <2>1. UNCHANGED <<salt, hash, creating, setting>>
    BY <1>3 DEF CodeScreen, OpenCode, CloseCode, LeaveMenu, TryWrong, TryRight,
                CountWrong, TimePasses, Tick, codeVars
  <2> QED
    BY <2>1
<1>4. CASE Wiped \/ FactoryReset
  BY <1>4 DEF Wiped, CodeGone, FactoryReset, EraseCode, adminVars, codeVars,
              lockVars
<1>5. CASE Confirm
  <2>1. UNCHANGED <<salt, hash, setting>> /\ creating' = ~HasCode
    BY <1>5 DEF Confirm, codeVars
  <2> QED
    BY <2>1
<1>6. CASE Forgotten
  BY <1>6 DEF Forgotten, ForgetLock, CodeGone, EraseCode, codeVars
<1> QED
  BY <1>1, <1>2, <1>3, <1>4, <1>5, <1>6, LockMoves

(* A code that is asked for can be given, wherever its three writes are    *)
(* cut, if the flash refuses none of them and an erase that is cut takes   *)
(* all of them or none (settings.cpp:396-398).                             *)
THEOREM CodeSound ==
    ASSUME Upsets = {}
    PROVE  Spec => []CodeOpens
<1>1. Init => CodeInv
  BY DEF Init, AdminInit, CodeInv, HasCode
<1>2. LockInv /\ CodeInv /\ [Next]_vars => CodeInv'
  BY CodeStep
<1>3. CodeInv => CodeOpens
  BY DEF CodeInv, CodeOpens
<1> QED
  BY <1>1, <1>2, <1>3, LockHolds, PTL DEF Spec

-------------------------------------------------------------------------------
(* The slots.                                                              *)

(* Nothing waits to be installed before bring-up is over. *)
NothingStaged == upload = "none" /\ staged = "none" /\ commit = "none"

(* An image on probation has the one that was proven before it to go back  *)
(* to, and nothing is received over that one.  The other slot is only set  *)
(* to boot from an image that came up.                                     *)
BootInv ==
    /\ slot[running] # "torn"
    /\ state[Other(bootSlot)] \notin {"pending", "new"}
    /\ bootSlot = running => state[bootSlot] # "new"
    /\ bootSlot = running /\ state[bootSlot] # "pending" =>
           slot[running] \in proven
    /\ bootSlot = running /\ state[bootSlot] = "pending" =>
           slot[Other(bootSlot)] \in proven /\ NothingStaged
    /\ bootSlot # running =>
           /\ state[bootSlot] = "new" /\ slot[running] \in proven
           /\ phase \notin Early /\ commit \in {"none", "restart"}
           /\ commit = "none" => phase = "cut"
    /\ phase = "up" => slot[running] \in proven
    /\ phase \in Early \cup {"cut"} => NothingStaged

(* What can come to run was taken by somebody at the panel: the version on *)
(* the card is the one that is staged, and the image in the idle slot.     *)
TakenInv ==
    /\ proven \subseteq accepted \cup {Factory}
    /\ slot[running] \in accepted \cup {Factory}
    /\ bootSlot # running => slot[bootSlot] \in accepted \cup {Factory, "torn"}
    /\ accepted \subseteq Signed
    /\ card # "none" => card = staged
    /\ staged # "none" => slot[Idle] = staged /\ staged \in Signed
    /\ upload # "none" => staged = "none"
    /\ commit = "switch" =>
           bootSlot = running /\ slot[Idle] \in accepted \cup {"torn"}

SlotInv == FirmwareTypeOK /\ BootInv /\ TakenInv

LEMMA SlotStart == Init => SlotInv
<1> SUFFICES ASSUME Init PROVE SlotInv
  OBVIOUS
<1>1. /\ slot = [s \in Slots |-> IF s = 0 THEN Factory ELSE "torn"]
      /\ state = [s \in Slots |-> "none"]
      /\ bootSlot = 0 /\ running = 0 /\ proven = {Factory}
      /\ NothingStaged /\ offer = FALSE /\ card = "none" /\ accepted = {}
      /\ phase = "cut"
  BY DEF Init, FirmwareInit, NothingStaged
<1>2. Factory \in Images /\ Factory # "torn" /\ 0 \in Slots
  BY ImageKinds DEF ImageKinds, Slots
<1>3. offer \in BOOLEAN
  BY <1>1
<1>4. FirmwareTypeOK
  BY <1>1, <1>2, <1>3 DEF FirmwareTypeOK, NothingStaged
<1>5. BootInv
  BY <1>1, <1>2, OtherSlot DEF BootInv, Early
<1>6. TakenInv
  BY <1>1, <1>2, OtherSlot DEF TakenInv, NothingStaged
<1> QED
  BY <1>4, <1>5, <1>6 DEF SlotInv

(* The types of the slots, step by step. *)
LEMMA FirmwareTypeStep == ASSUME SlotInv, [Next]_vars PROVE FirmwareTypeOK'
<1> USE DEF FirmwareTypeOK
<1>0. /\ FirmwareTypeOK /\ Idle \in Slots /\ Other(bootSlot) \in Slots
      /\ Current \in Images /\ Signed \subseteq Images
  BY OtherSlot, ImageKinds DEF SlotInv, BootInv, Idle, Current, ImageKinds
<1>1. CASE Start
  <2>1. running' \in Slots /\ bootSlot' \in Slots
    BY <1>0, <1>1 DEF Start, Bootloader
  <2>2. state' \in [Slots -> {"none", "new", "pending", "valid", "aborted"}]
    BY <1>0, <1>1 DEF Start, Bootloader
  <2> QED
    BY <1>0, <1>1, <2>1, <2>2 DEF Start, Bootloader, stageVars
<1>2. CASE Confirm
  <2>1. PICK ok \in BOOLEAN : MarkValid(ok)
    BY <1>2 DEF Confirm
  <2>2. state' \in [Slots -> {"none", "new", "pending", "valid", "aborted"}]
    BY <1>0, <2>1 DEF MarkValid
  <2> QED
    BY <1>0, <1>2, <2>1, <2>2 DEF Confirm, MarkValid, stageVars
<1>3. CASE Upload
  <2>1. ASSUME NEW i \in Images, BeginUpload(i) PROVE FirmwareTypeOK'
    BY <1>0, <2>1 DEF BeginUpload
  <2>2. CASE UploadRefused \/ UploadBreaks
    BY <1>0, <2>2 DEF UploadRefused, UploadBreaks, slotVars
  <2>3. CASE UploadEnds
    <3>1. offer' \in BOOLEAN
      BY <1>0, <2>3 DEF UploadEnds
    <3> QED
      BY <1>0, <2>3, <3>1 DEF UploadEnds
  <2> QED
    BY <1>3, <2>1, <2>2, <2>3 DEF Upload
<1>4. CASE Panel
  BY <1>0, <1>4 DEF Panel, ShowOffer, CardGoes, Discard, Install, slotVars
<1>5. CASE Commit
  BY <1>0, <1>5 DEF Commit, Switch
<1>6. CASE Falls
  BY <1>0, <1>6 DEF Falls, GoesDown, ForgetStaging, slotVars
<1>7. CASE Rests
  BY <1>0, <1>7 DEF Rests, fwVars, slotVars, stageVars
<1> QED
  BY <1>1, <1>2, <1>3, <1>4, <1>5, <1>6, <1>7, FirmwareMoves

(* Whatever the bootloader finds, it finds an image it may run. *)
LEMMA StartStep == ASSUME SlotInv, Start PROVE BootInv' /\ TakenInv'
<1> DEFINE s == IF RollBack THEN Other(bootSlot) ELSE bootSlot
<1>1. /\ running' = s /\ bootSlot' = s /\ UNCHANGED <<slot, proven, stageVars>>
      /\ phase = "cut" /\ phase' = "settings"
      /\ state' = [state EXCEPT
             ![bootSlot] = IF RollBack THEN "aborted"
                           ELSE IF @ = "new" THEN "pending" ELSE @]
  BY DEF Start, Bootloader
<1>2. /\ bootSlot \in Slots /\ running \in Slots /\ Other(bootSlot) \in Slots
      /\ Other(bootSlot) # bootSlot /\ Other(Other(bootSlot)) = bootSlot
      /\ running \in {bootSlot, Other(bootSlot)}
      /\ state \in [Slots -> {"none", "new", "pending", "valid", "aborted"}]
      /\ proven \subseteq Images /\ "torn" \notin Images
  BY OtherSlot, ImageKinds DEF SlotInv, FirmwareTypeOK, ImageKinds, Slots, Other
<1>3. NothingStaged /\ NothingStaged'
  BY <1>1 DEF SlotInv, BootInv, NothingStaged, stageVars, Early
<1>4. CASE RollBack
  <2>1. /\ running' = Other(bootSlot) /\ bootSlot' = Other(bootSlot)
        /\ state'[bootSlot] = "aborted"
        /\ state'[Other(bootSlot)] = state[Other(bootSlot)]
    BY <1>1, <1>2, <1>4
  <2>2. CASE bootSlot = running
    <3>1. slot[Other(bootSlot)] \in proven
      BY <1>4, <2>2 DEF RollBack, SlotInv, BootInv
    <3> QED
      BY <1>1, <1>2, <1>3, <2>1, <3>1
         DEF SlotInv, BootInv, TakenInv, Early, NothingStaged, stageVars, Idle
  <2>3. CASE running = Other(bootSlot) /\ bootSlot # running
    BY <1>1, <1>2, <1>3, <2>1, <2>3
       DEF SlotInv, BootInv, TakenInv, Early, NothingStaged, stageVars, Idle
  <2> QED
    BY <1>2, <2>2, <2>3
<1>5. CASE ~RollBack
  <2>1. /\ running' = bootSlot /\ bootSlot' = bootSlot /\ slot[bootSlot] # "torn"
        /\ state'[bootSlot] = IF state[bootSlot] = "new" THEN "pending"
                              ELSE state[bootSlot]
        /\ state'[Other(bootSlot)] = state[Other(bootSlot)]
        /\ state[bootSlot] # "pending"
    BY <1>1, <1>2, <1>5 DEF RollBack
  <2>2. CASE bootSlot = running
    BY <1>1, <1>2, <1>3, <2>1, <2>2
       DEF SlotInv, BootInv, TakenInv, Early, NothingStaged, stageVars, Idle
  <2>3. CASE running = Other(bootSlot) /\ bootSlot # running
    BY <1>1, <1>2, <1>3, <2>1, <2>3
       DEF SlotInv, BootInv, TakenInv, Early, NothingStaged, stageVars, Idle
  <2> QED
    BY <1>2, <2>2, <2>3
<1> QED
  BY <1>4, <1>5

LEMMA ConfirmStep == ASSUME SlotInv, Confirm PROVE BootInv' /\ TakenInv'
<1>1. PICK ok \in BOOLEAN : MarkValid(ok)
  BY DEF Confirm
<1>2. /\ UNCHANGED <<slot, bootSlot, running, stageVars>>
      /\ proven' = proven \cup {slot[running]}
      /\ phase = "confirm" /\ phase' = "up"
  BY <1>1 DEF MarkValid, Confirm, Current
<1>3. bootSlot = running
  BY <1>2 DEF SlotInv, BootInv, Early
<1>4. /\ state'[Other(bootSlot)] = state[Other(bootSlot)]
      /\ state'[bootSlot] \in {state[bootSlot], "valid"}
      /\ state[bootSlot] # "pending" => state'[bootSlot] = state[bootSlot]
  BY <1>1, <1>3, OtherSlot DEF MarkValid, SlotInv, FirmwareTypeOK
<1>5. NothingStaged'
  BY <1>2 DEF SlotInv, BootInv, Early, NothingStaged, stageVars
<1> QED
  BY <1>2, <1>3, <1>4, <1>5
     DEF SlotInv, BootInv, TakenInv, Early, NothingStaged, stageVars, Idle

LEMMA UploadStep == ASSUME SlotInv, Upload PROVE BootInv' /\ TakenInv'
<1> USE DEF SlotInv
<1>0. /\ phase = "up" /\ UNCHANGED deviceVars
      /\ Idle \in Slots /\ Idle # running /\ Idle = Other(running)
      /\ running \in Slots /\ bootSlot \in Slots /\ slot \in [Slots -> Images \cup {"torn"}]
      /\ bootSlot # running => bootSlot = Idle
      /\ "none" \notin Images /\ Signed \subseteq Images
  BY OtherSlot, ImageKinds DEF Upload, Idle, FirmwareTypeOK, ImageKinds, Slots, Other
<1>1. ASSUME NEW i \in Images, BeginUpload(i) PROVE BootInv' /\ TakenInv'
  <2>1. /\ slot'[Idle] = "torn" /\ slot'[running] = slot[running]
        /\ UNCHANGED <<state, bootSlot, running, proven, staged, card, commit, accepted>>
        /\ staged = "none" /\ state[running] # "pending" /\ phase' = "up"
    BY <1>0, <1>1 DEF BeginUpload, deviceVars
  <2> QED
    BY <1>0, <2>1 DEF BootInv, TakenInv, Early, Idle, NothingStaged
<1>2. CASE UploadRefused \/ UploadBreaks
  <2>1. /\ UNCHANGED <<slotVars, staged, card, commit, accepted>>
        /\ upload' \in {upload, "none"} /\ phase' = "up"
    BY <1>0, <1>2 DEF UploadRefused, UploadBreaks, deviceVars
  <2> QED
    BY <1>0, <2>1 DEF BootInv, TakenInv, Early, Idle, NothingStaged, slotVars
<1>3. CASE UploadEnds
  <2>1. /\ slot'[Idle] = upload /\ slot'[running] = slot[running]
        /\ UNCHANGED <<state, bootSlot, running, proven, card, commit, accepted>>
        /\ staged' = upload /\ upload' = "none" /\ upload # "none" /\ phase' = "up"
        /\ commit = "none" /\ upload \in Signed
    BY <1>0, <1>3 DEF UploadEnds, deviceVars
  <2>2. bootSlot = running /\ card = "none" /\ state[running] # "pending"
    BY <1>0, <2>1 DEF BootInv, TakenInv, NothingStaged
  <2> QED
    BY <1>0, <2>1, <2>2 DEF BootInv, TakenInv, Early, Idle, NothingStaged
<1> QED
  BY <1>1, <1>2, <1>3 DEF Upload

LEMMA CardStep == ASSUME SlotInv, Panel PROVE BootInv' /\ TakenInv'
<1> USE DEF SlotInv
<1>0. /\ phase = "up" /\ phase' = "up" /\ commit = "none" /\ bootSlot = running
      /\ UNCHANGED slotVars
  BY DEF Panel, Up, deviceVars, BootInv, ShowOffer, CardGoes, Discard, Install
<1>1. CASE ShowOffer \/ CardGoes \/ Discard
  <2>1. /\ UNCHANGED <<upload, commit, accepted>>
        /\ \/ staged' = staged /\ card' \in {card, staged, "none"}
           \/ staged' = "none" /\ card' = "none"
    BY <1>1 DEF ShowOffer, CardGoes, Discard
  <2> QED
    BY <1>0, <2>1 DEF BootInv, TakenInv, Early, Idle, NothingStaged, slotVars
<1>2. CASE Install
  <2>1. /\ card' = "none" /\ staged' = "none" /\ UNCHANGED upload
        /\ accepted' = accepted \cup {card} /\ card # "none"
        /\ commit' = IF staged = "none" THEN "none" ELSE "switch"
    BY <1>2 DEF Install
  <2>2. slot[Idle] = card /\ staged # "none"
    BY <2>1 DEF TakenInv
  <2> QED
    BY <1>0, <2>1, <2>2 DEF BootInv, TakenInv, Early, Idle, NothingStaged, slotVars
<1> QED
  BY <1>1, <1>2 DEF Panel

LEMMA CommitStep == ASSUME SlotInv, Commit PROVE BootInv' /\ TakenInv'
<1> USE DEF SlotInv
<1>0. /\ phase = "up" /\ phase' = "up" /\ commit = "switch"
      /\ bootSlot = running /\ slot[Idle] \in accepted \cup {"torn"}
      /\ UNCHANGED <<slot, running, proven, upload, staged, card, accepted>>
      /\ Idle \in Slots /\ running \in Slots /\ Idle # running
      /\ Other(Idle) = running /\ Other(running) = Idle
      /\ state \in [Slots -> {"none", "new", "pending", "valid", "aborted"}]
  BY OtherSlot DEF Commit, Switch, deviceVars, TakenInv, FirmwareTypeOK, Idle
<1>1. state[running] \notin {"pending", "new"}
  BY <1>0 DEF BootInv, NothingStaged
<1>2. CASE slot[Idle] # "torn"
  <2>1. /\ bootSlot' = Idle /\ commit' = "restart" /\ state'[Idle] = "new"
        /\ state'[running] = state[running]
    BY <1>0, <1>2 DEF Commit, Switch
  <2> QED
    BY <1>0, <1>1, <2>1 DEF BootInv, TakenInv, Early, Idle, NothingStaged
<1>3. CASE slot[Idle] = "torn"
  <2>1. bootSlot' = bootSlot /\ commit' = "none" /\ state' = state
    BY <1>0, <1>3 DEF Commit, Switch
  <2> QED
    BY <1>0, <1>1, <2>1 DEF BootInv, TakenInv, Early, Idle, NothingStaged
<1> QED
  BY <1>2, <1>3

LEMMA SlotStep == ASSUME SlotInv, [Next]_vars PROVE SlotInv'
<1>1. FirmwareTypeOK'
  BY FirmwareTypeStep
<1>2. CASE Falls
  <2>1. UNCHANGED <<slotVars, accepted>> /\ phase' = "cut" /\ NothingStaged'
        /\ card' = "none"
    BY <1>2 DEF Falls, GoesDown, ForgetStaging, NothingStaged
  <2>2. BootInv' /\ TakenInv'
    BY <2>1 DEF SlotInv, BootInv, TakenInv, Early, NothingStaged, slotVars, Idle
  <2> QED
    BY <1>1, <2>2 DEF SlotInv
<1>3. CASE Rests
  <2>1. UNCHANGED <<slotVars, upload, staged, card, commit, accepted>>
    BY <1>3 DEF Rests, fwVars, stageVars
  <2>2. BootInv' /\ TakenInv'
    BY <1>3, <2>1 DEF Rests, SlotInv, BootInv, TakenInv, Early, NothingStaged,
                      slotVars, Idle
  <2> QED
    BY <1>1, <2>2 DEF SlotInv
<1> QED
  BY <1>1, <1>2, <1>3, FirmwareMoves, StartStep, ConfirmStep, UploadStep, CardStep,
     CommitStep DEF SlotInv

LEMMA SlotsHold == Spec => []SlotInv
<1>1. SlotInv /\ [Next]_vars => SlotInv'
  BY SlotStep
<1> QED
  BY <1>1, SlotStart, PTL DEF Spec

(* The image that runs is the one the unit was made with, or one whose     *)
(* version was read on the card by whoever tapped Install (ota.h:37-41).   *)
THEOREM AcceptedSound == Spec => []RunsOnlyAccepted
<1>1. SlotInv => RunsOnlyAccepted
  BY DEF SlotInv, TakenInv, RunsOnlyAccepted, Current
<1> QED
  BY <1>1, SlotsHold, PTL

(* A reset at any moment finds an image to run, and an image on probation  *)
(* has a proven one to go back to (ota.h:60-64).                           *)
THEOREM BootSound == Spec => []AlwaysBoots
<1>1. SlotInv => AlwaysBoots
  BY DEF SlotInv, BootInv, AlwaysBoots
<1> QED
  BY <1>1, SlotsHold, PTL

-------------------------------------------------------------------------------
(* The promise of Update.  What is due is the image an Install is about;   *)
(* BootInv says that the slot to boot holds it or one that came up.        *)

(* The four variables of Update, as they stand in a terminal.              *)
promised == <<Image, card, Due, proven>>

(* At rest nothing is due; a torn slot never is. *)
LEMMA DueAtRest ==
    /\ commit # "switch" /\ bootSlot = running => Due = "none"
    /\ slot[Idle] = "torn" => Due = "none"
    /\ (commit = "switch" \/ bootSlot # running) /\ slot[Idle] # "torn" =>
           Due = slot[Idle]
BY DEF Due

(* The bootloader runs what came up before, or what is due. *)
LEMMA BootKeeps == ASSUME SlotInv, SlotInv', Start PROVE Promise!Next
<1> DEFINE s == IF RollBack THEN Other(bootSlot) ELSE bootSlot
<1>1. /\ running' = s /\ bootSlot' = s /\ phase = "cut" /\ phase' = "settings"
      /\ UNCHANGED <<slot, proven, card, commit>>
  BY DEF Start, Bootloader, stageVars
<1>2. Image = "none" /\ Image' = slot[s] /\ slot[s] \in Signed
  BY <1>1, ImageKinds DEF Image, Runs, Current, SlotInv, TakenInv, ImageKinds
<1>3. Due' = "none"
  BY <1>1 DEF Due, SlotInv, BootInv, NothingStaged
<1>4. /\ bootSlot \in Slots /\ running \in Slots /\ Idle = Other(running)
      /\ bootSlot # running => bootSlot = Idle /\ Other(bootSlot) = running
      /\ slot[running] # "torn"
  BY OtherSlot DEF SlotInv, BootInv, FirmwareTypeOK, Idle, Slots, Other
<1>5. slot[s] \in proven \cup {Due}
  <2>1. CASE RollBack
    BY <1>4, <2>1 DEF RollBack, SlotInv, BootInv
  <2>2. CASE ~RollBack /\ bootSlot = running
    BY <2>2 DEF RollBack, SlotInv, BootInv
  <2>3. CASE ~RollBack /\ bootSlot # running
    BY <1>4, <2>3, DueAtRest DEF RollBack
  <2> QED
    BY <2>1, <2>2, <2>3
<1>6. Promise!Boot(slot[s])
  BY <1>1, <1>2, <1>3, <1>5 DEF Promise!Boot
<1> QED
  BY <1>2, <1>6 DEF Promise!Next

LEMMA UploadKeeps ==
    ASSUME SlotInv, Upload PROVE Promise!Next \/ UNCHANGED promised
<1>0. /\ phase = "up" /\ phase' = "up" /\ running \in Slots /\ Idle \in Slots
      /\ Idle # running /\ slot \in [Slots -> Images \cup {"torn"}]
  BY OtherSlot DEF Upload, deviceVars, SlotInv, FirmwareTypeOK, Idle
<1>1. ASSUME NEW i \in Images, BeginUpload(i) PROVE Promise!Next
  <2>1. /\ slot'[Idle] = "torn" /\ slot'[running] = slot[running]
        /\ UNCHANGED <<bootSlot, running, proven, card, commit>>
    BY <1>0, <1>1 DEF BeginUpload
  <2>2. Due' = "none" /\ Image' = Image
    BY <1>0, <2>1 DEF Due, Image, Runs, Current, Idle
  <2> QED
    BY <2>1, <2>2 DEF Promise!Next, Promise!Spoil
<1>2. CASE UploadRefused \/ UploadBreaks
  BY <1>0, <1>2 DEF UploadRefused, UploadBreaks, slotVars, promised, Image, Runs,
     Current, Due, Idle
<1>3. CASE UploadEnds
  <2>1. /\ slot'[running] = slot[running]
        /\ UNCHANGED <<bootSlot, running, proven, card, commit>>
        /\ commit = "none"
    BY <1>0, <1>3 DEF UploadEnds
  <2>2. bootSlot = running
    BY <1>0, <2>1 DEF SlotInv, BootInv
  <2> QED
    BY <1>0, <2>1, <2>2 DEF promised, Image, Runs, Current, Due
<1> QED
  BY <1>1, <1>2, <1>3 DEF Upload

LEMMA PanelKeeps ==
    ASSUME SlotInv, Panel PROVE Promise!Next \/ UNCHANGED promised
<1>0. /\ phase = "up" /\ phase' = "up" /\ commit = "none" /\ bootSlot = running
      /\ UNCHANGED slotVars
  BY DEF Panel, Up, deviceVars, SlotInv, BootInv, ShowOffer, CardGoes, Discard,
         Install
<1>1. /\ UNCHANGED <<Image, proven>> /\ Image \in proven /\ Due = "none"
      /\ commit' = "none" => Due' = "none"
  BY <1>0 DEF slotVars, Image, Runs, Current, Due, SlotInv, BootInv
<1>2. CASE ShowOffer
  <2>1. /\ commit' = "none"
        /\ card' = card \/ (card' = staged /\ staged \in Signed)
    BY <1>0, <1>2 DEF ShowOffer, SlotInv, TakenInv
  <2>2. Promise!Ask(staged) \/ UNCHANGED promised
    BY <1>1, <2>1 DEF promised, Promise!Ask
  <2> QED
    BY <1>1, <2>1, <2>2 DEF Promise!Next, promised
<1>3. CASE CardGoes \/ Discard
  <2>1. commit' = "none" /\ card' = "none"
    BY <1>0, <1>3 DEF CardGoes, Discard
  <2> QED
    BY <1>1, <2>1 DEF Promise!Next, Promise!Unask
<1>4. CASE Install
  <2>1. card # "none" /\ card' = "none" /\ slot[Idle] = card /\ card \in Images
    BY <1>4 DEF Install, SlotInv, TakenInv, FirmwareTypeOK
  <2>2. Due' \in {card, "none"}
    BY <1>0, <2>1 DEF Due, slotVars, Idle
  <2> QED
    BY <1>1, <2>1, <2>2 DEF Promise!Next, Promise!Install
<1> QED
  BY <1>2, <1>3, <1>4 DEF Panel

(* Switching the boot slot keeps what is due, and a reset at most loses it. *)
LEMMA UpdateStep ==
    ASSUME SlotInv, SlotInv', [Next]_vars
    PROVE  Promise!Next \/ UNCHANGED promised
<1>1. CASE Confirm
  <2>1. PICK ok \in BOOLEAN : MarkValid(ok)
    BY <1>1 DEF Confirm
  <2>2. /\ UNCHANGED <<slot, bootSlot, running, card, commit>>
        /\ proven' = proven \cup {Current} /\ phase = "confirm" /\ phase' = "up"
        /\ Current \in Images
    BY <1>1, <2>1 DEF MarkValid, Confirm, stageVars, SlotInv, BootInv,
       FirmwareTypeOK, Current
  <2>3. Image = Current /\ UNCHANGED <<Image, Due>>
    BY <2>2 DEF Image, Runs, Current, Due, Idle
  <2>4. Image # "none"
    BY <2>2, <2>3, ImageKinds DEF ImageKinds
  <2> QED
    BY <2>2, <2>3, <2>4 DEF Promise!Next, Promise!ComeUp
<1>2. CASE Commit
  <2>1. /\ commit = "switch" /\ bootSlot = running /\ phase = "up" /\ phase' = "up"
        /\ UNCHANGED <<slot, running, proven, card>>
    BY <1>2 DEF Commit, Switch, deviceVars, SlotInv, TakenInv
  <2>2. Due' = Due
    <3>1. CASE slot[Idle] # "torn"
      <4>1. bootSlot' = Idle /\ Idle # running
        BY <1>2, <3>1, OtherSlot DEF Commit, Switch, SlotInv, FirmwareTypeOK, Idle
      <4> QED
        BY <2>1, <3>1, <4>1 DEF Due, Idle
    <3>2. CASE slot[Idle] = "torn"
      BY <2>1, <3>2 DEF Due, Idle
    <3> QED
      BY <3>1, <3>2
  <2> QED
    BY <2>1, <2>2 DEF promised, Image, Runs, Current
<1>3. CASE Falls
  <2>1. /\ UNCHANGED slotVars /\ phase' = "cut" /\ card' = "none"
        /\ commit' = "none"
    BY <1>3 DEF Falls, GoesDown, ForgetStaging
  <2>2. Image' = "none" /\ proven' = proven
    BY <2>1 DEF Image, Runs, slotVars
  <2>3. Due' \in {Due, "none"}
    BY <2>1 DEF Due, slotVars, Idle
  <2>4. CASE Runs
    <3>1. Image # "none"
      BY <2>4, ImageKinds DEF Image, Current, ImageKinds, SlotInv, BootInv,
         FirmwareTypeOK
    <3> QED
      BY <2>1, <2>2, <2>3, <3>1 DEF Promise!Next, Promise!Off
  <2>5. CASE ~Runs
    <3>1. Image = "none" /\ commit = "none"
      BY <2>5 DEF Image, Runs, SlotInv, BootInv, NothingStaged
    <3>2. Due' = Due
      BY <2>1, <3>1 DEF Due, slotVars, Idle
    <3> QED
      BY <2>1, <2>2, <3>1, <3>2 DEF Promise!Next, Promise!Unask
  <2> QED
    BY <2>4, <2>5
<1>4. CASE Rests
  BY <1>4 DEF Rests, fwVars, slotVars, stageVars, promised, Image, Runs, Current,
     Due, Idle
<1> QED
  BY <1>1, <1>2, <1>3, <1>4, FirmwareMoves, BootKeeps, UploadKeeps, PanelKeeps

(* The slots, the upload and the bootloader keep the promise of Update:    *)
(* an image runs because it came up before, or once, because the card      *)
(* named it when Install was tapped (ota.h:37-41, 60-64).                  *)
THEOREM UpdateKept == Spec => KeepsUpdate
<1>1. Init => Promise!Init
  BY DEF Init, FirmwareInit, Promise!Init, Image, Runs, Due
<1>2. SlotInv /\ SlotInv' /\ [Next]_vars => [Promise!Next]_promised
  BY UpdateStep
<1> QED
  BY <1>1, <1>2, SlotsHold, PTL DEF Spec, KeepsUpdate, Promise!Spec, promised

-------------------------------------------------------------------------------
(* The settings.  A partition bears the stamp of the build that wrote what *)
(* is in it, or none and then it is erased before it is read.              *)
EmptyOfKeys == stamp = 0 /\ \A k \in Keys : writer[k] = 0

SettingsInv ==
    kept = "never" =>
        /\ stamp # 0 => \A k \in Keys : writer[k] \in {0, stamp}
        /\ Working => Ours /\ stamp \in {0, OurBuild}
        /\ phase = "stamping" => EmptyOfKeys
        /\ phase \in {"clearing", "resetting"} => Ours

RestTypeOK ==
    /\ phase \in Phases
    /\ stamp \in BuildNo /\ writer \in [Keys -> BuildNo]
    /\ kept \in {"never", "before", "now"} /\ page \in BOOLEAN
    /\ resets \in 0..MaxResets /\ refusals \in 0..MaxRefusals

(* The build of the image that runs is the number of a build. *)
LEMMA BuildType == ASSUME SlotInv PROVE OurBuild \in BuildNo /\ OurBuild # 0
BY Builds DEF Builds, SlotInv, BootInv, FirmwareTypeOK, OurBuild, Current, BuildNo

LEMMA CountType ==
    ASSUME NEW ok \in BOOLEAN, refusals \in 0..MaxRefusals, Written(ok)
    PROVE  refusals' \in 0..MaxRefusals
BY Builds DEF Builds, Written

LEMMA RestTypeStep == ASSUME SlotInv, RestTypeOK, [Next]_vars PROVE RestTypeOK'
<1> USE DEF RestTypeOK
<1>0. /\ OurBuild \in BuildNo /\ 0 \in BuildNo /\ MaxResets \in Nat
      /\ \A r \in 0..MaxResets : r < MaxResets => r + 1 \in 0..MaxResets
  BY BuildType, Builds DEF Builds, BuildNo
<1> USE DEF Next, BootStep, UpStep, Reset, EraseCut, Restart, BootFault, GoesDown,
        Start, Compare, Erase, EraseRefused, Stamp, BringUp, Confirm, CreateCode,
        CodeScreen, TimePasses, OpenPage, ClosePage, SetPayout, Sale, Upload,
        Panel, Commit, FactoryReset, Clear, ClearRefused, Restamp, SomeGone,
        deviceVars, vars
<1>1. phase' \in Phases
  BY DEF Phases
<1>2. page' \in BOOLEAN
  <2>1. page' = page \/ page' = TRUE \/ page' = FALSE
    OBVIOUS
  <2> QED
    BY <2>1
<1>3. kept' \in {"never", "before", "now"}
  OBVIOUS
<1>4. resets' \in 0..MaxResets
  <2>1. \/ resets' = resets
        \/ resets < MaxResets /\ resets' = resets + 1
    OBVIOUS
  <2> QED
    BY <1>0, <2>1
<1>5. refusals' \in 0..MaxRefusals
  <2>1. refusals' = refusals \/ \E ok \in BOOLEAN : Written(ok)
    OBVIOUS
  <2> QED
    BY <2>1, CountType
<1>6. stamp' \in BuildNo
  <2>1. stamp' \in {0, stamp, OurBuild}
    BY DEF Empty
  <2> QED
    BY <1>0, <2>1
<1> HIDE DEF Next, BootStep, UpStep, Reset, EraseCut, Restart, BootFault, GoesDown,
        Start, Compare, Erase, EraseRefused, Stamp, BringUp, Confirm, CreateCode,
        CodeScreen, TimePasses, OpenPage, ClosePage, SetPayout, Sale, Upload,
        Panel, Commit, FactoryReset, Clear, ClearRefused, Restamp, SomeGone,
        deviceVars, vars
<1>7. writer' \in [Keys -> BuildNo]
  <2>1. CASE EraseCut
    BY <1>0, <2>1 DEF EraseCut, SomeGone
  <2>2. CASE Erase \/ Clear
    BY <1>0, <2>2 DEF Erase, Clear, Empty
  <2>3. CASE SetPayout \/ Sale
    BY <1>0, <2>3 DEF SetPayout, Sale, Keys
  <2>4. CASE ClearRefused
    BY <1>0, <2>4 DEF ClearRefused, SomeGone
  <2>5. CASE ~(\/ EraseCut \/ Erase \/ Clear \/ ClearRefused \/ SetPayout
               \/ Sale)
    <3>1. writer' = writer
      BY <2>5 DEF Next, BootStep, UpStep, Reset, Restart, BootFault,
         Start, Compare, EraseRefused, Stamp, BringUp, Confirm, CreateCode,
         CodeScreen, TimePasses, OpenPage, ClosePage, Upload,
         Panel, Commit, FactoryReset, Restamp, deviceVars, vars
    <3> QED
      BY <3>1
  <2> QED
    BY <2>1, <2>2, <2>3, <2>4, <2>5
<1> QED
  BY <1>1, <1>2, <1>3, <1>4, <1>5, <1>6, <1>7

DeviceInv == LockInv /\ SlotInv /\ RestTypeOK

LEMMA DeviceHolds == Spec => []DeviceInv
<1>1. Init => RestTypeOK
  <2> SUFFICES ASSUME Init PROVE RestTypeOK
    OBVIOUS
  <2>1. /\ phase = "cut" /\ stamp = 0 /\ writer = [k \in Keys |-> 0]
        /\ kept = "never" /\ page = FALSE /\ resets = 0 /\ refusals = 0
    BY DEF Init
  <2>2. page \in BOOLEAN
    BY <2>1
  <2>3. 0 \in BuildNo /\ 0 \in 0..MaxResets /\ 0 \in 0..MaxRefusals
    BY Builds DEF Builds, BuildNo
  <2> QED
    BY <2>1, <2>2, <2>3 DEF RestTypeOK, Phases
<1>2. SlotInv /\ RestTypeOK /\ [Next]_vars => RestTypeOK'
  BY RestTypeStep
<1> QED
  BY <1>1, <1>2, SlotsHold, LockHolds, PTL DEF Spec, DeviceInv

(* The state of a terminal is of its type.  A stamp is the number of a     *)
(* build only because the slot that runs is never torn.                    *)
THEOREM DeviceTypeCorrect == Spec => []TypeOK
<1>1. DeviceInv => TypeOK
  BY DEF DeviceInv, LockInv, SlotInv, RestTypeOK, TypeOK
<1> QED
  BY <1>1, DeviceHolds, PTL

(* The image that runs is not replaced under itself. *)
LEMMA BuildStays ==
    ASSUME SlotInv, [Next]_vars, ~Start
    PROVE  OurBuild' = OurBuild
<1> USE DEF OurBuild, Current
<1>0. /\ slot \in [Slots -> Images \cup {"torn"}] /\ running \in Slots
      /\ Idle \in Slots /\ Idle # running
  BY OtherSlot DEF SlotInv, FirmwareTypeOK, Idle
<1>1. CASE Upload
  <2>1. running' = running /\ slot'[running] = slot[running]
    BY <1>0, <1>1 DEF Upload, BeginUpload, UploadRefused, UploadBreaks, UploadEnds,
                      slotVars
  <2> QED
    BY <2>1
<1>2. CASE Confirm
  BY <1>2 DEF Confirm, MarkValid
<1>3. CASE Panel \/ Commit
  BY <1>3 DEF Panel, ShowOffer, CardGoes, Discard, Install, Commit, Switch, slotVars
<1>4. CASE Falls \/ Rests
  BY <1>4 DEF Falls, Rests, fwVars, slotVars
<1> QED
  BY <1>1, <1>2, <1>3, <1>4, FirmwareMoves

LEMMA SettingsStep ==
    ASSUME SlotInv, RestTypeOK, SettingsInv, [Next]_vars
    PROVE  SettingsInv'
<1> SUFFICES ASSUME kept' = "never"
             PROVE  /\ stamp' # 0 => \A k \in Keys : writer'[k] \in {0, stamp'}
                    /\ (Working => Ours /\ stamp \in {0, OurBuild})'
                    /\ (phase = "stamping" => EmptyOfKeys)'
                    /\ (phase \in {"clearing", "resetting"} => Ours)'
  BY DEF SettingsInv
<1> USE DEF Ours, Working, EmptyOfKeys
<1>0. /\ kept = "never" => SettingsInv
      /\ ~Start => OurBuild' = OurBuild
      /\ OurBuild # 0
      /\ writer \in [Keys -> BuildNo]
  BY BuildStays, BuildType DEF RestTypeOK
<1>1. CASE Start
  BY <1>0, <1>1 DEF Start, SettingsInv
<1>2. CASE Reset \/ Restart \/ BootFault
  BY <1>0, <1>2 DEF Reset, Restart, BootFault, GoesDown, SettingsInv
<1>3. CASE EraseCut
  <2>1. /\ stamp' \in {0, stamp} /\ phase' = "cut" /\ kept' = kept
        /\ \A k \in Keys : writer'[k] \in {0, writer[k]}
    BY <1>3 DEF EraseCut, SomeGone, GoesDown
  <2>2. stamp # 0 => \A k \in Keys : writer[k] \in {0, stamp}
    BY <1>0, <2>1 DEF SettingsInv
  <2>3. stamp' # 0 => \A k \in Keys : writer'[k] \in {0, stamp'}
    BY <2>1, <2>2
  <2> QED
    BY <2>1, <2>3
<1>4. CASE Compare
  BY <1>0, <1>4 DEF Compare, Start, SettingsInv
<1>5. CASE Erase \/ Clear
  BY <1>0, <1>5 DEF Erase, Clear, Empty
<1>6. CASE EraseRefused
  BY <1>6 DEF EraseRefused
<1>7. CASE Stamp \/ Restamp
  <2>1. /\ phase \in {"stamping", "resetting"} /\ UNCHANGED <<writer, kept>>
        /\ phase' \in {"bringup", "restart"} /\ stamp' \in {stamp, OurBuild}
        /\ ~Start /\ (phase' = "bringup" => phase = "stamping")
    BY <1>7 DEF Stamp, Restamp, Start
  <2>2. Ours /\ (phase = "stamping" => EmptyOfKeys)
    BY <1>0, <2>1 DEF SettingsInv
  <2>3. stamp # 0 => \A k \in Keys : writer[k] \in {0, stamp}
    BY <1>0, <2>1 DEF SettingsInv
  <2> QED
    BY <1>0, <2>1, <2>2, <2>3
<1>8. CASE BringUp \/ Confirm
  <2>1. Working /\ UNCHANGED <<stamp, writer, kept>> /\ phase' \in {"confirm", "up"}
        /\ ~Start
    BY <1>8 DEF BringUp, Confirm, Start
  <2> QED
    BY <1>0, <2>1 DEF SettingsInv
<1>9. CASE SetPayout \/ Sale
  <2>1. /\ \A k \in Keys : writer'[k] \in {0, OurBuild, writer[k]}
        /\ phase = "up" /\ UNCHANGED <<stamp, kept, phase>> /\ ~Start
    BY <1>0, <1>9 DEF SetPayout, Sale, Up, Start
  <2> QED
    BY <1>0, <2>1 DEF SettingsInv
<1>10. CASE \/ CreateCode \/ CodeScreen \/ TimePasses \/ OpenPage \/ ClosePage
            \/ Upload \/ Panel \/ Commit \/ UNCHANGED vars
  <2>1. UNCHANGED <<stamp, writer, kept, phase>>
    BY <1>10 DEF CreateCode, CodeScreen, TimePasses, OpenPage, ClosePage, Upload,
       Panel, Commit, deviceVars, vars
  <2>2. ~Start
    BY <2>1 DEF Start
  <2> QED
    BY <1>0, <2>1, <2>2 DEF SettingsInv
<1>11. CASE FactoryReset
  <2>1. /\ UNCHANGED <<stamp, writer, kept>> /\ phase = "up"
        /\ phase' = "clearing" /\ ~Start
    BY <1>11 DEF FactoryReset, Up, Start
  <2> QED
    BY <1>0, <2>1 DEF SettingsInv
<1>12. CASE ClearRefused
  <2>1. /\ stamp' \in {0, stamp} /\ kept' = kept /\ ~Start
        /\ phase = "clearing" /\ phase' \in {"resetting", "restart"}
        /\ \A k \in Keys : writer'[k] \in {0, writer[k]}
    BY <1>12 DEF ClearRefused, SomeGone, Start
  <2>2. Ours /\ (stamp # 0 => \A k \in Keys : writer[k] \in {0, stamp})
    BY <1>0, <2>1 DEF SettingsInv
  <2> QED
    BY <1>0, <2>1, <2>2
<1> QED
  BY <1>1, <1>2, <1>3, <1>4, <1>5, <1>6, <1>7, <1>8, <1>9, <1>10, <1>11, <1>12
     DEF Next, BootStep, UpStep

(* No image reads a payout address or an open sale of another build,       *)
(* through any updates, rollbacks and erases cut short, as long as the     *)
(* flash has always let itself be erased (settings.h:317-332).             *)
THEOREM SettingsSound == Spec => []SettingsAreOurs
<1>1. Init => SettingsInv
  BY DEF Init, SettingsInv, Working
<1>2. SlotInv /\ RestTypeOK /\ SettingsInv /\ [Next]_vars => SettingsInv'
  BY SettingsStep
<1>3. SettingsInv => SettingsAreOurs
  BY DEF SettingsInv, SettingsAreOurs
<1> QED
  BY <1>1, <1>2, <1>3, DeviceHolds, PTL DEF Spec, DeviceInv

-------------------------------------------------------------------------------
(* The promise of Lock.  LockInv says what of the wait was served; TryInv  *)
(* says when a count can be found at all.                                  *)

(* A terminal without a code, or one being made, has nothing counted; the  *)
(* code screen is that of a terminal with one; and nothing is installed    *)
(* over a try that is not counted yet.                                     *)
TryInv ==
    /\ creating \/ hash = 0 => fails = 0
    /\ unlock => hash # 0
    /\ setting = "hash" \/ hash # 0 => salt # 0
    /\ counting => commit = "none"

LEMMA CountedFirst ==
    ASSUME LockInv, TryInv, [Next]_vars PROVE (counting => commit = "none")'
<1>0. counting => unlock /\ phase = "up" /\ commit = "none"
  BY DEF LockInv, Screens, TryInv
<1>1. CASE Panel
  BY <1>1 DEF Panel, adminVars, lockVars
<1>2. CASE Commit
  BY <1>0, <1>2 DEF Commit, Switch, adminVars, lockVars
<1>3. CASE Falls
  BY <1>3 DEF Falls, GoesDown, ForgetLock
<1>4. CASE CodeScreen
  BY <1>4 DEF CodeScreen, Up, fwVars, stageVars
<1>5. CASE ~(Panel \/ Commit \/ Falls \/ CodeScreen)
  <2>1. commit' = commit
    BY <1>5, FirmwareMoves DEF Start, Confirm, Upload, BeginUpload, UploadRefused,
       UploadBreaks, UploadEnds, Rests, fwVars, stageVars
  <2>2. counting' = counting \/ ~counting'
    BY <1>5, LockMoves DEF CreateCode, SetSalt, SetHash, SetFails, SetRefused,
       TimePasses, Tick, Wiped, FactoryReset, Confirm, Forgotten, ForgetLock,
       adminVars, lockVars
  <2> QED
    BY <1>0, <2>1, <2>2
<1> QED
  BY <1>1, <1>2, <1>3, <1>4, <1>5

LEMMA TryStep ==
    ASSUME "codecut" \notin Upsets, LockInv, TryInv, [Next]_vars PROVE TryInv'
<1> DEFINE Counted == /\ creating \/ hash = 0 => fails = 0
                      /\ unlock => hash # 0
                      /\ setting = "hash" \/ hash # 0 => salt # 0
<1> SUFFICES Counted'
  BY CountedFirst DEF TryInv
<1>0. Counted /\ Screens /\ sets \in Nat
  BY DEF TryInv, LockInv, AdminTypeOK, AdminFiguresOK
<1>1. CASE UNCHANGED adminVars
  BY <1>0, <1>1 DEF adminVars, codeVars, lockVars
<1>2. CASE CreateCode
  <2>1. CASE SetSalt
    BY <1>0, <2>1 DEF SetSalt
  <2>2. CASE SetHash
    BY <1>0, <2>2 DEF SetHash, Screens
  <2>3. CASE SetFails
    BY <1>0, <2>3 DEF SetFails, Screens
  <2>4. CASE SetRefused
    BY <1>0, <2>4 DEF SetRefused, codeVars
  <2> QED
    BY <1>2, <2>1, <2>2, <2>3, <2>4 DEF CreateCode
<1>3. CASE CodeScreen
  <2>0. ~creating
    BY <1>3 DEF CodeScreen, Up
  <2>1. CASE OpenCode
    BY <1>0, <2>0, <2>1 DEF OpenCode, HasCode, codeVars
  <2>2. CASE CloseCode \/ LeaveMenu \/ TryWrong
    BY <1>0, <2>0, <2>2 DEF CloseCode, LeaveMenu, TryWrong, codeVars
  <2>3. ASSUME NEW ok \in BOOLEAN, TryRight(ok) PROVE Counted'
    BY <1>0, <2>0, <2>3 DEF TryRight
  <2>4. ASSUME NEW ok \in BOOLEAN, CountWrong(ok) PROVE Counted'
    <3>1. /\ unlock /\ hash # 0 /\ salt # 0 /\ ~creating /\ setting = "none"
          /\ UNCHANGED <<salt, hash, unlock, creating, setting>>
      BY <1>0, <2>0, <2>4 DEF CountWrong, Screens
    <3> QED
      BY <3>1
  <2> QED
    BY <1>3, <2>1, <2>2, <2>3, <2>4 DEF CodeScreen
<1>4. CASE TimePasses
  BY <1>0, <1>4 DEF TimePasses, Tick, codeVars
<1>5. CASE Wiped
  <2>1. /\ ~unlock /\ UNCHANGED lockVars /\ (EraseCode \/ UNCHANGED codeVars)
    BY <1>0, <1>5 DEF Wiped, CodeGone, Screens
  <2>2. CASE EraseCode
    <3>1. setting = "none"
      BY <1>0, <1>5 DEF Wiped, Screens
    <3> QED
      BY <2>1, <2>2, <3>1 DEF EraseCode, lockVars
  <2>3. CASE UNCHANGED codeVars
    BY <1>0, <2>1, <2>3 DEF codeVars, lockVars
  <2> QED
    BY <2>1, <2>2, <2>3
<1>6. CASE Confirm
  BY <1>0, <1>6 DEF Confirm, HasCode, codeVars
<1>7. CASE Forgotten
  BY <1>0, <1>7 DEF Forgotten, CodeGone, ForgetLock, EraseCode, codeVars
<1>8. CASE FactoryReset
  BY <1>0, <1>8 DEF FactoryReset, adminVars, codeVars, lockVars
<1> QED
  BY <1>1, <1>2, <1>3, <1>4, <1>5, <1>6, <1>7, <1>8, LockMoves

(* The six variables of Lock, as they stand in a terminal. *)
mishaps == resets + refusals
guarded == <<hash, fails, since, counting, menu, mishaps>>

(* Mishaps are only added to. *)
LEMMA MishapsGrow ==
    ASSUME RestTypeOK, RestTypeOK', [Next]_vars
    PROVE  /\ mishaps \in Nat /\ mishaps' \in Nat /\ mishaps' >= mishaps
           /\ resets' > resets => mishaps' > mishaps
<1>1. /\ resets \in Nat /\ refusals \in Nat /\ resets' \in Nat
      /\ refusals' \in Nat
  BY Builds DEF Builds, RestTypeOK
<1>2. resets' = resets \/ resets' = resets + 1
  BY DEF Next, BootStep, UpStep, Reset, EraseCut, Restart, BootFault,
     Start, Compare, Erase, EraseRefused, Stamp, BringUp, Confirm, CreateCode,
     CodeScreen, TimePasses, OpenPage, ClosePage, SetPayout, Sale, Upload,
     Panel, Commit, FactoryReset, Clear, ClearRefused, Restamp, deviceVars,
     vars
<1>3. refusals' = refusals \/ \E ok \in BOOLEAN : Written(ok)
  BY DEF Next, BootStep, UpStep, Reset, EraseCut, Restart, BootFault,
     Start, Compare, Erase, EraseRefused, Stamp, BringUp, Confirm, CreateCode,
     CodeScreen, TimePasses, OpenPage, ClosePage, SetPayout, Sale, Upload,
     Panel, Commit, FactoryReset, Clear, ClearRefused, Restamp, deviceVars,
     vars
<1>4. refusals' = refusals \/ refusals' = refusals + 1
  BY <1>3 DEF Written
<1>5. resets' >= resets /\ refusals' >= refusals
  BY <1>1, <1>2, <1>4
<1>6. \A a, b, c, d \in Nat : c >= a /\ d >= b =>
          /\ a + b \in Nat /\ c + d \in Nat /\ c + d >= a + b
          /\ c > a => c + d > a + b
  OBVIOUS
<1> QED
  BY <1>1, <1>5, <1>6 DEF mishaps

(* The code screen, and the write that goes with it. *)
LEMMA ScreenKeeps ==
    ASSUME LockInv, TryInv, RestTypeOK, CodeScreen
    PROVE  Door!Next \/ UNCHANGED guarded
<1>0. /\ AdminFiguresOK /\ Screens /\ TryInv /\ WaitDue
      /\ resets' = resets /\ resets \in Nat /\ refusals \in Nat
      /\ UNCHANGED refusals => mishaps' = mishaps
  BY Builds DEF Builds, LockInv, AdminTypeOK, CodeScreen, RestTypeOK, mishaps
<1>1. wait = 0 /\ Admitted => Door!MayTry
  BY <1>0, PenaltyType
     DEF WaitDue, AdminFiguresOK, Admitted, Door!MayTry, TryInv
<1>2. CASE (OpenCode \/ CloseCode) /\ UNCHANGED refusals
  <2>1. /\ since' = 0 /\ ~menu'
        /\ UNCHANGED <<hash, fails, counting, mishaps>>
    BY <1>0, <1>2 DEF OpenCode, CloseCode, codeVars, Screens
  <2> QED
    BY <2>1 DEF Door!Next, Door!Visit, mishaps
<1>3. CASE LeaveMenu /\ UNCHANGED refusals
  BY <1>0, <1>3 DEF LeaveMenu, codeVars, Door!Next, Door!Leave, mishaps
<1>4. CASE TryWrong /\ UNCHANGED refusals
  <2>1. Door!MayTry
    BY <1>1, <1>4 DEF TryWrong, Admitted
  <2> QED
    BY <1>0, <1>4, <2>1 DEF TryWrong, codeVars, Door!Next, Door!Wrong, mishaps
<1>5. ASSUME NEW ok \in BOOLEAN, Written(ok), TryRight(ok)
      PROVE  Door!Next
  <2>1. Door!MayTry
    BY <1>1, <1>5 DEF TryRight, Admitted
  <2>2. IF ok THEN fails' = 0 /\ mishaps' = mishaps
              ELSE fails' = fails /\ mishaps' > mishaps
    BY <1>0, <1>5 DEF TryRight, Written, mishaps
  <2>3. Door!Right
    BY <1>5, <2>1, <2>2 DEF TryRight, Door!Right, mishaps
  <2> QED
    BY <2>3 DEF Door!Next
<1>6. ASSUME NEW ok \in BOOLEAN, Written(ok), CountWrong(ok)
      PROVE  Door!Next
  <2>1. fails \in 0..FailsMax /\ FailsMax \in Nat /\ salt # 0
    BY <1>0, <1>6, LockSizes
       DEF LockSizes, AdminFiguresOK, CountWrong, Screens, TryInv
  <2>2. AtMost(fails + 1, FailsMax) = IF fails = FailsMax THEN fails ELSE fails + 1
    BY <2>1 DEF AtMost
  <2>3. \/ /\ fails' = IF fails = FailsMax THEN fails ELSE fails + 1
           /\ mishaps' = mishaps
        \/ fails' = fails /\ mishaps' > mishaps
    BY <1>0, <1>6, <2>1, <2>2 DEF CountWrong, Written, mishaps
  <2>4. Door!Count
    BY <1>6, <2>3 DEF CountWrong, Door!Count, mishaps
  <2> QED
    BY <2>4 DEF Door!Next
<1> QED
  BY <1>2, <1>3, <1>4, <1>5, <1>6 DEF CodeScreen

LEMMA LockKeeps ==
    ASSUME "codecut" \notin Upsets,
           LockInv, TryInv, RestTypeOK, RestTypeOK', [Next]_vars
    PROVE  Door!Next \/ UNCHANGED guarded
<1>0. /\ mishaps \in Nat /\ mishaps' \in Nat /\ mishaps' >= mishaps
      /\ resets' > resets => mishaps' > mishaps
      /\ Screens /\ AdminFiguresOK /\ resets \in Nat
  BY MishapsGrow, Builds DEF Builds, RestTypeOK, LockInv, AdminTypeOK
<1>1. CASE Reset \/ EraseCut \/ Restart \/ BootFault
  <2>1. ForgetLock /\ (EraseCode \/ UNCHANGED codeVars)
    BY <1>1 DEF Reset, EraseCut, Restart, BootFault, GoesDown, SomeGone, CodeGone
  <2>2. counting => mishaps' > mishaps
    <3>1. counting => phase = "up" /\ commit = "none"
      BY <1>0 DEF Screens, TryInv
    <3>2. counting => resets' = resets + 1
      BY <1>1, <3>1 DEF Reset, EraseCut, Restart, BootFault
    <3> QED
      BY <1>0, <3>2
  <2>3. Door!Reset
    BY <1>0, <2>1, <2>2 DEF ForgetLock, EraseCode, codeVars, Door!Reset,
       Door!Erased, mishaps
  <2> QED
    BY <2>3 DEF Door!Next
<1>2. CASE \/ Start \/ Compare \/ EraseRefused \/ Stamp \/ BringUp \/ Confirm
           \/ OpenPage \/ ClosePage \/ SetPayout \/ Sale \/ Upload \/ Panel
           \/ Commit \/ FactoryReset \/ Restamp \/ UNCHANGED vars
  <2>1. UNCHANGED <<hash, fails, since, counting, menu>>
    BY <1>2 DEF Start, Compare, EraseRefused, Stamp, BringUp, Confirm, OpenPage,
       ClosePage, SetPayout, Sale, Upload, Panel, Commit, FactoryReset, Restamp,
       vars,       adminVars, codeVars, lockVars
  <2> QED
    BY <1>0, <2>1 DEF Door!Next, Door!Mishap, guarded, mishaps
<1>3. CASE Erase \/ Clear \/ ClearRefused
  <2>1. UNCHANGED <<since, counting, menu>> /\ (EraseCode \/ UNCHANGED codeVars)
    BY <1>3 DEF Erase, Clear, ClearRefused, Empty, SomeGone, CodeGone, lockVars
  <2> QED
    BY <1>0, <2>1 DEF EraseCode, codeVars, Door!Next, Door!Erase, Door!Erased,
       Door!Mishap, guarded, mishaps
<1>4. CASE CreateCode
  <2>1. CASE SetHash
    <3>1. /\ fails = 0 /\ ~counting /\ hash' # 0 /\ mishaps' = mishaps
          /\ UNCHANGED <<fails, since, counting, menu>>
      BY <1>0, <1>4, <2>1 DEF CreateCode, SetHash, SetFails, SetRefused, SetSalt,
         Screens, TryInv, mishaps
    <3> QED
      BY <3>1 DEF Door!Next, Door!Create, mishaps, guarded
  <2>2. CASE SetSalt \/ SetFails \/ SetRefused
    <3>1. UNCHANGED <<hash, fails, since, counting, menu>>
      BY <1>0, <2>2 DEF SetSalt, SetFails, SetRefused, codeVars, Screens, TryInv
    <3> QED
      BY <1>0, <3>1 DEF Door!Next, Door!Mishap, guarded, mishaps
  <2> QED
    BY <1>4, <2>1, <2>2 DEF CreateCode
<1>5. CASE TimePasses
  <2>1. /\ UNCHANGED <<hash, fails, counting, menu, resets, refusals>>
        /\ since' = AtMost(since + 1, WaitMax)
    BY <1>5 DEF TimePasses, Tick, codeVars, deviceVars
  <2>2. since' = since + 1 \/ since' = since
    BY <1>0, <2>1, LockSizes DEF LockSizes, AdminFiguresOK, AtMost
  <2> QED
    BY <2>1, <2>2 DEF Door!Next, Door!Wait, guarded, mishaps
<1>6. CASE CodeScreen
  BY <1>6, ScreenKeeps
<1> QED
  BY <1>1, <1>2, <1>3, <1>4, <1>5, <1>6 DEF Next, BootStep, UpStep

(* Screens, flash and resets keep the promise of Lock: every wrong code is *)
(* counted unless a cut or a refused write explains why not, the count     *)
(* falls with the right code or the code only, and no power cycle makes a  *)
(* guess cheaper (ui.cpp:291-295), if an erase that is cut takes all keys  *)
(* of the code or none.                                                    *)
THEOREM LockKept ==
    ASSUME "codecut" \notin Upsets
    PROVE  Spec => KeepsLock
<1>1. Init => TryInv /\ Door!Init
  <2> SUFFICES ASSUME Init PROVE TryInv /\ Door!Init
    OBVIOUS
  <2>1. /\ hash = 0 /\ fails = 0 /\ creating = FALSE /\ unlock = FALSE
        /\ setting = "none" /\ menu = FALSE /\ counting = FALSE /\ since = 0
        /\ resets = 0 /\ refusals = 0
    BY DEF Init, AdminInit
  <2> QED
    BY <2>1 DEF TryInv, Door!Init
<1>2. LockInv /\ TryInv /\ [Next]_vars => TryInv'
  BY TryStep
<1>3. DeviceInv /\ DeviceInv' /\ TryInv /\ [Next]_vars => [Door!Next]_guarded
  BY LockKeeps DEF DeviceInv
<1>4. DeviceInv => LockInv
  BY DEF DeviceInv
<1> QED
  BY <1>1, <1>2, <1>3, <1>4, DeviceHolds, PTL
     DEF Spec, KeepsLock, Door!Spec, guarded, mishaps
===============================================================================
