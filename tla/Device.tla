-------------------------------- MODULE Device --------------------------------
(***************************************************************************)
(* The terminal between two resets: bring-up (boot.cpp), the settings      *)
(* partition and the build that wrote it (settings.cpp), the firmware      *)
(* slots and the admin code.  A reset may come between any two steps, and  *)
(* the flash may refuse a write.                                           *)
(***************************************************************************)
EXTENDS Firmware, AdminLock

CONSTANTS
    Build,        \* BUILD_ID of each image
    MaxResets,    \* bound: power cuts and hardware faults
    MaxRefusals,  \* bound: writes the flash refuses
    Upsets        \* "codewrite": it refuses the keys of the admin code too;
                  \* "codecut": an erase that is cut takes some of them only

ASSUME Builds ==
    /\ Build \in [Images -> Nat \ {0}]
    /\ MaxResets \in Nat /\ MaxRefusals \in Nat
    /\ Upsets \subseteq {"codewrite", "codecut"}

Keys == {"payout", "sale"}    \* the in-flight record is the "sale"

VARIABLES
    phase,       \* where bring-up, or a factory reset, is
    stamp,       \* K_BUILD_ID, 0: no key
    writer,      \* the build that wrote each key, 0: no key
    kept,        \* history: when an erase failed and the settings stayed
    page,        \* the config page is up (Portal)
    resets, refusals   \* counters for the bounds

deviceVars == <<phase, stamp, writer, kept, page, resets, refusals>>

vars == <<fwVars, adminVars, deviceVars>>

BuildNo == {0} \cup {Build[i] : i \in Images}
OurBuild == Build[Current]

Phases == {"cut", "settings", "erasing", "stamping", "bringup", "confirm", "up",
           "clearing", "resetting", "restart"}

TypeOK ==
    /\ FirmwareTypeOK /\ AdminTypeOK
    /\ phase \in Phases
    /\ stamp \in BuildNo /\ writer \in [Keys -> BuildNo]
    /\ kept \in {"never", "before", "now"} /\ page \in BOOLEAN
    /\ resets \in 0..MaxResets /\ refusals \in 0..MaxRefusals

Init ==
    /\ FirmwareInit /\ AdminInit
    /\ phase = "cut" /\ stamp = 0 /\ writer = [k \in Keys |-> 0]
    /\ kept = "never" /\ page = FALSE /\ resets = 0 /\ refusals = 0

(* A write that the flash refuses is counted.                              *)
Written(ok) == /\ ok \/ refusals < MaxRefusals
               /\ refusals' = IF ok THEN refusals ELSE refusals + 1

-------------------------------------------------------------------------------
(* Resets.                                                                 *)

GoesDown == /\ phase' = "cut" /\ page' = FALSE
            /\ ForgetStaging /\ ForgetLock

(* A power cut, a panic or the watchdog.                                   *)
Reset ==
    /\ phase # "cut" /\ resets < MaxResets /\ resets' = resets + 1
    /\ GoesDown
    /\ UNCHANGED <<slotVars, codeVars, stamp, writer, kept, refusals>>

(* An erase that does not come to its end leaves some of the keys; those   *)
(* of the code go together, but for the upset.                             *)
CodeGone ==
    IF "codecut" \in Upsets
    THEN salt' \in {0, salt} /\ hash' \in {0, hash} /\ fails' \in {0, fails}
    ELSE EraseCode \/ UNCHANGED codeVars

SomeGone ==
    /\ CodeGone
    /\ \E gone \in SUBSET Keys :
          writer' = [k \in Keys |-> IF k \in gone THEN 0 ELSE writer[k]]
    /\ stamp' \in {0, stamp}

(* A cut in the middle of the wipe, or of a factory reset's own erase.     *)
EraseCut ==
    /\ phase \in {"erasing", "clearing"}
    /\ resets < MaxResets /\ resets' = resets + 1
    /\ GoesDown /\ SomeGone
    /\ UNCHANGED <<slotVars, kept, refusals>>

(* esp_restart at the end of an Install or a factory reset.                *)
Restart ==
    /\ phase = "restart" \/ commit = "restart"
    /\ GoesDown
    /\ UNCHANGED <<slotVars, codeVars, stamp, writer, kept, resets, refusals>>

-------------------------------------------------------------------------------
(* Bring-up: pos_boot.                                                     *)

Start ==
    /\ phase = "cut" /\ phase' = "settings"
    /\ Bootloader
    /\ kept' = IF kept = "now" THEN "before" ELSE kept
    /\ UNCHANGED <<stageVars, adminVars, stamp, writer, page, resets, refusals>>

(* Mutant: an older image keeps what a newer one wrote.                    *)
CompareOlder ==
    /\ phase = "settings"
    /\ phase' = IF stamp >= OurBuild THEN "bringup" ELSE "erasing"
    /\ UNCHANGED <<fwVars, adminVars, stamp, writer, kept, page, resets, refusals>>

(* settings_wipe_if_new_build: only equality keeps the settings.           *)
Compare ==
    /\ phase = "settings"
    /\ phase' = IF stamp = OurBuild THEN "bringup" ELSE "erasing"
    /\ UNCHANGED <<fwVars, adminVars, stamp, writer, kept, page, resets, refusals>>

Empty == /\ EraseCode /\ stamp' = 0 /\ writer' = [k \in Keys |-> 0]

Erase ==
    /\ phase = "erasing" /\ phase' = "stamping"
    /\ Empty
    /\ UNCHANGED <<fwVars, lockVars, kept, page, resets, refusals>>

(* A terminal that still takes payments beats a brick.                     *)
EraseRefused ==
    /\ phase = "erasing" /\ phase' = "bringup"
    /\ Written(FALSE) /\ kept' = "now"
    /\ UNCHANGED <<fwVars, adminVars, stamp, writer, page, resets>>

Stamp ==
    /\ phase = "stamping" /\ phase' = "bringup"
    /\ \E ok \in BOOLEAN : Written(ok) /\ stamp' = (IF ok THEN OurBuild ELSE stamp)
    /\ UNCHANGED <<fwVars, adminVars, writer, kept, page, resets>>

(* Mutant: what the probes say is not looked at.                           *)
BringUpUnprobed ==
    /\ phase = "bringup" /\ phase' = "confirm"
    /\ UNCHANGED <<fwVars, adminVars, stamp, writer, kept, page, resets, refusals>>

BringUp ==
    /\ phase = "bringup" /\ Current \in Healthy /\ phase' = "confirm"
    /\ UNCHANGED <<fwVars, adminVars, stamp, writer, kept, page, resets, refusals>>

(* boot_fault restarts, whether the image is at fault or the hardware is.  *)
BootFault ==
    /\ phase = "bringup"
    /\ \/ Current \notin Healthy /\ UNCHANGED resets
       \/ resets < MaxResets /\ resets' = resets + 1
    /\ GoesDown
    /\ UNCHANGED <<slotVars, codeVars, stamp, writer, kept, refusals>>

(* A terminal without a code comes up on the creation screen.              *)
Confirm ==
    /\ phase = "confirm" /\ phase' = "up"
    /\ \E ok \in BOOLEAN : Written(ok) /\ MarkValid(ok)
    /\ creating' = ~HasCode
    /\ UNCHANGED <<stageVars, codeVars, setting, sets, unlock, menu, wait,
                   counting, since>>
    /\ UNCHANGED <<stamp, writer, kept, page, resets>>

BootStep == Start \/ Compare \/ Erase \/ EraseRefused \/ Stamp \/ BringUp
            \/ BootFault \/ Confirm

-------------------------------------------------------------------------------
(* A terminal that is up.  The UI task is away while it installs.          *)

Up == phase = "up" /\ ~creating /\ commit = "none"

(* settings_set_admin_code, on the creation screen.                        *)
CreateCode ==
    /\ phase = "up"
    /\ \/ (SetSalt \/ SetHash \/ SetFails) /\ UNCHANGED refusals
       \/ "codewrite" \in Upsets /\ SetRefused /\ Written(FALSE)
    /\ UNCHANGED <<fwVars, phase, stamp, writer, kept, page, resets>>

(* What a browser does meanwhile is in Portal.                             *)
CodeScreen ==
    /\ Up /\ ~page
    /\ \/ (OpenCode \/ CloseCode \/ LeaveMenu \/ TryWrong) /\ UNCHANGED refusals
       \/ \E ok \in BOOLEAN : Written(ok) /\ (TryRight(ok) \/ CountWrong(ok))
    /\ UNCHANGED <<fwVars, phase, stamp, writer, kept, page, resets>>

TimePasses ==
    /\ Up /\ ~page /\ Tick
    /\ UNCHANGED <<fwVars, deviceVars>>

(* Configure, behind the code; the stop of the page waits for a request.   *)
OpenPage ==
    /\ Up /\ menu /\ ~page /\ page' = TRUE
    /\ UNCHANGED <<fwVars, adminVars, phase, stamp, writer, kept, resets, refusals>>

ClosePage ==
    /\ page /\ upload = "none" /\ page' = FALSE
    /\ UNCHANGED <<fwVars, adminVars, phase, stamp, writer, kept, resets, refusals>>

(* An address accepted on the page, or in the wizard of a terminal that    *)
(* has none.                                                               *)
SetPayout ==
    /\ Up /\ (page \/ writer["payout"] = 0)
    /\ writer' = [writer EXCEPT !["payout"] = OurBuild]
    /\ UNCHANGED <<fwVars, adminVars, phase, stamp, kept, page, resets, refusals>>

(* A sale is recorded and settled (Settlement).                            *)
Sale ==
    /\ Up /\ ~page /\ writer["payout"] # 0
    /\ writer' = [writer EXCEPT !["sale"] = IF @ = 0 THEN OurBuild ELSE 0]
    /\ UNCHANGED <<fwVars, adminVars, phase, stamp, kept, page, resets, refusals>>

Upload ==
    /\ phase = "up" /\ page
    /\ \/ \E i \in Images : BeginUpload(i)
       \/ UploadRefused \/ UploadBreaks \/ UploadEnds
    /\ UNCHANGED <<adminVars, deviceVars>>

(* A wrong code is counted in the pass of the UI task that compared it.    *)
Panel ==
    /\ Up /\ ~counting
    /\ ShowOffer \/ CardGoes \/ Discard \/ Install
    /\ UNCHANGED <<adminVars, deviceVars>>

Commit ==
    /\ phase = "up" /\ Switch
    /\ UNCHANGED <<adminVars, deviceVars>>

(* settings_factory_reset, behind the code: the keys of the namespace, one *)
(* after the other, and the stamp again.                                   *)
FactoryReset ==
    /\ Up /\ menu /\ phase' = "clearing"
    /\ UNCHANGED <<fwVars, adminVars, stamp, writer, kept, page, resets, refusals>>

Clear ==
    /\ phase = "clearing" /\ phase' = "resetting"
    /\ Empty
    /\ UNCHANGED <<fwVars, lockVars, kept, page, resets, refusals>>

(* Nobody asks whether it was erased, nor whether it could be opened.      *)
ClearRefused ==
    /\ phase = "clearing" /\ Written(FALSE)
    /\ \/ phase' = "resetting" /\ SomeGone
       \/ phase' = "restart" /\ UNCHANGED <<codeVars, stamp, writer>>
    /\ UNCHANGED <<fwVars, lockVars, kept, page, resets>>

Restamp ==
    /\ phase = "resetting" /\ phase' = "restart"
    /\ \E ok \in BOOLEAN : Written(ok) /\ stamp' = (IF ok THEN OurBuild ELSE stamp)
    /\ UNCHANGED <<fwVars, adminVars, writer, kept, page, resets>>

UpStep == \/ CreateCode \/ CodeScreen \/ TimePasses \/ OpenPage \/ ClosePage
          \/ SetPayout \/ Sale \/ Upload \/ Panel \/ Commit
          \/ FactoryReset \/ Clear \/ ClearRefused \/ Restamp

-------------------------------------------------------------------------------
Next == BootStep \/ UpStep \/ Reset \/ EraseCut \/ Restart

(* Bring-up is straight-line code: it goes on as long as there is power.   *)
Spec == Init /\ [][Next]_vars /\ WF_vars(BootStep)

-------------------------------------------------------------------------------
(* Properties.                                                             *)

Runs == phase # "cut"

(* Whatever is uploaded, interrupted or rolled back, the image that runs   *)
(* is the one the unit was made with or one whose version somebody read on *)
(* the card when tapping Install (ota.h:37-41).                            *)
RunsOnlyAccepted == Runs => Current \in accepted \cup {Factory}

(* The image an Install is about, from the tap to the boot that tries it.   *)
Due == IF (commit = "switch" \/ bootSlot # running) /\ slot[Idle] # "torn"
       THEN slot[Idle] ELSE "none"

(* What runs, as somebody who looks at the terminal would say.             *)
Image == IF Runs THEN Current ELSE "none"

Promise == INSTANCE Update WITH Images <- Signed, image <- Image, due <- Due

(* The terminal keeps the promise of Update: the slots, the upload and the *)
(* bootloader together run what came up before, or once what the card      *)
(* named when Install was tapped (ota.h:37-41, 60-64).                     *)
KeepsUpdate == Promise!Spec

(* A reset at any moment finds an image to run, and an image on probation  *)
(* has one that came up before to go back to (ota.h:60-64).                *)
AlwaysBoots ==
    /\ slot[running] # "torn"
    /\ bootSlot = running /\ state[running] = "pending" =>
           slot[Other(running)] \in proven

Working == phase \in {"bringup", "confirm", "up"}

Ours == \A k \in Keys : writer[k] \in {0, OurBuild}

(* An image reads no payout address and no open sale that another build    *)
(* wrote, through updates, rollbacks and erases cut short - as long as the *)
(* flash has always let itself be erased (settings.h:317-332).             *)
SettingsAreOurs == Working /\ kept = "never" => Ours

(* An erase that fails is forgiven for the boot it fails on                *)
(* (settings.cpp:602-603), and tried again on the next.                    *)
ErasedByNextBoot == Working /\ kept # "now" => Ours

(* A code that is asked for can be given: no salt without its hash, however*)
(* the three writes are cut (settings.cpp:396-398).                        *)
CodeOpens == HasCode /\ setting = "none" => salt = hash

(* No code is compared before the wait that the count in flash costs has   *)
(* been served on this very visit, whatever was served before a reset, and *)
(* whether or not the flash took the last count (ui.cpp:291-296).          *)
Compared == (counting' /\ ~counting) \/ (menu' /\ ~menu)

WaitIsServed == [][Compared => since >= Penalty(fails)]_vars

Door == INSTANCE Lock WITH code <- hash, served <- since, compared <- counting,
                           open <- menu, mishaps <- resets + refusals

(* The terminal keeps the promise of Lock, through screens, resets and     *)
(* erases: every wrong code is counted unless a cut or a refused write     *)
(* explains why not, the count falls with the right code or the code only, *)
(* and a power cycle does not make a guess cheaper (ui.cpp:291-295).       *)
KeepsLock == Door!Spec

(* An image that cannot bring its hardware up does not stay.               *)
BrokenRollsBack == (Runs /\ Current \notin Healthy) ~> (Runs /\ Current \in Healthy)
===============================================================================
