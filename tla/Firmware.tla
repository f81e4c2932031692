------------------------------- MODULE Firmware -------------------------------
(***************************************************************************)
(* The two firmware slots (ota.cpp), the upload into the idle one          *)
(* (provision.cpp, ota_post), the card that offers it on the panel, and    *)
(* the bootloader that chooses between them (ESP-IDF, external).           *)
(* An image stands for its bytes and the version in its header.            *)
(***************************************************************************)
EXTENDS Naturals

CONSTANTS
    Images,
    Factory,       \* the image flashed over USB
    Signed,        \* images esp_ota_end accepts
    Healthy        \* images that bring the panel, the reader and the wallet up

ASSUME ImageKinds ==
    /\ Signed \subseteq Images /\ Healthy \subseteq Images
    /\ Factory \in Signed \cap Healthy
    /\ "none" \notin Images /\ "torn" \notin Images

Slots == {0, 1}

VARIABLES
    slot,       \* what each slot holds: an image, or "torn"
    state,      \* otadata: what the bootloader thinks of each slot
    bootSlot,   \* otadata: the slot to boot
    running,    \* the slot that runs
    proven,     \* history: the images that came up
    upload,     \* the image ota_post is receiving: s_receiving
    staged,     \* s_staged and s_staged_ver
    offer,      \* UI_EVENT_OTA_STAGED on its way, or s_ota_modal_dirty
    card,       \* the version on the card of the panel
    commit,     \* where ota_commit(true) is
    accepted    \* history: the versions Install was tapped for

slotVars  == <<slot, state, bootSlot, running, proven>>
stageVars == <<upload, staged, offer, card, commit, accepted>>
fwVars    == <<slotVars, stageVars>>

Other(s) == 1 - s
Current  == slot[running]

(* esp_ota_get_next_update_partition(NULL): the slot that does not run.    *)
Idle == Other(running)

FirmwareTypeOK ==
    /\ slot \in [Slots -> Images \cup {"torn"}]
    /\ state \in [Slots -> {"none", "new", "pending", "valid", "aborted"}]
    /\ bootSlot \in Slots /\ running \in Slots
    /\ proven \subseteq Images /\ accepted \subseteq Images
    /\ upload \in Images \cup {"none"}
    /\ staged \in Images \cup {"none"} /\ card \in Images \cup {"none"}
    /\ offer \in BOOLEAN /\ commit \in {"none", "switch", "restart"}

FirmwareInit ==
    /\ slot = [s \in Slots |-> IF s = 0 THEN Factory ELSE "torn"]
    /\ state = [s \in Slots |-> "none"]
    /\ bootSlot = 0 /\ running = 0 /\ proven = {Factory}
    /\ upload = "none" /\ staged = "none"
    /\ offer = FALSE /\ card = "none" /\ commit = "none"
    /\ accepted = {}

(* The staging is in RAM.                                                  *)
ForgetStaging ==
    /\ upload' = "none" /\ staged' = "none"
    /\ offer' = FALSE /\ card' = "none" /\ commit' = "none"
    /\ UNCHANGED accepted

-------------------------------------------------------------------------------
(* The bootloader.                                                         *)

(* On probation and reset before it was confirmed, or not whole: the other *)
(* slot.  A new image is put on probation.                                 *)
RollBack == state[bootSlot] = "pending" \/ slot[bootSlot] = "torn"

Bootloader ==
    LET s == IF RollBack THEN Other(bootSlot) ELSE bootSlot
    IN  /\ running' = s /\ bootSlot' = s
        /\ state' = [state EXCEPT
               ![bootSlot] = IF RollBack THEN "aborted"
                             ELSE IF @ = "new" THEN "pending" ELSE @]
        /\ UNCHANGED <<slot, proven>>

(* ota_mark_valid; the write may be refused, and the image goes at the     *)
(* next reset.                                                             *)
MarkValid(written) ==
    /\ state' = IF state[running] = "pending" /\ written
                THEN [state EXCEPT ![running] = "valid"] ELSE state
    /\ proven' = proven \cup {Current}
    /\ UNCHANGED <<slot, bootSlot, running>>

-------------------------------------------------------------------------------
(* The HTTP task: ota_post.                                                *)

(* Mutant: an image that waits for its card is overwritten.                *)
BeginUploadOver(i) ==
    /\ upload = "none" /\ state[running] # "pending"
    /\ slot' = [slot EXCEPT ![Idle] = "torn"]
    /\ upload' = i
    /\ UNCHANGED <<state, bootSlot, running, proven, staged, offer, card, commit,
                   accepted>>

(* Mutant: the slot to write is the one after the slot to boot.            *)
BeginUploadAfterBoot(i) ==
    /\ upload = "none" /\ staged = "none" /\ state[running] # "pending"
    /\ slot' = [slot EXCEPT ![Other(bootSlot)] = "torn"]
    /\ upload' = i
    /\ UNCHANGED <<state, bootSlot, running, proven, staged, offer, card, commit,
                   accepted>>

(* ota_begin erases the idle slot; esp_ota_begin does not on probation.    *)
BeginUpload(i) ==
    /\ upload = "none" /\ staged = "none" /\ state[running] # "pending"
    /\ slot' = [slot EXCEPT ![Idle] = "torn"]
    /\ upload' = i
    /\ UNCHANGED <<state, bootSlot, running, proven, staged, offer, card, commit,
                   accepted>>

(* Refused for the image that waits: its card is raised again.             *)
UploadRefused ==
    /\ upload = "none" /\ staged # "none"
    /\ offer' = TRUE
    /\ UNCHANGED <<slotVars, upload, staged, card, commit, accepted>>

(* The browser went, or stalled for too long: ota_abort.                   *)
UploadBreaks ==
    /\ upload # "none" /\ upload' = "none"
    /\ UNCHANGED <<slotVars, staged, offer, card, commit, accepted>>

(* ota_end, and the event, which a full queue drops.  An upload takes      *)
(* longer than what is left of an Install that has begun: the check of the *)
(* image and 500 ms.                                                       *)
UploadEnds ==
    /\ commit = "none" /\ upload \in Signed
    /\ slot' = [slot EXCEPT ![Idle] = upload]
    /\ staged' = upload /\ upload' = "none" /\ offer' \in {offer, TRUE}
    /\ UNCHANGED <<state, bootSlot, running, proven, card, commit, accepted>>

-------------------------------------------------------------------------------
(* The UI task, which is away while it installs.                           *)

(* build_ota_confirm reads the version when the card is built.             *)
ShowOffer ==
    /\ offer /\ commit = "none" /\ offer' = FALSE
    /\ card' = IF staged = "none" THEN card ELSE staged
    /\ UNCHANGED <<slotVars, upload, staged, commit, accepted>>

(* Any redraw of the screen takes the card with it.                        *)
CardGoes ==
    /\ card # "none" /\ commit = "none" /\ card' = "none"
    /\ UNCHANGED <<slotVars, upload, staged, offer, commit, accepted>>

Discard ==
    /\ card # "none" /\ commit = "none"
    /\ card' = "none" /\ staged' = "none"
    /\ UNCHANGED <<slotVars, upload, offer, commit, accepted>>

(* ota_commit lowers the flag first.                                       *)
Install ==
    /\ card # "none" /\ commit = "none"
    /\ card' = "none" /\ staged' = "none"
    /\ accepted' = accepted \cup {card}
    /\ commit' = IF staged = "none" THEN "none" ELSE "switch"
    /\ UNCHANGED <<slotVars, upload, offer>>

(* esp_ota_set_boot_partition looks at the image once more, and refuses a  *)
(* slot erased meanwhile.                                                  *)
Switch ==
    /\ commit = "switch"
    /\ \/ /\ slot[Idle] # "torn"
          /\ bootSlot' = Idle /\ state' = [state EXCEPT ![Idle] = "new"]
          /\ commit' = "restart"
       \/ /\ slot[Idle] = "torn"
          /\ commit' = "none" /\ UNCHANGED <<bootSlot, state>>
    /\ UNCHANGED <<slot, running, proven, upload, staged, offer, card, accepted>>
===============================================================================
