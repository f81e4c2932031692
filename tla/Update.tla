------------------------------- MODULE Update -------------------------------
(***************************************************************************)
(* What a terminal promises about its firmware, with no slots, otadata,    *)
(* browser or queue in it.  The comments it is read from are ota.h:37-41   *)
(* (nothing reboots until the received version is accepted on the panel)   *)
(* and ota.h:60-64 (on probation until it has come up).                    *)
(*                                                                         *)
(*   - an image runs because it has come up before, or because somebody    *)
(*     tapped Install under its version, and then it has the next boot     *)
(*     and no other to come up in;                                         *)
(*   - Install is tapped on a terminal whose own image has come up.        *)
(***************************************************************************)
CONSTANTS Images, Factory

VARIABLES image,    \* the one that runs, "none": the terminal is off
          card,     \* the version the panel asks about, or "none"
          due,      \* installed, and not booted yet
          proven    \* those that have come up

Init == image = "none" /\ card = "none" /\ due = "none" /\ proven = {Factory}

(* Any staged image may be asked about, and the question may go away.      *)
Ask(i) == /\ image \in proven /\ due = "none"
          /\ card' = i /\ UNCHANGED <<image, due, proven>>

Unask == card' = "none" /\ UNCHANGED <<image, due, proven>>

(* The image may be gone by the time of the tap, or go after it.           *)
Install == /\ image \in proven /\ card # "none"
           /\ due' \in {card, "none"} /\ card' = "none"
           /\ UNCHANGED <<image, proven>>

Spoil == due' = "none" /\ UNCHANGED <<image, card, proven>>

(* A reset; an Install that had not got to the flash is gone with it.      *)
Off == /\ image # "none" /\ image' = "none" /\ card' = "none"
       /\ due' \in {due, "none"} /\ UNCHANGED proven

Boot(i) == /\ image = "none" /\ i \in proven \cup {due}
           /\ image' = i /\ due' = "none"
           /\ UNCHANGED <<card, proven>>

ComeUp == /\ image # "none" /\ proven' = proven \cup {image}
          /\ UNCHANGED <<image, card, due>>

Next == \/ \E i \in Images : Ask(i) \/ Boot(i)
        \/ Unask \/ Install \/ Spoil \/ Off \/ ComeUp

Spec == Init /\ [][Next]_<<image, card, due, proven>>
=============================================================================
