-------------------------------- MODULE Lock --------------------------------
(***************************************************************************)
(* What a terminal promises about its admin code, with no screens, flash   *)
(* or reset in it.  The comments it is read from are ui.cpp:291-295 (the   *)
(* wait is derived from the count, "so a power cycle cannot cut the cost   *)
(* of a guess to one reboot") and settings.h:188-192.                      *)
(*                                                                         *)
(*   - a code is compared once the wait has been served that the count     *)
(*     costs, and every wait is served from its beginning;                 *)
(*   - a wrong one is counted, unless a mishap explains why not, and the   *)
(*     count goes down with the right code or with the code itself only;   *)
(*   - the menu opens to the right code, and to nothing else.              *)
(***************************************************************************)
EXTENDS Naturals

CONSTANTS Penalty(_), FailsMax

VARIABLES code,      \* 0: there is none
          fails,     \* wrong ones in a row, up to the ceiling
          served,    \* of the wait, since the last visit or try
          compared,  \* a wrong one, not yet counted
          open,      \* the menu
          mishaps    \* power cuts, and writes the flash refused

Init == /\ code = 0 /\ fails = 0 /\ served = 0 /\ mishaps = 0
        /\ compared = FALSE /\ open = FALSE

(* A new one, where nobody can have been wrong about an old one.           *)
Create == /\ fails = 0 /\ ~compared
          /\ code' # 0 /\ UNCHANGED <<fails, served, compared, open, mishaps>>

Visit == /\ served' = 0 /\ open' = FALSE
         /\ UNCHANGED <<code, fails, compared, mishaps>>

Leave == /\ open' = FALSE
         /\ UNCHANGED <<code, fails, served, compared, mishaps>>

Wait == /\ served' = served + 1
        /\ UNCHANGED <<code, fails, compared, open, mishaps>>

MayTry == code # 0 /\ ~compared /\ served >= Penalty(fails)

Right == /\ MayTry /\ open' = TRUE /\ served' = 0
         /\ \/ fails' = 0 /\ UNCHANGED mishaps
            \/ fails' = fails /\ mishaps' > mishaps
         /\ UNCHANGED <<code, compared>>

Wrong == /\ MayTry /\ compared' = TRUE /\ served' = 0
         /\ UNCHANGED <<code, fails, open, mishaps>>

Count == /\ compared /\ compared' = FALSE
         /\ \/ /\ fails' = IF fails = FailsMax THEN fails ELSE fails + 1
               /\ UNCHANGED mishaps
            \/ fails' = fails /\ mishaps' > mishaps
         /\ UNCHANGED <<code, served, open>>

Erased == code' = 0 /\ fails' = 0

Erase == Erased /\ mishaps' >= mishaps /\ UNCHANGED <<served, compared, open>>

(* A reset loses a try that was not counted yet only if nobody asked for   *)
(* it.  In the middle of an erase it takes the code along.                 *)
Reset == /\ served' = 0 /\ compared' = FALSE /\ open' = FALSE
         /\ mishaps' >= mishaps /\ (compared => mishaps' > mishaps)
         /\ Erased \/ UNCHANGED <<code, fails>>

Mishap == /\ mishaps' > mishaps
          /\ UNCHANGED <<code, fails, served, compared, open>>

Next == \/ Create \/ Visit \/ Leave \/ Wait \/ Right \/ Wrong \/ Count
        \/ Erase \/ Reset \/ Mishap

Spec == Init /\ [][Next]_<<code, fails, served, compared, open, mishaps>>
=============================================================================
