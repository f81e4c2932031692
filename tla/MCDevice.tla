------------------------------- MODULE MCDevice -------------------------------
(* Device with the image it was made with, a good update, a broken one and   *)
(* one that nobody signed.                                                   *)
EXTENDS Device, TLC

CONSTANTS made, good, broken, forged

(* The good one was built before, the broken one after.                      *)
MCBuild == made :> 2 @@ good :> 1 @@ broken :> 3 @@ forged :> 4
===============================================================================
