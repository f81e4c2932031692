-------------------------------- MODULE MCWifi --------------------------------
(* Five networks: two that lead to the time, one without it (a captive      *)
(* portal), one that never gives an address, one that turns the terminal    *)
(* away.                                                                    *)
EXTENDS Wifi

CONSTANTS home, other, cafe, hung, wrong

MCTimed  == {home, other}
MCLeases == MCTimed \cup {cafe}
MCJoins  == MCLeases \cup {hung}
MCNets   == MCJoins \cup {wrong}
===============================================================================
