---------------------------- MODULE MCSettlement ----------------------------
(* Settlement on small instances: the runs' cards and asset families. *)
EXTENDS Settlement

CONSTANTS c1, c2

OneCard  == {c1}
TwoCards == {c1, c2}

EvmOnly  == {FALSE}
TronOnly == {TRUE}
BothFamilies == {TRUE, FALSE}

NoUpsets    == {}
EveryUpset  == UpsetKinds
=============================================================================
