----------------------------- MODULE MCCheckout -----------------------------
(* Checkout on a small instance: a word of 52 holds ten units of a coin and *)
(* not eleven.                                                              *)
EXTENDS Checkout

(* A cap below the tip of the other pair: a read across the two writes is   *)
(* of no pair the page may store.                                           *)
TwoFeePairs == {<<2, 1>>, <<5, 5>>}

FundsAtTheEdge == {4, 30, 51}

(* One family in order, the other not.                                      *)
TronRejected == {[evm |-> "set", tron |-> "rejected"]}
BothSet      == {[evm |-> "set", tron |-> "set"]}
OneNotSet    == TronRejected \cup {[evm |-> "unset", tron |-> "set"]}

MCDigits == {1}
=============================================================================
