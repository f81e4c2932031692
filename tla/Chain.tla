-------------------------------- MODULE Chain --------------------------------
(***************************************************************************)
(* What the terminal hands its transactions to, and cannot see into: the   *)
(* network between the till and its RPC node, the node's pool and the      *)
(* chain.  External to the repository: it is modelled from the answers     *)
(* eth_rpc.cpp and tron_rpc.cpp are written to expect and from the claims  *)
(* their callers make about the chain (pay.cpp, pay_tron.cpp, main.cpp).   *)
(*                                                                         *)
(* One sale of the till is at most one transaction: an EVM hash is fixed   *)
(* by the signed bytes and a Tron txID by raw_data, so a transaction is    *)
(* named by its sale.  Every EVM asset is taken to be on one network.      *)
(***************************************************************************)
EXTENDS Integers, FiniteSets

CONSTANTS MaxSales,   \* bound: sales the till takes up in one behaviour
          Cards       \* the payers' cards, one account per family each

ASSUME ChainAssumption == /\ MaxSales \in Nat \ {0}
                          /\ Cards # {}

Sales == 1 .. MaxSales

(***************************************************************************)
(* tx[s]    "none"      no signature exists                                *)
(*          "signed"    signed by the card, still inside the till          *)
(*          "wire"      sent; the node may or may not take it              *)
(*          "pool"      the node holds it, it can be included any time     *)
(*          "mined"     included, the customer has paid                    *)
(*          "reverted"  included, nothing moved                            *)
(*          "dead"      can never be included any more                     *)
(* tron[s]  TRUE when the sale is on Tron, FALSE on an EVM network         *)
(* card[s]  the account that pays, meaningful once signed                  *)
(* nonce[s] the EVM nonce signed into it, meaningless on Tron              *)
(***************************************************************************)
VARIABLES tx, tron, card, nonce

chainVars == <<tx, tron, card, nonce>>

TxStates == {"none", "signed", "wire", "pool", "mined", "reverted", "dead"}

(* Transactions whose fate the chain has not decided. *)
Loose(s) == tx[s] \in {"wire", "pool"}

ChainTypeOK == /\ tx    \in [Sales -> TxStates]
               /\ tron  \in [Sales -> BOOLEAN]
               /\ card  \in [Sales -> Cards]
               /\ nonce \in [Sales -> Nat]

ChainInit == /\ tx    = [s \in Sales |-> "none"]
             /\ tron  = [s \in Sales |-> FALSE]
             /\ card  \in [Sales -> {CHOOSE c \in Cards : TRUE}]
             /\ nonce = [s \in Sales |-> 0]

(* eth_getTransactionCount(account, "latest"): transactions of the account *)
(* that are in a block.  One that is only pending does not count.          *)
LatestCount(c) ==
    Cardinality({s \in Sales : /\ ~tron[s]
                               /\ card[s] = c
                               /\ tx[s] \in {"mined", "reverted"}})

(* An EVM transaction fits in the next block only with the account's next  *)
(* nonce; a Tron one has no nonce at all.                                  *)
Includable(s) == tron[s] \/ nonce[s] = LatestCount(card[s])

Move(s, from, to) == /\ tx[s] = from
                     /\ tx' = [tx EXCEPT ![s] = to]
                     /\ UNCHANGED <<tron, card, nonce>>

NodeTakes(s) == Move(s, "wire", "pool")

(* The request, or every attempt at it, is lost on the way. *)
Lost(s) == Move(s, "wire", "dead")

Mine(s) == Includable(s) /\ Move(s, "pool", "mined")

Revert(s) == Includable(s) /\ Move(s, "pool", "reverted")

(* A Tron transaction dies at raw_data.expiration; an EVM one when another *)
(* transaction of the account has used its nonce.                          *)
Die(s) == (tron[s] \/ ~Includable(s)) /\ Move(s, "pool", "dead")

ChainStep == \E s \in Sales : \/ NodeTakes(s) \/ Lost(s)
                              \/ Mine(s) \/ Revert(s) \/ Die(s)
=============================================================================
