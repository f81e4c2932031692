------------------------------ MODULE Payment ------------------------------
(***************************************************************************)
(* What a till promises about payments, with no card, queue, screen or     *)
(* flash in it.  The comments the promise is read from are settle_inflight *)
(* ("only three answers end a sale") and app_main's TX_RETRY case.         *)
(*                                                                         *)
(*   - a verdict is the truth: Approved of a paid sale, Declined of one    *)
(*     that is void, and void and paid are final;                          *)
(*   - one sale at a time: nothing new leaves the till while the fate of   *)
(*     an earlier sale is open, unless the operator cleared that sale.     *)
(***************************************************************************)
CONSTANT Sales

VARIABLES fate,   \* fate[s]: "open", "out", "paid" or "void"
          word    \* word[s]: what the panel has said of s

Init == /\ fate = [s \in Sales |-> "open"]
        /\ word = [s \in Sales |-> {}]

Become(s, from, to) == /\ fate[s] = from
                       /\ fate' = [fate EXCEPT ![s] = to]
                       /\ UNCHANGED word

(* The transaction leaves the till. *)
Release(s) == /\ word[s] = {}
              /\ \A t \in Sales : fate[t] = "out" => word[t] # {}
              /\ Become(s, "open", "out")

Land(s) == Become(s, "out", "paid")
Void(s) == Become(s, "out", "void")

Say(s, v) == word' = [word EXCEPT ![s] = @ \cup {v}]

Approve(s) == fate[s] = "paid" /\ Say(s, "approved") /\ UNCHANGED fate

(* Declining a sale that has not left voids it. *)
Decline(s) == /\ fate[s] \in {"open", "void"}
              /\ fate' = [fate EXCEPT ![s] = "void"]
              /\ Say(s, "declined")

(* The operator has looked for themselves; a cleared sale never leaves. *)
Clear(s) == Say(s, "cleared") /\ UNCHANGED fate

Next == \E s \in Sales : \/ Release(s) \/ Land(s) \/ Void(s)
                         \/ Approve(s) \/ Decline(s) \/ Clear(s)

Spec == Init /\ [][Next]_<<fate, word>>
=============================================================================
