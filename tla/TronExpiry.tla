----------------------------- MODULE TronExpiry -----------------------------
(***************************************************************************)
(* The clock behind "Not sent - nothing was charged".  settle_inflight     *)
(* declares a Tron sale void when a receipt poll says "not found" and the  *)
(* till's clock is more than ten seconds past raw_data.expiration.  This   *)
(* module has the two clocks, the age of the node's answer when it is      *)
(* used, and the node's own delay in seeing a block; Settlement has the    *)
(* same step as PollExpired, or as PollExpiredEarly when it is wrong.      *)
(*                                                                         *)
(* Time is the chain's, in whole units; the till reads now + skew.         *)
(***************************************************************************)
EXTENDS Integers

CONSTANTS MaxSkew,    \* the till's clock may be off by this much
                      \* (CLOCK_SKEW_MAX_S, checked on every answer)
          MaxAnswer,  \* from the question to the clock read, the node's look
                      \* at its state anywhere between (https_post.cpp)
          NodeLag,    \* from a block to every node answering with it
          Margin,     \* what the code waits past the expiration (10 s)
          MinLead,    \* earliest expiration a node sets; the code has none
          MaxLead,    \* latest expiration taken (TRON_TX_MAX_EXPIRY_MS)
          PollGap,    \* pause between polls
          Deadline,   \* how long one poll goes on (120 s)
          MaxTime     \* bound: the clock stops here

ASSUME TimingAssumption ==
    /\ MaxSkew \in Nat /\ MaxAnswer \in Nat /\ NodeLag \in Nat
    /\ Margin \in Nat /\ MinLead \in Nat /\ MaxLead \in Nat
    /\ PollGap \in Nat /\ Deadline \in Nat /\ MaxTime \in Nat

Never == -1

VARIABLES now,         \* the chain's time
          skew,        \* the till's clock minus the chain's
          expiration,  \* raw_data.expiration, as signed
          minedAt,     \* when a block took the transaction, or Never
          step,        \* "ask", "asked", "answered", "sleep" or "done"
          askedAt,     \* when the poll's question was put
          answer,      \* the answer to it: "found", "absent" or "error"
          wakeAt,      \* end of the pause
          errors,      \* history: some poll ended in an RPC error
          verdict      \* "none", "approved", "unsent" or "unconfirmed"

vars == <<now, skew, expiration, minedAt, step, askedAt, answer, wakeAt,
          errors, verdict>>

TypeOK == /\ now \in 0 .. MaxTime
          /\ skew \in -MaxSkew .. MaxSkew
          /\ expiration \in Int
          /\ minedAt \in {Never} \cup (0 .. MaxTime)
          /\ step \in {"ask", "asked", "answered", "sleep", "done"}
          /\ answer \in {"found", "absent", "error"}
          /\ askedAt \in 0 .. MaxTime
          /\ wakeAt \in Nat
          /\ errors \in BOOLEAN
          /\ verdict \in {"none", "approved", "unsent", "unconfirmed"}

TillClock == now + skew

(* The node sets the expiration; raw_ok bounds it from above only, by the  *)
(* till's clock.  Time zero is the broadcast.                              *)
Init == /\ now = 0
        /\ skew \in -MaxSkew .. MaxSkew
        /\ expiration \in MinLead .. (MaxLead + skew)
        /\ minedAt = Never
        /\ step = "ask" /\ askedAt = 0 /\ answer = "error" /\ wakeAt = 0
        /\ errors = FALSE /\ verdict = "none"

(* No round trip takes longer than MaxAnswer, and a pause does not overrun. *)
Tick == /\ now < MaxTime
        /\ step # "ask"
        /\ step \in {"asked", "answered"} => now < askedAt + MaxAnswer
        /\ step = "sleep" => now < wakeAt
        /\ now' = now + 1
        /\ UNCHANGED <<skew, expiration, minedAt, step, askedAt, answer,
                       wakeAt, errors, verdict>>

(* The chain refuses a transaction past its expiration. *)
Include == /\ minedAt = Never
           /\ now <= expiration
           /\ minedAt' = now
           /\ UNCHANGED <<now, skew, expiration, step, askedAt, answer,
                          wakeAt, errors, verdict>>

Ask == /\ step = "ask"
       /\ step' = "asked"
       /\ askedAt' = now
       /\ UNCHANGED <<now, skew, expiration, minedAt, answer, wakeAt, errors,
                      verdict>>

(* The node looks: a block it has not been given yet is not there for it.  *)
NodeLooks(a) ==
    /\ step = "asked"
    /\ a = "found"  => minedAt # Never
    /\ a = "absent" => minedAt = Never \/ now < minedAt + NodeLag
    /\ answer' = a
    /\ step' = "answered"
    /\ UNCHANGED <<now, skew, expiration, minedAt, askedAt, wakeAt, errors,
                   verdict>>

Conclude(v) == /\ verdict' = v
               /\ step' = "done"
               /\ UNCHANGED wakeAt

Sleep == /\ wakeAt' = now + PollGap
         /\ step' = "sleep"
         /\ UNCHANGED verdict

(* What a till that took silence for "not found" would do. *)
ExpiredOnAnyAnswer == answer # "found" /\ TillClock > expiration + Margin

(* What a till that tested the expiration only up to the deadline would do. *)
ExpiredBeforeDeadline ==
    answer = "absent" /\ TillClock > expiration + Margin /\ now < Deadline

Expired == answer = "absent" /\ TillClock > expiration + Margin

(* The body of the poll loop after the answer: the clock is read here, not *)
(* when the question was put.                                              *)
Use == /\ step = "answered"
       /\ errors' = (errors \/ answer = "error")
       /\ IF answer = "found"      THEN Conclude("approved")
          ELSE IF Expired          THEN Conclude("unsent")
          ELSE IF now >= Deadline  THEN Conclude("unconfirmed")
          ELSE Sleep
       /\ UNCHANGED <<now, skew, expiration, minedAt, askedAt, answer>>

Wake == /\ step = "sleep"
        /\ now >= wakeAt
        /\ step' = "ask"
        /\ UNCHANGED <<now, skew, expiration, minedAt, askedAt, answer,
                       wakeAt, errors, verdict>>

Next == \/ Tick \/ Include \/ Ask \/ Use \/ Wake
        \/ \E a \in {"found", "absent", "error"} : NodeLooks(a)

Spec == Init /\ [][Next]_vars

-----------------------------------------------------------------------------
(* The margin the code allows covers everything between the block and the  *)
(* till's reading of its own clock.                                        *)
MarginCovers == Margin >= MaxSkew + MaxAnswer + NodeLag

(* "Not sent - nothing was charged" is true and stays true: no block takes *)
(* the transaction after the panel has said so either (settle_inflight).   *)
NotSentNeverPaid == verdict = "unsent" => minedAt = Never

(* The 120 s are long enough: with no RPC error in the way, a sale is left *)
(* Unconfirmed only when its expiration falls too late for this poll       *)
(* (pay_tron.cpp: the poll "waits past raw_data's expiration").            *)
SettledInOnePoll ==
    verdict = "unconfirmed" /\ ~errors =>
        expiration + Margin + MaxSkew >= Deadline
=============================================================================
