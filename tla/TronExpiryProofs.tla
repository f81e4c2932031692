-------------------------- MODULE TronExpiryProofs --------------------------
(***************************************************************************)
(* TronExpiry's verdict, for every skew, round trip, node lag and margin.  *)
(***************************************************************************)
EXTENDS TronExpiry, TLAPS

(* What a transaction in a block, the poll's own round trip and the answer *)
(* in hand have to do with each other.  An "absent" answer may be stale by *)
(* the time it is read, but the question is at most NodeLag younger than   *)
(* the block it misses.                                                    *)
MinedInTime == minedAt # Never => minedAt <= expiration

RoundTrip == step \in {"asked", "answered"} =>
                 askedAt <= now /\ now <= askedAt + MaxAnswer

AbsentIsRecent == (step = "answered" /\ answer = "absent" /\ minedAt # Never)
                      => askedAt <= minedAt + NodeLag

NotSentIsPast == verdict = "unsent" => minedAt = Never /\ now > expiration

ExpiryInv == /\ TypeOK
             /\ MinedInTime
             /\ RoundTrip
             /\ AbsentIsRecent
             /\ NotSentIsPast

(* The till starts well typed: raw_data.expiration is an integer even when *)
(* the clock's error makes its range one of negative numbers.              *)
LEMMA TypeAtStart == Init => TypeOK
<1> USE TimingAssumption DEF TimingAssumption
<1> SUFFICES ASSUME Init PROVE TypeOK
  OBVIOUS
<1>1. skew \in Int /\ skew \in -MaxSkew .. MaxSkew
  BY DEF Init
<1>2. expiration \in Int
  BY <1>1 DEF Init
<1>3. now \in 0 .. MaxTime /\ askedAt \in 0 .. MaxTime /\ wakeAt \in Nat
  BY DEF Init
<1>4. minedAt \in {Never} \cup (0 .. MaxTime)
  BY DEF Init
<1>5. /\ step \in {"ask", "asked", "answered", "sleep", "done"}
      /\ answer \in {"found", "absent", "error"}
      /\ verdict \in {"none", "approved", "unsent", "unconfirmed"}
      /\ errors \in BOOLEAN
  BY DEF Init
<1> QED
  BY <1>1, <1>2, <1>3, <1>4, <1>5 DEF TypeOK

(* Every variable of TronExpiry keeps its type. *)
THEOREM TypeCorrect == Spec => []TypeOK
<1> USE TimingAssumption DEF TimingAssumption
<1>1. Init => TypeOK
  BY TypeAtStart
<1>2. TypeOK /\ [Next]_vars => TypeOK'
  <2> SUFFICES ASSUME TypeOK, [Next]_vars PROVE TypeOK'
    OBVIOUS
  <2>1. CASE Tick
    BY <2>1 DEF TypeOK, Tick, Never
  <2>2. CASE Include
    BY <2>2 DEF TypeOK, Include, Never
  <2>3. CASE Ask
    BY <2>3 DEF TypeOK, Ask, Never
  <2>4. CASE Use
    BY <2>4 DEF TypeOK, Use, Conclude, Sleep, Never
  <2>5. CASE Wake
    BY <2>5 DEF TypeOK, Wake, Never
  <2>6. CASE \E a \in {"found", "absent", "error"} : NodeLooks(a)
    BY <2>6 DEF TypeOK, NodeLooks, Never
  <2>7. CASE UNCHANGED vars
    BY <2>7 DEF TypeOK, vars
  <2> QED
    BY <2>1, <2>2, <2>3, <2>4, <2>5, <2>6, <2>7 DEF Next
<1> QED
  BY <1>1, <1>2, PTL DEF Spec

(* ExpiryInv is inductive when the margin covers the skew, the round trip  *)
(* and the node's lag together.                                            *)
LEMMA ExpiryStep ==
    ASSUME MarginCovers, ExpiryInv, TypeOK', [Next]_vars
    PROVE  ExpiryInv'
<1> USE TimingAssumption DEF TimingAssumption, ExpiryInv, TypeOK, MinedInTime, RoundTrip,
                             AbsentIsRecent, NotSentIsPast, Never
<1>1. CASE Tick
  BY <1>1 DEF Tick
<1>2. CASE Include
  BY <1>2 DEF Include
<1>3. CASE Ask
  BY <1>3 DEF Ask
<1>4. CASE Use
  <2>1. MinedInTime' /\ RoundTrip' /\ AbsentIsRecent'
    BY <1>4 DEF Use, Conclude, Sleep
  <2>2. CASE answer # "found" /\ Expired
    <3>1. TillClock > expiration + Margin /\ answer = "absent"
      BY <2>2 DEF Expired
    <3>2. now <= askedAt + MaxAnswer
      BY <1>4 DEF Use
    <3>3. now > expiration + MaxAnswer + NodeLag
      BY <3>1 DEF TillClock, MarginCovers
    <3>4. minedAt = Never
      BY <1>4, <3>1, <3>2, <3>3 DEF Use
    <3> QED
      BY <1>4, <2>1, <3>3, <3>4 DEF Use
  <2>3. CASE ~(answer # "found" /\ Expired)
    <3>1. verdict' = "unsent" => verdict = "unsent"
      BY <1>4, <2>3 DEF Use, Conclude, Sleep
    <3> QED
      BY <1>4, <2>1, <3>1 DEF Use
  <2> QED
    BY <2>2, <2>3
<1>5. CASE Wake
  BY <1>5 DEF Wake
<1>6. CASE \E a \in {"found", "absent", "error"} : NodeLooks(a)
  BY <1>6 DEF NodeLooks
<1>7. CASE UNCHANGED vars
  BY <1>7 DEF vars
<1> QED
  BY <1>1, <1>2, <1>3, <1>4, <1>5, <1>6, <1>7 DEF Next

(* "Not sent - nothing was charged" is never said of a transaction that a  *)
(* block takes, before or after, provided the margin covers everything     *)
(* between the block and the till's clock.                                 *)
THEOREM NotSentSound ==
    ASSUME MarginCovers PROVE Spec => []NotSentNeverPaid
<1>1. Init => ExpiryInv
  <2>1. Init => TypeOK
    BY TypeAtStart
  <2> QED
    BY <2>1 DEF Init, ExpiryInv, MinedInTime, RoundTrip, AbsentIsRecent,
                NotSentIsPast
<1>2. ExpiryInv /\ TypeOK' /\ [Next]_vars => ExpiryInv'
  BY ExpiryStep
<1>3. ExpiryInv => NotSentNeverPaid
  BY DEF ExpiryInv, NotSentIsPast, NotSentNeverPaid
<1> QED
  BY <1>1, <1>2, <1>3, TypeCorrect, PTL DEF Spec

(* What keeps a sale Unconfirmed at the end of an error-free poll. *)
THEOREM PollLongEnough == Spec => []SettledInOnePoll
<1> USE TimingAssumption DEF TimingAssumption
<1>1. Init => SettledInOnePoll
  BY DEF Init, SettledInOnePoll
<1>2. TypeOK /\ SettledInOnePoll /\ [Next]_vars => SettledInOnePoll'
  <2> SUFFICES ASSUME TypeOK, SettledInOnePoll, [Next]_vars
               PROVE SettledInOnePoll'
    OBVIOUS
  <2> USE DEF SettledInOnePoll
  <2>1. CASE Tick \/ Include \/ Ask \/ Wake \/ UNCHANGED vars
    BY <2>1 DEF Tick, Include, Ask, Wake, vars
  <2>2. CASE \E a \in {"found", "absent", "error"} : NodeLooks(a)
    BY <2>2 DEF NodeLooks
  <2>3. CASE Use
    <3> SUFFICES ASSUME verdict' = "unconfirmed", ~errors'
                 PROVE expiration + Margin + MaxSkew >= Deadline
      BY <2>3 DEF Use
    <3>1. answer = "absent" \/ verdict = "unconfirmed"
      BY <2>3 DEF Use, Conclude, Sleep, TypeOK
    <3>2. CASE verdict = "unconfirmed"
      BY <2>3, <3>2 DEF Use
    <3>3. CASE answer = "absent" /\ verdict # "unconfirmed"
      <4>1. now >= Deadline /\ ~(now + skew > expiration + Margin)
        BY <2>3, <3>3 DEF Use, Conclude, Sleep, Expired, TillClock
      <4> QED
        BY <4>1 DEF TypeOK
    <3> QED
      BY <3>1, <3>2, <3>3
  <2> QED
    BY <2>1, <2>2, <2>3 DEF Next
<1> QED
  BY <1>1, <1>2, TypeCorrect, PTL DEF Spec
=============================================================================
