----------------------------- MODULE PortalProofs -----------------------------
(***************************************************************************)
(* What the configuration page promises (its teardown, its pairing, what   *)
(* it stores), for any number of browsers, addresses, queue slots,         *)
(* sessions, proposals, card reads and trials.                             *)
(***************************************************************************)
EXTENDS Portal, TLAPS

-------------------------------------------------------------------------------
(* Types, one lemma per group of variables.                                *)

LEMMA TypeAtStart == Init => TypeOK
<1> SUFFICES ASSUME Init PROVE TypeOK
  OBVIOUS
<1> USE DEF Init
<1>1. PageTypeOK
  BY DEF PageTypeOK
<1>2. QueueTypeOK
  BY Bounds DEF QueueTypeOK, Bounds
<1>3. PanelTypeOK
  BY DEF PanelTypeOK, Screens
<1>4. ValueTypeOK
  BY Addresses DEF ValueTypeOK, ByFamily, Families, Addresses, Addrs
<1>5. CounterTypeOK
  BY DEF CounterTypeOK
<1> QED
  BY <1>1, <1>2, <1>3, <1>4, <1>5 DEF TypeOK

(* xQueueSend keeps a queue within its depth, whatever it is given.        *)
LEMMA PostType ==
    ASSUME NEW q \in Seq(Events), Len(q) <= QueueLen, NEW e \in Events
    PROVE  Post(q, e) \in Seq(Events) /\ Len(Post(q, e)) <= QueueLen
BY Bounds DEF Bounds, Post

(* xQueueReceive shortens one.                                             *)
LEMMA TakeType ==
    ASSUME QueueTypeOK, NEW e, Take(e)
    PROVE  Tail(queue) \in Seq(Events) /\ Len(Tail(queue)) <= QueueLen
BY Bounds DEF Bounds, Take, QueueTypeOK

LEMMA PageTypeStep == ASSUME PageTypeOK, [Next]_vars PROVE PageTypeOK'
<1> USE DEF PageTypeOK, StopPhases, pageVars, authVars, httpVars, mainVars
<1>1. CASE UiPass \/ Swipe
  BY <1>1 DEF UiPass, Render, ShowValue, DeadlineStop, Swipe
<1>2. CASE Tap
  <2> USE DEF TapUnchanged
  <2>1. CASE EnterCode \/ CancelCode
    <3>1. UNCHANGED <<pageVars, http, mpc, after>>
      BY <2>1 DEF EnterCode, CancelCode
    <3>2. authed' \in BOOLEAN /\ pendingAuth' \in BOOLEAN
      BY <2>1 DEF EnterCode, CancelCode, Resolve
    <3>3. token' \in Browsers \cup {NoBrowser}
      BY <2>1 DEF EnterCode, CancelCode, Resolve
    <3> QED
      BY <3>1, <3>2, <3>3
  <2>2. CASE Configure
    <3>1. UNCHANGED <<http, mpc, after>>
      BY <2>2 DEF Configure
    <3>2. /\ token' \in Browsers \cup {NoBrowser}
          /\ pendingAuth' \in BOOLEAN /\ authed' \in BOOLEAN
      BY <2>2 DEF Configure, StartFromOff, StartAgain
    <3>3. mode' \in {"off", "admin"} /\ window' \in {"none", "open", "past"}
      BY <2>2 DEF Configure, StartFromOff, ApRefused, ServerRefused, Served,
                  StartAgain
    <3>4. httpd' \in BOOLEAN /\ running' \in BOOLEAN
      BY <2>2 DEF Configure, StartFromOff, ApRefused, ServerRefused, Served,
                  StartAgain
    <3>5. ap' \in BOOLEAN /\ sta' \in BOOLEAN
      BY <2>2 DEF Configure, StartFromOff, ApRefused, ServerRefused, Served,
                  StartAgain
    <3> QED
      BY <3>1, <3>2, <3>3, <3>4, <3>5
  <2>3. CASE Done \/ CloseFailed \/ \E accept \in BOOLEAN : Answer(accept)
    BY <2>3 DEF Done, CloseFailed, Answer
  <2>4. CASE SubmitPin \/ CancelPin \/ NewSale \/ BackToAmount
    BY <2>4 DEF SubmitPin, CancelPin, NewSale, BackToAmount
  <2> QED
    BY <1>2, <2>1, <2>2, <2>3, <2>4 DEF Tap
<1>3. CASE HttpStep
  <2> USE DEF HttpUnchanged
  <2>1. ASSUME NEW b \in Browsers, AuthPost(b) PROVE PageTypeOK'
    BY <2>1 DEF AuthPost
  <2>2. ASSUME NEW b \in Browsers, NEW v \in Addrs, ValuePost(b, v)
        PROVE  PageTypeOK'
    BY <2>2 DEF ValuePost
  <2>3. ASSUME NEW b \in Browsers, CardPost(b) \/ WifiPost(b) \/ OtaPost(b)
        PROVE  PageTypeOK'
    BY <2>3 DEF CardPost, WifiPost, OtaPost
  <2>4. CASE BodyReceived \/ WifiReceived \/ BodyFails \/ UploadEnds
    BY <2>4 DEF BodyReceived, WifiReceived, BodyFails, UploadEnds
  <2> QED
    BY <1>3, <2>1, <2>2, <2>3, <2>4 DEF HttpStep, ApiCall
<1>4. CASE WindowPasses
  BY <1>4 DEF WindowPasses
<1>5. CASE MainStep
  <2> USE DEF PageAsWas, MainUnchanged, ClaimStop
  <2>1. CASE \/ HandleAuth \/ HandleValue \/ HandleCard \/ HandleCardPin
             \/ HandleNext
    BY <2>1 DEF HandleAuth, HandleValue, HandleCard, HandleCardPin, HandleNext
  <2>2. CASE HandleTry
    BY <2>2 DEF HandleTry
  <2>3. CASE HandleStop
    BY <2>3 DEF HandleStop
  <2>4. ASSUME NEW e \in Events, HandleAnswer(e) PROVE PageTypeOK'
    <3>1. /\ UNCHANGED <<httpd, running, ap, sta, window, authVars, http>>
          /\ mode' \in {mode, "off"}
          /\ mpc' \in {mpc, "dns", "restart"} /\ after' \in {after, "restart"}
      BY <2>4 DEF HandleAnswer
    <3> QED
      BY <3>1
  <2>5. ASSUME NEW e \in Events, HandleBack(e) PROVE PageTypeOK'
    BY <2>5 DEF HandleBack
  <2>6. CASE ReadFails \/ ReadDone \/ Offer \/ TryKept \/ TryDropped
    <3>1. CASE ReadFails \/ ReadDone \/ Offer
      BY <3>1 DEF ReadFails, ReadDone, Offer
    <3>2. CASE TryKept
      BY <3>2 DEF TryKept
    <3>3. CASE TryDropped
      <4>1. sta' \in BOOLEAN /\ mpc' = "idle"
        BY <3>3 DEF TryDropped
      <4>2. UNCHANGED <<mode, httpd, running, ap, window, token, pendingAuth,
                        authed, http, after>>
        BY <3>3 DEF TryDropped
      <4> QED
        BY <4>1, <4>2
    <3> QED
      BY <2>6, <3>1, <3>2, <3>3
  <2>7. CASE Stop
    <3> USE DEF StopUnchanged
    <3>1. CASE DnsGone
      BY <3>1 DEF DnsGone
    <3>2. CASE ServerStops
      <4>1. running' \in BOOLEAN /\ httpd' \in BOOLEAN /\ mpc' = "ap"
        BY <3>2 DEF ServerStops
      <4>2. UNCHANGED <<mode, ap, sta, window, token, pendingAuth, authed,
                        http, after>>
        BY <3>2 DEF ServerStops
      <4> QED
        BY <4>1, <4>2
    <3>3. CASE ApDown
      <4>1. ap' \in BOOLEAN /\ sta' \in BOOLEAN /\ mpc' = "clear"
        BY <3>3 DEF ApDown
      <4>2. UNCHANGED <<mode, httpd, running, window, token, pendingAuth,
                        authed, http, after>>
        BY <3>3 DEF ApDown
      <4> QED
        BY <4>1, <4>2
    <3>4. CASE ClearSession
      <4>1. mpc' \in {"restart", "idle"} /\ window' = "none"
        BY <3>4 DEF ClearSession
      <4>2. /\ authed' \in BOOLEAN /\ pendingAuth' \in BOOLEAN
            /\ token' = NoBrowser
            /\ UNCHANGED <<mode, httpd, running, ap, sta, http, after>>
        BY <3>4 DEF ClearSession
      <4> QED
        BY <4>1, <4>2
    <3> QED
      BY <2>7, <3>1, <3>2, <3>3, <3>4 DEF Stop
  <2>8. CASE Restart
    BY <2>8 DEF Restart, Fresh
  <2> QED
    BY <1>5, <2>1, <2>2, <2>3, <2>4, <2>5, <2>6, <2>7, <2>8 DEF MainStep
<1>6. CASE UNCHANGED vars
  BY <1>6 DEF vars
<1> QED
  BY <1>1, <1>2, <1>3, <1>4, <1>5, <1>6 DEF Next

LEMMA QueueTypeStep == ASSUME QueueTypeOK, [Next]_vars PROVE QueueTypeOK'
<1>0. \A e \in Events : /\ Post(queue, e) \in Seq(Events)
                        /\ Len(Post(queue, e)) <= QueueLen
  BY PostType DEF QueueTypeOK
<1> USE <1>0 DEF QueueTypeOK, Events
<1>1. CASE UiPass \/ Swipe
  BY <1>1 DEF UiPass, Render, ShowValue, DeadlineStop, Swipe
<1>2. CASE Tap
  BY <1>2 DEF Tap, EnterCode, CancelCode, Configure, Done, CloseFailed, Answer,
              CommitSlot, Resolve, SubmitPin, CancelPin, NewSale, BackToAmount
<1>3. CASE HttpStep \/ WindowPasses
  BY <1>3 DEF HttpStep, ApiCall, AuthPost, ValuePost, CardPost, WifiPost,
              OtaPost, BodyReceived, WifiReceived, BodyFails, UploadEnds,
              Propose, WindowPasses
<1>4. CASE MainStep
  <2>1. CASE HandleAuth \/ HandleValue \/ HandleCard \/ HandleCardPin
             \/ HandleTry \/ HandleStop \/ HandleNext
    BY <2>1, TakeType DEF HandleAuth, HandleValue, HandleCard, HandleCardPin,
                          HandleTry, HandleStop, HandleNext
  <2>2. ASSUME NEW e \in Events, HandleAnswer(e) \/ HandleBack(e)
        PROVE  QueueTypeOK'
    <3>1. Tail(queue) \in Seq(Events) /\ Len(Tail(queue)) <= QueueLen
      BY <2>2, TakeType DEF HandleAnswer, HandleBack
    <3>2. /\ Post(Tail(queue), "VALUE") \in Seq(Events)
          /\ Len(Post(Tail(queue), "VALUE")) <= QueueLen
      BY <3>1, PostType
    <3>3. queue' \in {Tail(queue), Post(Tail(queue), "VALUE")}
      BY <2>2 DEF HandleAnswer, HandleBack, Propose
    <3> QED
      BY <3>1, <3>2, <3>3
  <2>3. CASE ReadFails \/ ReadDone \/ Offer \/ TryKept \/ TryDropped
    BY <2>3 DEF ReadFails, ReadDone, Offer, Propose, TryKept, TryDropped
  <2>4. CASE Stop
    BY <2>4 DEF Stop, DnsGone, ServerStops, ApDown, ClearSession, StopUnchanged
  <2>5. CASE Restart
    BY <2>5, Bounds DEF Restart, Fresh, Bounds
  <2> QED
    BY <1>4, <2>1, <2>2, <2>3, <2>4, <2>5 DEF MainStep
<1>5. CASE UNCHANGED vars
  BY <1>5 DEF vars
<1> QED
  BY <1>1, <1>2, <1>3, <1>4, <1>5 DEF Next

LEMMA PanelTypeStep ==
    ASSUME PageTypeOK, PanelTypeOK, [Next]_vars PROVE PanelTypeOK'
<1> USE DEF PageTypeOK, PanelTypeOK, panelVars, Request, PanelAsWas, Screens
<1>1. CASE UiPass \/ Swipe
  BY <1>1 DEF UiPass, Render, ShowValue, ValueCard, DeadlineStop, Swipe
<1>2. CASE Tap
  <2>1. CASE EnterCode \/ CancelCode
    BY <2>1 DEF EnterCode, CancelCode
  <2>2. CASE Configure
    BY <2>2 DEF Configure, StartFromOff, ApRefused, ServerRefused, Served,
                StartAgain
  <2>3. CASE Done \/ CloseFailed \/ \E accept \in BOOLEAN : Answer(accept)
    BY <2>3 DEF Done, CloseFailed, Answer
  <2>4. CASE SubmitPin \/ CancelPin \/ NewSale \/ BackToAmount
    BY <2>4 DEF SubmitPin, CancelPin, NewSale, BackToAmount
  <2> QED
    BY <1>2, <2>1, <2>2, <2>3, <2>4 DEF Tap
<1>3. CASE HttpStep \/ WindowPasses
  BY <1>3 DEF HttpStep, ApiCall, AuthPost, ValuePost, CardPost, WifiPost,
              OtaPost, BodyReceived, WifiReceived, BodyFails, UploadEnds,
              HttpUnchanged, WindowPasses
<1>4. CASE MainStep
  <2>1. CASE HandleAuth \/ HandleValue \/ HandleCard \/ HandleCardPin
             \/ HandleTry \/ HandleStop \/ HandleNext
    BY <2>1 DEF HandleAuth, HandleValue, HandleCard, HandleCardPin, HandleTry,
                HandleStop, HandleNext
  <2>2. ASSUME NEW e \in Events, HandleAnswer(e) \/ HandleBack(e)
        PROVE  PanelTypeOK'
    BY <2>2 DEF HandleAnswer, HandleBack
  <2>3. CASE ReadFails \/ ReadDone \/ Offer \/ TryKept \/ TryDropped
    BY <2>3 DEF ReadFails, ReadDone, Offer, TryKept, TryDropped
  <2>4. CASE Stop
    BY <2>4 DEF Stop, DnsGone, ServerStops, ApDown, ClearSession
  <2>5. CASE Restart
    BY <2>5 DEF Restart, Fresh
  <2> QED
    BY <1>4, <2>1, <2>2, <2>3, <2>4, <2>5 DEF MainStep
<1>5. CASE UNCHANGED vars
  BY <1>5 DEF vars
<1> QED
  BY <1>1, <1>2, <1>3, <1>4, <1>5 DEF Next

(* An accepted address goes under the key of its own family.               *)
LEMMA StoreByFamily ==
    ASSUME NEW v \in Addrs, NEW s \in ByFamily
    PROVE  [s EXCEPT ![Family(v)] = v] \in ByFamily
<1>1. Family(v) \in Families
  BY DEF Family, Families
<1>2. Family(v) = "eth" => v \notin TronAddrs
  BY DEF Family
<1>3. Family(v) = "tron" => v \notin EthAddrs
  BY Addresses DEF Family, Addresses
<1> QED
  BY <1>1, <1>2, <1>3 DEF ByFamily, Families

LEMMA ValueTypeStep ==
    ASSUME PanelTypeOK, ValueTypeOK, [Next]_vars PROVE ValueTypeOK'
<1> USE DEF ValueTypeOK, httpVars, mainVars, flashVars, panelVars
<1>1. CASE UiPass \/ Swipe
  BY <1>1 DEF UiPass, Render, ShowValue, ValueCard, DeadlineStop, Swipe
<1>2. CASE Tap
  <2> USE DEF TapUnchanged
  <2>1. ASSUME NEW accept \in BOOLEAN, Answer(accept) PROVE ValueTypeOK'
    BY <2>1, StoreByFamily DEF Answer, CommitSlot
  <2>2. CASE EnterCode \/ CancelCode \/ Configure \/ Done \/ CloseFailed
    BY <2>2 DEF EnterCode, CancelCode, Configure, Done, CloseFailed
  <2>3. CASE SubmitPin \/ CancelPin \/ NewSale \/ BackToAmount
    BY <2>3 DEF SubmitPin, CancelPin, NewSale, BackToAmount, PanelAsWas
  <2> QED
    BY <1>2, <2>1, <2>2, <2>3 DEF Tap
<1>3. CASE HttpStep
  <2> USE DEF HttpUnchanged
  <2>1. ASSUME NEW b \in Browsers, NEW v \in Addrs, ValuePost(b, v)
        PROVE  ValueTypeOK'
    BY <2>1 DEF ValuePost
  <2>2. ASSUME NEW b \in Browsers,
               AuthPost(b) \/ CardPost(b) \/ WifiPost(b) \/ OtaPost(b)
        PROVE  ValueTypeOK'
    BY <2>2 DEF AuthPost, CardPost, WifiPost, OtaPost
  <2>3. CASE BodyReceived \/ WifiReceived \/ BodyFails \/ UploadEnds
    BY <2>3 DEF BodyReceived, Propose, WifiReceived, BodyFails, UploadEnds
  <2> QED
    BY <1>3, <2>1, <2>2, <2>3 DEF HttpStep, ApiCall
<1>4. CASE WindowPasses \/ UNCHANGED vars
  BY <1>4 DEF WindowPasses, vars
<1>5. CASE MainStep
  <2> USE DEF PageAsWas, PanelAsWas, MainUnchanged
  <2>1. CASE HandleAuth \/ HandleValue \/ HandleCard \/ HandleCardPin
             \/ HandleTry \/ HandleStop \/ HandleNext
    BY <2>1 DEF HandleAuth, HandleValue, HandleCard, HandleCardPin, HandleTry,
                HandleStop, HandleNext, ClaimStop
  <2>2. ASSUME NEW e \in Events, HandleAnswer(e) \/ HandleBack(e)
        PROVE  ValueTypeOK'
    BY <2>2 DEF HandleAnswer, HandleBack, Propose, ClaimStop, Addrs
  <2>3. CASE Offer
    BY <2>3 DEF Offer, Propose, Addrs
  <2>4. CASE ReadFails \/ ReadDone \/ TryKept \/ TryDropped
    BY <2>4 DEF ReadFails, ReadDone, TryKept, ClaimStop, TryDropped
  <2>5. CASE Stop
    BY <2>5 DEF Stop, DnsGone, ServerStops, ApDown, ClearSession, StopUnchanged
  <2>6. CASE Restart
    BY <2>6 DEF Restart, Fresh
  <2> QED
    BY <1>5, <2>1, <2>2, <2>3, <2>4, <2>5, <2>6 DEF MainStep
<1> QED
  BY <1>1, <1>2, <1>3, <1>4, <1>5 DEF Next

LEMMA CounterTypeStep ==
    ASSUME CounterTypeOK, [Next]_vars PROVE CounterTypeOK'
<1> USE DEF CounterTypeOK, counters
<1>1. CASE UiPass \/ Swipe \/ WindowPasses \/ UNCHANGED vars
  BY <1>1 DEF UiPass, Render, ShowValue, DeadlineStop, Swipe, WindowPasses, vars
<1>2. CASE Tap
  <2>1. CASE Configure
    BY <2>1 DEF Configure
  <2>2. CASE ~Configure
    BY <1>2, <2>2
       DEF Tap, EnterCode, CancelCode, Done, CloseFailed, Answer, SubmitPin,
           CancelPin, NewSale, BackToAmount
  <2> QED
    BY <2>1, <2>2
<1>3. CASE HttpStep
  <2>1. ASSUME NEW b \in Browsers,
               AuthPost(b) \/ CardPost(b) \/ WifiPost(b) \/ OtaPost(b)
        PROVE  CounterTypeOK'
    BY <2>1 DEF AuthPost, CardPost, WifiPost, OtaPost
  <2>2. ASSUME NEW b \in Browsers, NEW v \in Addrs, ValuePost(b, v)
        PROVE  CounterTypeOK'
    BY <2>2 DEF ValuePost
  <2>3. CASE BodyReceived \/ WifiReceived \/ BodyFails \/ UploadEnds
    BY <2>3 DEF BodyReceived, WifiReceived, BodyFails, UploadEnds
  <2> QED
    BY <1>3, <2>1, <2>2, <2>3 DEF HttpStep, ApiCall
<1>4. CASE MainStep
  <2>1. UNCHANGED counters
    BY <1>4 DEF MainStep, MainUnchanged, HandleAuth, HandleValue, HandleCard,
                HandleCardPin, HandleTry, HandleStop, HandleNext,
                HandleAnswer, HandleBack,
                ReadFails, ReadDone, Offer, TryKept, TryDropped, Stop, DnsGone,
                ServerStops, ApDown, ClearSession, Restart
  <2> QED
    BY <2>1
<1> QED
  BY <1>1, <1>2, <1>3, <1>4 DEF Next

(* The type invariant, upsets included.                                    *)
THEOREM PortalTypeCorrect == Spec => []TypeOK
<1>1. Init => TypeOK
  BY TypeAtStart
<1>2. TypeOK /\ [Next]_vars => TypeOK'
  BY PageTypeStep, QueueTypeStep, PanelTypeStep, ValueTypeStep,
     CounterTypeStep DEF TypeOK
<1> QED
  BY <1>1, <1>2, PTL DEF Spec

-------------------------------------------------------------------------------
(* The page and the radios. No named part is inductive alone: that an off  *)
(* page is down rests on the order of prov_stop, that order on a request   *)
(* living only in a server, and the server on the handle being kept.       *)

HandleKept == httpd <=> running

OpenIsServed == mode = "admin" => running /\ ~Stopping

OffIsClean == mode = "off" /\ ~Stopping
                 => ~running /\ ~ap /\ ~authed /\ ~pendingAuth

StopOrder == /\ mpc \in {"ap", "clear"} => ~running
             /\ mpc = "clear" => ~ap

RequestIsServed == http # "none" => running

PageInv == /\ PageTypeOK
           /\ HandleKept /\ OpenIsServed /\ OffIsClean /\ StopOrder
           /\ RequestIsServed /\ ServedOnApOnly

(* Nobody taps Configure while prov_stop is under way.                     *)
NoReopen == "reopen" \notin Upsets

(* No Wi-Fi request is finished when its window has passed.                *)
NoLate == "late" \notin Upsets

LEMMA PageAtStart == Init => PageInv
BY DEF Init, PageInv, PageTypeOK, HandleKept, OpenIsServed, OffIsClean,
       StopOrder, RequestIsServed, ServedOnApOnly, Stopping, StopPhases

(* A step that leaves the page, the session, the request and the main task *)
(* alone.                                                                  *)
LEMMA PageUntouched ==
    ASSUME PageInv, UNCHANGED <<pageVars, authVars, http, mpc, after>>
    PROVE  PageInv'
BY DEF PageInv, PageTypeOK, HandleKept, OpenIsServed, OffIsClean, StopOrder,
       RequestIsServed, ServedOnApOnly, Stopping, pageVars, authVars

(* The panel: drawing, the deadline, every tap.                            *)
LEMMA PanelKeepsPage ==
    ASSUME PageInv, NoReopen, UiPass \/ Swipe \/ Tap
    PROVE  PageInv'
<1>1. CASE UiPass \/ Swipe
  BY <1>1, PageUntouched
     DEF UiPass, Render, ShowValue, DeadlineStop, Swipe, httpVars, mainVars
<1>2. CASE EnterCode \/ CancelCode
  <2>1. UNCHANGED <<pageVars, http, mpc, after>>
    BY <1>2 DEF EnterCode, CancelCode, TapUnchanged, httpVars, mainVars
  <2>2. /\ authed' \in BOOLEAN /\ pendingAuth' \in BOOLEAN
        /\ token' \in Browsers \cup {NoBrowser}
        /\ ~pendingAuth => UNCHANGED authVars
    BY <1>2 DEF EnterCode, CancelCode, Resolve, authVars, PageInv, PageTypeOK
  <2>3. mode = "off" /\ ~Stopping => ~authed' /\ ~pendingAuth'
    BY <2>2 DEF PageInv, OffIsClean, authVars
  <2> QED
    BY <2>1, <2>2, <2>3
       DEF PageInv, PageTypeOK, HandleKept, OpenIsServed, OffIsClean, StopOrder,
           RequestIsServed, ServedOnApOnly, Stopping, pageVars
<1>3. CASE Configure
  <2>1. ~Stopping /\ UNCHANGED <<http, mpc, after>>
    BY <1>3 DEF Configure, NoReopen, TapUnchanged, httpVars, mainVars
  <2>2. CASE StartFromOff
    <3>1. ~running
      BY <2>1, <2>2 DEF StartFromOff, PageInv, OffIsClean
    <3> USE <2>1, <2>2, <3>1
        DEF StartFromOff, PageInv, PageTypeOK, HandleKept, OpenIsServed,
            OffIsClean, StopOrder, RequestIsServed, ServedOnApOnly, Stopping,
            StopPhases
    <3>2. CASE ApRefused
      BY <3>2 DEF ApRefused
    <3>3. CASE ServerRefused
      BY <3>3 DEF ServerRefused
    <3>4. CASE Served
      BY <3>4 DEF Served
    <3> QED
      BY <3>2, <3>3, <3>4
  <2>3. CASE StartAgain
    BY <2>1, <2>3
       DEF StartAgain, authVars, PageInv, PageTypeOK, HandleKept, OpenIsServed,
           OffIsClean, StopOrder, RequestIsServed, ServedOnApOnly, Stopping
  <2> QED
    BY <1>3, <2>2, <2>3 DEF Configure
<1>4. CASE Tap /\ ~EnterCode /\ ~CancelCode /\ ~Configure
  BY <1>4, PageUntouched
     DEF Tap, Done, CloseFailed, Answer, SubmitPin, CancelPin, NewSale,
         BackToAmount, TapUnchanged, httpVars, mainVars
<1> QED
  BY <1>1, <1>2, <1>3, <1>4

(* The HTTP task and the clock.                                            *)
LEMMA RequestKeepsPage ==
    ASSUME PageInv, HttpStep \/ WindowPasses
    PROVE  PageInv'
<1> USE DEF PageInv, PageTypeOK, HandleKept, OpenIsServed, OffIsClean,
            StopOrder, RequestIsServed, ServedOnApOnly, Stopping, HttpUnchanged,
            pageVars, authVars, mainVars, httpVars
<1>1. ASSUME NEW b \in Browsers, AuthPost(b) PROVE PageInv'
  BY <1>1 DEF AuthPost, Free
<1>2. ASSUME NEW b \in Browsers, NEW v \in Addrs, ValuePost(b, v) PROVE PageInv'
  BY <1>2 DEF ValuePost, Gate, Free
<1>3. ASSUME NEW b \in Browsers, CardPost(b) \/ WifiPost(b) \/ OtaPost(b)
      PROVE  PageInv'
  BY <1>3 DEF CardPost, WifiPost, OtaPost, Gate, Free
<1>4. CASE BodyReceived \/ WifiReceived \/ BodyFails \/ UploadEnds
  BY <1>4 DEF BodyReceived, WifiReceived, BodyFails, UploadEnds
<1>5. CASE WindowPasses
  BY <1>5 DEF WindowPasses
<1> QED
  BY <1>1, <1>2, <1>3, <1>4, <1>5 DEF HttpStep, ApiCall

(* The main task's handlers, before any teardown.                          *)
LEMMA HandlerKeepsPage ==
    ASSUME PageInv,
           \/ HandleAuth \/ HandleValue \/ HandleCard \/ HandleCardPin
           \/ HandleTry \/ HandleStop \/ HandleNext
           \/ \E e \in Events : HandleAnswer(e) \/ HandleBack(e)
           \/ ReadFails \/ ReadDone \/ Offer \/ TryKept \/ TryDropped
    PROVE  PageInv'
<1> USE DEF PageInv, PageTypeOK, HandleKept, OpenIsServed, OffIsClean,
            StopOrder, RequestIsServed, ServedOnApOnly, Stopping, StopPhases,
            Take, PageAsWas, MainUnchanged, pageVars, authVars, httpVars,
            mainVars
<1>1. CASE \/ HandleAuth \/ HandleValue \/ HandleCard \/ HandleCardPin
           \/ HandleNext
  BY <1>1 DEF HandleAuth, HandleValue, HandleCard, HandleCardPin, HandleNext
<1>2. CASE HandleTry
  BY <1>2 DEF HandleTry
<1>3. CASE HandleStop
  BY <1>3 DEF HandleStop, ClaimStop
<1>4. ASSUME NEW e \in Events, HandleAnswer(e) PROVE PageInv'
  BY <1>4 DEF HandleAnswer, ClaimStop
<1>5. ASSUME NEW e \in Events, HandleBack(e) PROVE PageInv'
  BY <1>5 DEF HandleBack
<1>6. CASE ReadFails \/ ReadDone \/ Offer
  BY <1>6 DEF ReadFails, ReadDone, Offer
<1>7. CASE TryKept
  <2>1. CASE ClaimStop("amount")
    BY <1>7, <2>1 DEF TryKept, ClaimStop
  <2>2. CASE ~ClaimStop("amount")
    BY <1>7, <2>2 DEF TryKept
  <2> QED
    BY <2>1, <2>2
<1>8. CASE TryDropped
  <2>1. sta' \in BOOLEAN /\ (sta' => mode = "off") /\ mpc' = "idle"
    BY <1>8 DEF TryDropped
  <2>2. UNCHANGED <<mode, httpd, running, ap, window, token, pendingAuth,
                    authed, http, after>>
    BY <1>8 DEF TryDropped
  <2>3. mpc = "trial"
    BY <1>8 DEF TryDropped
  <2> QED
    BY <2>1, <2>2, <2>3
<1> QED
  BY <1>1, <1>2, <1>3, <1>4, <1>5, <1>6, <1>7, <1>8

(* prov_stop, phase by phase, and a restart.                               *)
LEMMA StopKeepsPage ==
    ASSUME PageInv, Stop \/ Restart
    PROVE  PageInv'
<1> USE DEF PageInv, PageTypeOK, HandleKept, OpenIsServed, OffIsClean,
            StopOrder, RequestIsServed, ServedOnApOnly, Stopping, StopPhases,
            PageAsWas, MainUnchanged, StopUnchanged, pageVars, authVars,
            httpVars
<1>1. CASE DnsGone
  BY <1>1 DEF DnsGone
<1>2. CASE ServerStops
  <2>1. ~running'
    BY <1>2 DEF ServerStops
  <2>2. httpd' = FALSE /\ running' = FALSE /\ mpc' = "ap"
    BY <1>2 DEF ServerStops
  <2>3. UNCHANGED <<mode, ap, sta, window, token, pendingAuth, authed, http,
                    after>>
    BY <1>2 DEF ServerStops
  <2>4. mode = "off" /\ http = "none"
    BY <1>2, <2>1 DEF ServerStops
  <2> QED
    BY <1>2, <2>2, <2>3, <2>4 DEF ServerStops
<1>3. CASE ApDown
  BY <1>3 DEF ApDown
<1>4. CASE ClearSession
  BY <1>4 DEF ClearSession
<1>5. CASE Restart
  BY <1>5 DEF Restart, Fresh
<1> QED
  BY <1>1, <1>2, <1>3, <1>4, <1>5 DEF Stop

LEMMA PageStep == ASSUME NoReopen PROVE PageInv /\ [Next]_vars => PageInv'
<1> SUFFICES ASSUME PageInv, [Next]_vars PROVE PageInv'
  OBVIOUS
<1>1. CASE UiPass \/ Swipe \/ Tap
  BY <1>1, NoReopen, PanelKeepsPage
<1>2. CASE HttpStep \/ WindowPasses
  BY <1>2, RequestKeepsPage
<1>3. CASE MainStep
  BY <1>3, HandlerKeepsPage, StopKeepsPage DEF MainStep
<1>4. CASE UNCHANGED vars
  BY <1>4, PageUntouched DEF vars, httpVars, mainVars
<1> QED
  BY <1>1, <1>2, <1>3, <1>4 DEF Next

LEMMA PageHolds == ASSUME NoReopen PROVE Spec => []PageInv
<1>1. Init => PageInv
  BY PageAtStart
<1>2. PageInv /\ [Next]_vars => PageInv'
  BY NoReopen, PageStep
<1> QED
  BY <1>1, <1>2, PTL DEF Spec

(* A page that is off is down once the teardown is over: nothing listens,  *)
(* the access point is gone and nobody is let in. It holds of every        *)
(* interleaving of the panel, the browsers and the teardown, a deadline    *)
(* and Done at once included, as long as nobody reopens the page under a   *)
(* prov_stop that has not returned.                                        *)
THEOREM TeardownSound == ASSUME NoReopen PROVE Spec => []OffIsDown
<1>1. PageInv => OffIsDown
  BY DEF PageInv, OffIsClean, OffIsDown
<1> QED
  BY <1>1, PageHolds, PTL

(* The page is served on the venue's network only while new credentials    *)
(* are tried and in the stop that follows a good trial, under the same     *)
(* assumption.                                                             *)
THEOREM OnApOnlySound == ASSUME NoReopen PROVE Spec => []ServedOnApOnly
<1>1. PageInv => ServedOnApOnly
  BY DEF PageInv
<1> QED
  BY <1>1, PageHolds, PTL

-------------------------------------------------------------------------------
(* Pairing. A token lives as long as somebody is waiting or was let in, so *)
(* no second browser can take it over; and the code on a drawn code screen *)
(* is the token, or what is left of a page that has gone down.             *)

TokenIsHeld == token # NoBrowser => pendingAuth \/ authed

TitleIsToken ==
    screen = "UNLOCK" /\ ~dirty /\ title # NoBrowser
        => token = title \/ (mode = "off" /\ ~Stopping)

NameInv == PageInv /\ TokenIsHeld /\ TitleIsToken

LEMMA NameAtStart == Init => NameInv
BY PageAtStart DEF Init, NameInv, TokenIsHeld, TitleIsToken

LEMMA PanelKeepsName ==
    ASSUME NameInv, NoReopen, UiPass \/ Swipe \/ Tap
    PROVE  TokenIsHeld' /\ TitleIsToken'
<1> USE DEF NameInv, TokenIsHeld, TitleIsToken, Stopping, Request, pageVars,
            authVars, httpVars, mainVars
<1>1. CASE Render
  BY <1>1 DEF Render
<1>2. CASE ShowValue \/ DeadlineStop \/ Swipe
  BY <1>2 DEF ShowValue, DeadlineStop, Swipe
<1>3. CASE EnterCode \/ CancelCode
  BY <1>3 DEF EnterCode, CancelCode, Resolve
<1>4. CASE Configure
  <2>1. screen' = "SETTINGS"
    BY <1>4 DEF Configure, OnScreen
  <2>2. TokenIsHeld'
    BY <1>4 DEF Configure, StartFromOff, ApRefused, ServerRefused, Served,
                StartAgain
  <2> QED
    BY <2>1, <2>2
<1>5. CASE \/ Done \/ CloseFailed \/ SubmitPin \/ CancelPin
           \/ NewSale \/ BackToAmount
  BY <1>5 DEF Done, CloseFailed, SubmitPin, CancelPin, NewSale, BackToAmount,
              PanelAsWas, TapUnchanged
<1>6. ASSUME NEW accept \in BOOLEAN, Answer(accept)
      PROVE  TokenIsHeld' /\ TitleIsToken'
  BY <1>6 DEF Answer, TapUnchanged
<1> QED
  BY <1>1, <1>2, <1>3, <1>4, <1>5, <1>6 DEF UiPass, Tap

LEMMA RequestKeepsName ==
    ASSUME NameInv, HttpStep \/ WindowPasses
    PROVE  TokenIsHeld' /\ TitleIsToken'
<1> USE DEF NameInv, TokenIsHeld, TitleIsToken, Stopping, HttpUnchanged,
            pageVars, authVars, mainVars, httpVars, panelVars
<1>1. ASSUME NEW b \in Browsers, AuthPost(b)
      PROVE  TokenIsHeld' /\ TitleIsToken'
  <2>1. token = NoBrowser
    BY <1>1 DEF AuthPost
  <2>2. ~(mode = "off" /\ ~Stopping)
    BY <1>1 DEF AuthPost, Free, PageInv, OffIsClean
  <2> QED
    BY <1>1, <2>1, <2>2 DEF AuthPost
<1>2. ASSUME NEW b \in Browsers,
             \/ CardPost(b) \/ WifiPost(b) \/ OtaPost(b)
             \/ \E v \in Addrs : ValuePost(b, v)
      PROVE  TokenIsHeld' /\ TitleIsToken'
  BY <1>2 DEF CardPost, WifiPost, OtaPost, ValuePost
<1>3. CASE \/ BodyReceived \/ WifiReceived \/ BodyFails \/ UploadEnds
           \/ WindowPasses
  BY <1>3 DEF BodyReceived, WifiReceived, BodyFails, UploadEnds, WindowPasses
<1> QED
  BY <1>1, <1>2, <1>3 DEF HttpStep, ApiCall

LEMMA MainKeepsName ==
    ASSUME NameInv, MainStep
    PROVE  TokenIsHeld' /\ TitleIsToken'
<1> USE DEF NameInv, TokenIsHeld, TitleIsToken, Stopping, StopPhases, Request,
            Take, PageAsWas, PanelAsWas, MainUnchanged, pageVars, authVars,
            mainVars, panelVars
<1>1. CASE HandleAuth \/ HandleValue \/ HandleCard \/ HandleCardPin
  BY <1>1 DEF HandleAuth, HandleValue, HandleCard, HandleCardPin
<1>2. CASE HandleTry \/ HandleStop \/ HandleNext
  BY <1>2 DEF HandleTry, HandleStop, HandleNext, ClaimStop
<1>3. ASSUME NEW e \in Events, HandleAnswer(e) \/ HandleBack(e)
      PROVE  TokenIsHeld' /\ TitleIsToken'
  BY <1>3 DEF HandleAnswer, HandleBack, ClaimStop
<1>4. CASE ReadFails \/ ReadDone \/ Offer
  BY <1>4 DEF ReadFails, ReadDone, Offer
<1>5. CASE TryKept \/ TryDropped
  BY <1>5 DEF TryKept, TryDropped, ClaimStop
<1>6. CASE Stop
  <2>1. mode = "off"
    BY <1>6 DEF Stop, DnsGone, ServerStops, ApDown, ClearSession, PageInv,
                OpenIsServed, PageTypeOK
  <2> QED
    BY <1>6, <2>1 DEF Stop, DnsGone, ServerStops, ApDown, ClearSession,
                      StopUnchanged
<1>7. CASE Restart
  BY <1>7 DEF Restart, Fresh
<1> QED
  BY <1>1, <1>2, <1>3, <1>4, <1>5, <1>6, <1>7 DEF MainStep

LEMMA NameStep == ASSUME NoReopen PROVE NameInv /\ [Next]_vars => NameInv'
<1> SUFFICES ASSUME NameInv, [Next]_vars PROVE NameInv'
  OBVIOUS
<1>1. PageInv'
  BY NoReopen, PageStep DEF NameInv
<1>2. CASE UNCHANGED vars
  BY <1>1, <1>2 DEF vars, NameInv, TokenIsHeld, TitleIsToken, Stopping,
                    pageVars, authVars, mainVars, panelVars
<1> QED
  BY <1>1, <1>2, NoReopen, PanelKeepsName, RequestKeepsName, MainKeepsName
     DEF Next, NameInv

(* Only EnterCode lets a browser in.                                       *)
LEMMA GrantIsEntered ==
    ASSUME [Next]_vars, PageTypeOK, ~authed, authed'
    PROVE  EnterCode /\ forPortal /\ pendingAuth /\ token' = token
<1> USE DEF authVars, PageAsWas, HttpUnchanged
<1>1. CASE UiPass \/ Swipe \/ WindowPasses \/ UNCHANGED vars
  BY <1>1 DEF UiPass, Render, ShowValue, DeadlineStop, Swipe, WindowPasses, vars
<1>2. CASE EnterCode
  BY <1>2 DEF EnterCode, Resolve
<1>3. CASE CancelCode \/ Configure
  BY <1>3 DEF CancelCode, Resolve, Configure, StartFromOff, ApRefused,
              ServerRefused, Served, StartAgain
<1>4. CASE Tap /\ ~EnterCode /\ ~CancelCode /\ ~Configure
  BY <1>4 DEF Tap, Done, CloseFailed, Answer, SubmitPin, CancelPin, NewSale,
              BackToAmount
<1>5. CASE HttpStep
  BY <1>5 DEF HttpStep, ApiCall, AuthPost, ValuePost, CardPost, WifiPost,
              OtaPost, BodyReceived, WifiReceived, BodyFails, UploadEnds
<1>6. CASE MainStep
  <2>1. CASE \/ HandleAuth \/ HandleValue \/ HandleCard \/ HandleCardPin
             \/ HandleTry \/ HandleStop \/ HandleNext
    BY <2>1 DEF HandleAuth, HandleValue, HandleCard, HandleCardPin, HandleTry,
                HandleStop, HandleNext, ClaimStop
  <2>2. ASSUME NEW e \in Events, HandleAnswer(e) \/ HandleBack(e)
        PROVE  FALSE
    BY <2>2 DEF HandleAnswer, HandleBack, ClaimStop
  <2>3. CASE ReadFails \/ ReadDone \/ Offer \/ TryKept \/ TryDropped
    BY <2>3 DEF ReadFails, ReadDone, Offer, TryKept, TryDropped, ClaimStop
  <2>4. CASE Stop \/ Restart
    BY <2>4 DEF Stop, DnsGone, ServerStops, ApDown, ClearSession, Restart, Fresh
  <2> QED
    BY <1>6, <2>1, <2>2, <2>3, <2>4 DEF MainStep
<1> QED
  BY <1>1, <1>2, <1>3, <1>4, <1>5, <1>6 DEF Next

(* A browser is let in only by the code entered on a screen raised for a   *)
(* browser, and only the one whose pairing code that screen shows. It      *)
(* holds of a code screen that outlives its page, too: what was drawn then *)
(* lets nobody in.                                                         *)
THEOREM GrantSound == ASSUME NoReopen PROVE Spec => GrantedWasNamed
<1>1. NameInv /\ [Next]_vars =>
         [~authed /\ authed' => /\ screen = "UNLOCK" /\ forPortal
                               /\ title \in {token', NoBrowser}]_vars
  <2> SUFFICES ASSUME NameInv, [Next]_vars, ~authed, authed'
               PROVE  /\ screen = "UNLOCK" /\ forPortal
                      /\ title \in {token', NoBrowser}
    OBVIOUS
  <2>1. EnterCode /\ forPortal /\ pendingAuth /\ token' = token
    BY GrantIsEntered DEF NameInv, PageInv
  <2>2. screen = "UNLOCK" /\ ~dirty
    BY <2>1 DEF EnterCode, OnScreen, InputOpen
  <2>3. ~(mode = "off" /\ ~Stopping)
    BY <2>1 DEF NameInv, PageInv, OffIsClean
  <2> QED
    BY <2>1, <2>2, <2>3 DEF NameInv, TitleIsToken
<1>2. Init => NameInv
  BY NameAtStart
<1>3. NameInv /\ [Next]_vars => NameInv'
  BY NoReopen, NameStep
<1> QED
  BY <1>1, <1>2, <1>3, PTL DEF Spec, GrantedWasNamed

-------------------------------------------------------------------------------
(* What is stored was shown. The argument is about the order of the event  *)
(* queue, and about which screen a finger can meet while the main task is  *)
(* in a wait; the card and the slot come last.                             *)

(* The queue as the panel's promises need it. Events that leave the screen *)
(* as it is; the answers to a proposal.                                    *)
Quiet   == {"VALUE", "SET", "NO", "STOP", "NEXT"}
Answers == {"SET", "NO"}

Has(q, e)   == \E i \in 1..Len(q) : q[i] = e
Answered(q) == Has(q, "SET") \/ Has(q, "NO")
IsQuiet(q)  == \A i \in 1..Len(q) : q[i] \in Quiet

OneValue(q) == \A i, j \in 1..Len(q) : q[i] = "VALUE" /\ q[j] = "VALUE" => i = j

AnswersFirst(q) ==
    \A i, j \in 1..Len(q) : q[i] \in Answers /\ q[j] = "VALUE" => i < j

QuietUpToPin(q) ==
    \A i, j \in 1..Len(q) : q[i] = "CARD_PIN" /\ j < i => q[j] \in Quiet

QuietAfterStop(q) ==
    \A i, j \in 1..Len(q) : q[i] = "STOP" /\ i < j => q[j] \in Quiet

(* What a send does, position by position: it adds at the end, or nothing. *)
LEMMA PostAt ==
    ASSUME NEW q \in Seq(Events), NEW e \in Events
    PROVE  /\ Len(q) \in Nat /\ Len(Post(q, e)) \in Nat
           /\ Len(q) <= Len(Post(q, e)) /\ Len(Post(q, e)) <= Len(q) + 1
           /\ \A i \in 1..Len(q) : Post(q, e)[i] = q[i]
           /\ \A i \in 1..Len(Post(q, e)) :
                 i \in 1..Len(q) \/ (i = Len(q) + 1 /\ Post(q, e)[i] = e)
BY DEF Post

(* And a receive: all move up by one.                                      *)
LEMMA TailAt ==
    ASSUME NEW q \in Seq(Events), q # <<>>
    PROVE  /\ Len(q) \in Nat /\ Len(Tail(q)) \in Nat
           /\ Len(q) = Len(Tail(q)) + 1
           /\ Head(q) = q[1]
           /\ \A i \in 1..Len(Tail(q)) : Tail(q)[i] = q[i + 1]
OBVIOUS

LEMMA PostKeepsOrder ==
    ASSUME NEW q \in Seq(Events), NEW e \in Events
    PROVE  /\ \A x : Has(Post(q, e), x) => Has(q, x) \/ e = x
           /\ Answered(Post(q, e)) => Answered(q) \/ e \in Answers
           /\ IsQuiet(q) /\ e \in Quiet => IsQuiet(Post(q, e))
           /\ OneValue(q) /\ (e = "VALUE" => ~Has(q, "VALUE"))
                 => OneValue(Post(q, e))
           /\ AnswersFirst(q) /\ (e \in Answers => ~Has(q, "VALUE"))
                 => AnswersFirst(Post(q, e))
           /\ QuietUpToPin(q) /\ (e = "CARD_PIN" => IsQuiet(q))
                 => QuietUpToPin(Post(q, e))
           /\ QuietAfterStop(q) /\ (e \in Quiet \/ ~Has(q, "STOP"))
                 => QuietAfterStop(Post(q, e))
           /\ q # <<>> => Post(q, e) # <<>> /\ Head(Post(q, e)) = Head(q)
<1> DEFINE p == Post(q, e)
<1>1. /\ Len(q) \in Nat /\ Len(p) \in Nat
      /\ Len(q) <= Len(p) /\ Len(p) <= Len(q) + 1
      /\ \A i \in 1..Len(q) : p[i] = q[i]
      /\ \A i \in 1..Len(p) :
            i \in 1..Len(q) \/ (i = Len(q) + 1 /\ p[i] = e)
  BY PostAt
<1>2. \A x : Has(p, x) => Has(q, x) \/ e = x
  <2> HIDE DEF p
  <2> QED
    BY <1>1 DEF Has
<1>3. Answered(p) => Answered(q) \/ e \in Answers
  <2> HIDE DEF p
  <2> QED
    BY <1>2 DEF Answered, Answers
<1>4. IsQuiet(q) /\ e \in Quiet => IsQuiet(p)
  <2> HIDE DEF p
  <2> QED
    BY <1>1 DEF IsQuiet
<1>5. OneValue(q) /\ (e = "VALUE" => ~Has(q, "VALUE")) => OneValue(p)
  <2> HIDE DEF p
  <2> QED
    BY <1>1 DEF OneValue, Has
<1>6. AnswersFirst(q) /\ (e \in Answers => ~Has(q, "VALUE"))
         => AnswersFirst(p)
  <2> HIDE DEF p
  <2> QED
    BY <1>1 DEF AnswersFirst, Has, Answers
<1>7. QuietUpToPin(q) /\ (e = "CARD_PIN" => IsQuiet(q)) => QuietUpToPin(p)
  <2> HIDE DEF p
  <2> QED
    BY <1>1 DEF QuietUpToPin, IsQuiet
<1>8. QuietAfterStop(q) /\ (e \in Quiet \/ ~Has(q, "STOP"))
         => QuietAfterStop(p)
  <2> HIDE DEF p
  <2> QED
    BY <1>1 DEF QuietAfterStop, Has
<1>9. q # <<>> => Post(q, e) # <<>> /\ Head(Post(q, e)) = Head(q)
  BY DEF Post
<1> QED
  BY <1>2, <1>3, <1>4, <1>5, <1>6, <1>7, <1>8, <1>9

LEMMA TakeKeepsOrder ==
    ASSUME NEW q \in Seq(Events), q # <<>>
    PROVE  /\ \A x : Has(Tail(q), x) => Has(q, x)
           /\ Answered(Tail(q)) => Answered(q)
           /\ Has(q, Head(q))
           /\ OneValue(q) => OneValue(Tail(q))
           /\ AnswersFirst(q) => AnswersFirst(Tail(q))
           /\ QuietUpToPin(q) => QuietUpToPin(Tail(q))
           /\ QuietAfterStop(q) => QuietAfterStop(Tail(q))
           /\ IsQuiet(q) => IsQuiet(Tail(q))
           /\ OneValue(q) /\ Head(q) = "VALUE" => ~Has(Tail(q), "VALUE")
           /\ AnswersFirst(q) /\ Head(q) = "VALUE" => ~Answered(q)
           /\ QuietUpToPin(q) /\ Head(q) \notin Quiet
                 => ~Has(Tail(q), "CARD_PIN")
           /\ QuietAfterStop(q) /\ Head(q) = "STOP" => IsQuiet(Tail(q))
<1> DEFINE p == Tail(q)
           h == Head(q)
<1>1. /\ Len(q) \in Nat /\ Len(p) \in Nat
      /\ Len(q) = Len(p) + 1
      /\ h = q[1]
      /\ \A i \in 1..Len(p) : p[i] = q[i + 1]
  BY TailAt
<1> HIDE DEF p, h
<1>2. \A x : Has(p, x) => Has(q, x)
  BY <1>1 DEF Has
<1>3. Answered(p) => Answered(q)
  BY <1>2 DEF Answered
<1>4. Has(q, h)
  BY <1>1 DEF Has
<1>5. \A i \in 1..Len(p) :
         /\ i + 1 \in 1..Len(q) /\ 1 \in 1..Len(q)
         /\ i + 1 # 1 /\ 1 < i + 1
         /\ q[i + 1] = p[i]
  BY <1>1
<1>6. OneValue(q) => OneValue(p) /\ (h = "VALUE" => ~Has(p, "VALUE"))
  <2> SUFFICES ASSUME OneValue(q)
               PROVE  OneValue(p) /\ (h = "VALUE" => ~Has(p, "VALUE"))
    OBVIOUS
  <2>1. ASSUME NEW i \in 1..Len(p), NEW j \in 1..Len(p),
               p[i] = "VALUE", p[j] = "VALUE"
        PROVE  i = j
    <3>1. i + 1 = j + 1
      BY <1>5, <2>1 DEF OneValue
    <3> QED
      BY <3>1
  <2>2. ASSUME h = "VALUE", NEW i \in 1..Len(p), p[i] = "VALUE" PROVE FALSE
    <3>1. 1 = i + 1
      BY <1>1, <1>5, <2>2 DEF OneValue
    <3> QED
      BY <1>5, <3>1
  <2> QED
    BY <2>1, <2>2 DEF OneValue, Has
<1>7. AnswersFirst(q)
         => AnswersFirst(p) /\ (h = "VALUE" => ~Answered(q))
  <2> SUFFICES ASSUME AnswersFirst(q)
               PROVE  AnswersFirst(p) /\ (h = "VALUE" => ~Answered(q))
    OBVIOUS
  <2>1. ASSUME NEW i \in 1..Len(p), NEW j \in 1..Len(p),
               p[i] \in Answers, p[j] = "VALUE"
        PROVE  i < j
    <3>1. i + 1 < j + 1
      BY <1>5, <2>1 DEF AnswersFirst
    <3> QED
      BY <3>1
  <2>2. ASSUME h = "VALUE", NEW i \in 1..Len(q), q[i] \in Answers PROVE FALSE
    <3>1. 1 \in 1..Len(q) /\ q[1] = "VALUE"
      BY <1>1, <2>2
    <3>2. i < 1
      BY <2>2, <3>1 DEF AnswersFirst
    <3> QED
      BY <3>2
  <2> QED
    BY <2>1, <2>2 DEF AnswersFirst, Answered, Has, Answers
<1>8. QuietUpToPin(q)
         => QuietUpToPin(p) /\ (h \notin Quiet => ~Has(p, "CARD_PIN"))
  <2> SUFFICES ASSUME QuietUpToPin(q)
               PROVE  QuietUpToPin(p) /\ (h \notin Quiet => ~Has(p, "CARD_PIN"))
    OBVIOUS
  <2>1. ASSUME NEW i \in 1..Len(p), NEW j \in 1..Len(p),
               p[i] = "CARD_PIN", j < i
        PROVE  p[j] \in Quiet
    <3>1. j + 1 < i + 1
      BY <2>1
    <3> QED
      BY <1>5, <2>1, <3>1 DEF QuietUpToPin
  <2>2. ASSUME h \notin Quiet, NEW i \in 1..Len(p), p[i] = "CARD_PIN"
        PROVE  FALSE
    BY <1>1, <1>5, <2>2 DEF QuietUpToPin
  <2> QED
    BY <2>1, <2>2 DEF QuietUpToPin, Has
<1>9. QuietAfterStop(q)
         => QuietAfterStop(p) /\ (h = "STOP" => IsQuiet(p))
  <2> SUFFICES ASSUME QuietAfterStop(q)
               PROVE  QuietAfterStop(p) /\ (h = "STOP" => IsQuiet(p))
    OBVIOUS
  <2>1. ASSUME NEW i \in 1..Len(p), NEW j \in 1..Len(p),
               p[i] = "STOP", i < j
        PROVE  p[j] \in Quiet
    <3>1. i + 1 < j + 1
      BY <2>1
    <3> QED
      BY <1>5, <2>1, <3>1 DEF QuietAfterStop
  <2>2. ASSUME h = "STOP", NEW i \in 1..Len(p) PROVE p[i] \in Quiet
    BY <1>1, <1>5, <2>2 DEF QuietAfterStop
  <2> QED
    BY <2>1, <2>2 DEF QuietAfterStop, IsQuiet
<1>10. IsQuiet(q) => IsQuiet(p)
  BY <1>5 DEF IsQuiet
<1> QED
  BY <1>2, <1>3, <1>4, <1>6, <1>7, <1>8, <1>9, <1>10
  DEF p, h

LEMMA EmptyIsQuiet ==
    /\ \A x : ~Has(<<>>, x)
    /\ ~Answered(<<>>) /\ IsQuiet(<<>>) /\ OneValue(<<>>)
    /\ AnswersFirst(<<>>) /\ QuietUpToPin(<<>>) /\ QuietAfterStop(<<>>)
BY DEF Has, Answered, IsQuiet, OneValue, AnswersFirst, QuietUpToPin,
       QuietAfterStop

(* prov_stop on its way to a restart, and the restart: nothing that is     *)
(* queued is read any more.                                                *)
Restarting == mpc = "restart" \/ (Stopping /\ after = "restart")

(* The card is read behind its wait screen, credentials are tried behind   *)
(* theirs, and the page is closed behind it after a good trial.            *)
ReadScreen  == mpc = "read" => screen = "CARD_WAIT"
TrialScreen == mpc = "trial" \/ (Stopping /\ after = "amount")
                  => screen = "CONNECTING"

(* Nothing is queued in front of a PIN that changes its screen.            *)
PinOrder ==
    ~Restarting /\ Has(queue, "CARD_PIN")
        => /\ screen = "CARD_WAIT" /\ mpc \notin {"read", "trial"}
           /\ QuietUpToPin(queue)

(* The keypad is up under a prov_stop only if the deadline caused it: the  *)
(* gate is closed, and nothing queued changes a screen.                    *)
PinDrawn == ~Restarting /\ Stopping /\ screen = "PIN"
               => window = "past" /\ IsQuiet(queue)

(* A stop is asked for by a tap, which is next, or by the deadline, after  *)
(* which no request queues anything.                                       *)
StopNext == /\ queue # <<>> /\ Head(queue) = "STOP"
            /\ mpc = "idle" /\ screen = "SETTINGS"

StopBehind ==
    mode = "admin" => \/ StopNext
                      \/ /\ Has(queue, "STOP") => window = "past"
                         /\ QuietAfterStop(queue)

PortalScreen == modal = "portal" /\ ~dirty => screen = "SETTINGS"

WindowSet == mode = "admin" => window # "none"

ScreenInv == /\ ReadScreen /\ TrialScreen /\ PinOrder /\ PinDrawn
             /\ StopBehind /\ PortalScreen /\ WindowSet

BaseInv == TypeOK /\ PageInv

(* Where a finger meets anything but a wait screen.                        *)
LEMMA TapAt ==
    ASSUME ScreenInv, Blocked, screen \notin {"CARD_WAIT", "CONNECTING"}
    PROVE  (mpc = "idle" /\ queue = <<>>) \/ mpc \in {"dns", "httpd", "ap"}
BY DEF ScreenInv, ReadScreen, TrialScreen, Blocked

LEMMA UiKeepsScreen ==
    ASSUME BaseInv, ScreenInv, NoReopen, UiPass \/ Swipe
    PROVE  ScreenInv'
<1> USE DEF ScreenInv, ReadScreen, TrialScreen, PinOrder, PinDrawn, StopBehind,
            StopNext, PortalScreen, WindowSet, Restarting, Stopping, StopPhases,
            pageVars, mainVars
<1>0. queue \in Seq(Events)
  BY DEF BaseInv, TypeOK, QueueTypeOK
<1>1. CASE Render
  BY <1>1 DEF Render
<1>2. CASE ShowValue
  BY <1>2 DEF ShowValue, ValueCard
<1>3. CASE DeadlineStop
  <2>1. "STOP" \in Events /\ "STOP" \in Quiet
    BY DEF Events, Quiet
  <2>2. mode = "admin" /\ window = "past"
    BY <1>3 DEF DeadlineStop, DeadlineDue, NoTimeLeft, BaseInv, PageInv,
                HandleKept, OpenIsServed, PageTypeOK
  <2>3. ~Stopping
    BY <2>2 DEF BaseInv, PageInv, OpenIsServed
  <2>4. QueueTypeOK /\ queue' = Post(queue, "STOP")
    BY <1>3 DEF DeadlineStop, BaseInv, TypeOK
  <2>5. /\ Has(queue', "CARD_PIN") => Has(queue, "CARD_PIN")
        /\ QuietUpToPin(queue) => QuietUpToPin(queue')
        /\ QuietAfterStop(queue) => QuietAfterStop(queue')
        /\ queue # <<>> => queue' # <<>> /\ Head(queue') = Head(queue)
    BY <1>0, <2>1, <2>4, PostKeepsOrder
  <2>6. /\ UNCHANGED <<screen, dirty, mode, window, mpc, after>>
        /\ modal' \in {modal, "none"}
    BY <1>3 DEF DeadlineStop
  <2> QED
    BY <2>2, <2>3, <2>5, <2>6
<1>4. CASE Swipe
  <2>1. (mpc = "idle" /\ queue = <<>>) \/ mpc \in {"dns", "httpd", "ap"}
    BY <1>4, TapAt DEF Swipe
  <2>2. screen = "AMOUNT" /\ screen' = "UNLOCK" /\ dirty'
    BY <1>4 DEF Swipe, Request
  <2>3. UNCHANGED <<queue, mode, window, mpc, after>>
    BY <1>4 DEF Swipe
  <2>4. mpc = "idle" => ~Has(queue, "CARD_PIN")
    BY <2>1, EmptyIsQuiet
  <2> QED
    BY <2>1, <2>2, <2>3, <2>4
<1> QED
  BY <1>1, <1>2, <1>3, <1>4 DEF UiPass

(* A step that leaves the panel's screen, the main task and the page       *)
(* alone, and queues one event that changes no screen, or nothing.         *)
LEMMA QuietPost ==
    ASSUME BaseInv, ScreenInv, NEW e \in Quiet,
           queue' \in {queue, Post(queue, e)},
           e = "STOP" => mode # "admin",
           UNCHANGED <<screen, mode, window, mpc, after>>,
           dirty' = dirty, modal' = "portal" => modal = "portal"
    PROVE  ScreenInv'
<1> USE DEF ScreenInv, ReadScreen, TrialScreen, PinOrder, PinDrawn, StopBehind,
            StopNext, PortalScreen, WindowSet, Restarting, Stopping
<1>1. e \in Events /\ e # "CARD_PIN"
  BY DEF Quiet, Events
<1>2. queue \in Seq(Events)
  BY DEF BaseInv, TypeOK, QueueTypeOK
<1>3. /\ Has(queue', "CARD_PIN") => Has(queue, "CARD_PIN")
      /\ Has(queue', "STOP") => Has(queue, "STOP") \/ e = "STOP"
      /\ IsQuiet(queue) => IsQuiet(queue')
      /\ QuietUpToPin(queue) => QuietUpToPin(queue')
      /\ QuietAfterStop(queue) => QuietAfterStop(queue')
      /\ queue # <<>> => queue' # <<>> /\ Head(queue') = Head(queue)
  BY <1>1, <1>2, PostKeepsOrder
<1> QED
  BY <1>3

(* A screen asked for by a tap: not a wait screen, nor the keypad.         *)
LEMMA TapToScreen ==
    ASSUME BaseInv, ScreenInv,
           Blocked, screen \notin {"CARD_WAIT", "CONNECTING"},
           dirty', screen' # "PIN",
           queue' \in {queue, Post(queue, "NEXT")},
           UNCHANGED <<mode, window, mpc, after>>
    PROVE  ScreenInv'
<1> USE DEF ScreenInv, ReadScreen, TrialScreen, PinOrder, PinDrawn, StopBehind,
            StopNext, PortalScreen, WindowSet, Restarting, Stopping
<1>1. (mpc = "idle" /\ queue = <<>>) \/ mpc \in {"dns", "httpd", "ap"}
  BY TapAt
<1>2. mpc = "idle" => ~Has(queue, "CARD_PIN")
  BY <1>1, EmptyIsQuiet
<1>3. queue \in Seq(Events) /\ "NEXT" \in Events /\ "NEXT" \in Quiet
  BY DEF BaseInv, TypeOK, QueueTypeOK, Events, Quiet
<1>4. /\ Has(queue', "CARD_PIN") => Has(queue, "CARD_PIN")
      /\ Has(queue', "STOP") => Has(queue, "STOP")
      /\ IsQuiet(queue) => IsQuiet(queue')
      /\ QuietUpToPin(queue) => QuietUpToPin(queue')
      /\ QuietAfterStop(queue) => QuietAfterStop(queue')
      /\ queue # <<>> => queue' # <<>> /\ Head(queue') = Head(queue)
  BY <1>3, PostKeepsOrder
<1> QED
  BY <1>1, <1>2, <1>4

LEMMA TapKeepsScreen ==
    ASSUME BaseInv, ScreenInv, NoReopen, Tap
    PROVE  ScreenInv'
<1>0. queue \in Seq(Events)
  BY DEF BaseInv, TypeOK, QueueTypeOK
<1>1. CASE EnterCode \/ CancelCode \/ BackToAmount
  <2>1. /\ Blocked /\ screen \notin {"CARD_WAIT", "CONNECTING"}
        /\ dirty' /\ screen' # "PIN"
        /\ queue' \in {queue, Post(queue, "NEXT")}
        /\ UNCHANGED <<mode, window, mpc, after>>
    BY <1>1 DEF EnterCode, CancelCode, Resolve, BackToAmount, OnScreen,
                InputOpen, Request, TapUnchanged, pageVars, mainVars
  <2> QED
    BY <2>1, TapToScreen
<1>2. CASE Configure
  <2> USE DEF ScreenInv, ReadScreen, TrialScreen, PinOrder, PinDrawn,
              StopBehind, StopNext, PortalScreen, WindowSet, Restarting,
              Stopping
  <2>1. queue = <<>> /\ mpc = "idle"
    BY <1>2, TapAt DEF Configure, OnScreen, InputOpen, NoReopen, StopPhases
  <2>2. screen = "SETTINGS" /\ UNCHANGED <<screen, queue, dirty, mpc, after>>
    BY <1>2 DEF Configure, OnScreen, TapUnchanged, mainVars
  <2>3. mode' = "admin" => window' = "open"
    BY <1>2 DEF Configure, StartFromOff, ApRefused, ServerRefused, Served,
                StartAgain
  <2>4. ~Has(queue', "CARD_PIN") /\ ~Has(queue', "STOP")
        /\ QuietAfterStop(queue')
    BY <2>1, <2>2, EmptyIsQuiet
  <2> QED
    BY <2>1, <2>2, <2>3, <2>4 DEF StopPhases
<1>3. CASE Done
  <2>1. Blocked /\ modal = "portal" /\ ~dirty
    BY <1>3 DEF Done, OnCard, InputOpen
  <2>2. screen = "SETTINGS"
    BY <2>1 DEF ScreenInv, PortalScreen
  <2>3. (mpc = "idle" /\ queue = <<>>) \/ mpc \in {"dns", "httpd", "ap"}
    BY <2>1, <2>2, TapAt
  <2>4. /\ UNCHANGED <<screen, dirty, mode, window, mpc, after>>
        /\ queue' = Post(queue, "STOP") /\ modal' = "none"
    BY <1>3 DEF Done, TapUnchanged, pageVars, mainVars
  <2>5. CASE mode # "admin"
    BY <2>4, <2>5, QuietPost DEF Quiet
  <2>6. CASE mode = "admin"
    <3>1. mpc = "idle" /\ queue = <<>>
      BY <2>3, <2>6 DEF BaseInv, PageInv, OpenIsServed, Stopping, StopPhases
    <3>2. queue' = <<>> \/ (queue' # <<>> /\ Head(queue') = "STOP")
      BY <2>4, <3>1 DEF Post
    <3>3. ~Has(queue', "CARD_PIN")
      BY <2>4, <3>1, EmptyIsQuiet, PostKeepsOrder, <1>0 DEF Events
    <3>4. queue' = <<>> => ~Has(queue', "STOP") /\ QuietAfterStop(queue')
      BY EmptyIsQuiet
    <3> QED
      BY <2>2, <2>4, <2>6, <3>1, <3>2, <3>3, <3>4
         DEF ScreenInv, ReadScreen, TrialScreen, PinOrder, PinDrawn, StopBehind,
             StopNext, PortalScreen, WindowSet, Restarting, Stopping, StopPhases
  <2> QED
    BY <2>5, <2>6
<1>4. CASE CloseFailed
  <2>1. /\ UNCHANGED <<screen, dirty, mode, window, mpc, after, queue>>
        /\ modal' = "none"
    BY <1>4 DEF CloseFailed, TapUnchanged, pageVars, mainVars
  <2> QED
    BY <2>1, QuietPost DEF Quiet
<1>5. ASSUME NEW accept \in BOOLEAN, Answer(accept) PROVE ScreenInv'
  <2>1. /\ UNCHANGED <<screen, dirty, mode, window, mpc, after>>
        /\ modal' = "none"
        /\ \/ queue' \in {queue, Post(queue, "SET")}
           \/ queue' \in {queue, Post(queue, "NO")}
    BY <1>5 DEF Answer, CommitSlot, TapUnchanged, pageVars, mainVars
  <2> QED
    BY <2>1, QuietPost DEF Quiet
<1>6. CASE SubmitPin \/ CancelPin
  <2> USE DEF ScreenInv, ReadScreen, TrialScreen, PinOrder, PinDrawn,
              StopBehind, StopNext, PortalScreen, WindowSet, Restarting,
              Stopping
  <2>1. Blocked /\ screen = "PIN"
    BY <1>6 DEF SubmitPin, CancelPin, OnScreen, InputOpen
  <2>2. (mpc = "idle" /\ queue = <<>>) \/ mpc \in {"dns", "httpd", "ap"}
    BY <2>1, TapAt
  <2>3. /\ dirty' /\ UNCHANGED <<mode, window, mpc, after>>
        /\ \/ screen' = "CARD_WAIT" /\ queue' = Post(queue, "CARD_PIN")
           \/ screen' = "PROV" /\ queue' = Post(queue, "CANCEL")
    BY <1>6 DEF SubmitPin, CancelPin, Request, TapUnchanged, pageVars, mainVars
  <2>4. ~Restarting => IsQuiet(queue)
    BY <2>1, <2>2, EmptyIsQuiet DEF StopPhases
  <2>5. ~Restarting => ~Has(queue, "CARD_PIN")
    BY <2>1
  <2>6. ~Restarting => QuietUpToPin(queue)
    BY <2>4 DEF IsQuiet, QuietUpToPin
  <2>7. /\ ~Restarting /\ Has(queue', "CARD_PIN") => screen' = "CARD_WAIT"
        /\ ~Restarting => QuietUpToPin(queue')
    BY <1>0, <2>3, <2>4, <2>5, <2>6, PostKeepsOrder DEF Events
  <2>8. mode = "admin" => mpc = "idle" /\ queue = <<>>
    BY <2>2 DEF BaseInv, PageInv, OpenIsServed, StopPhases
  <2>9. mode = "admin" => ~Has(queue', "STOP") /\ QuietAfterStop(queue')
    BY <1>0, <2>3, <2>8, EmptyIsQuiet, PostKeepsOrder DEF Events
  <2>10. TrialScreen' /\ ReadScreen'
    BY <2>1, <2>2, <2>3 DEF StopPhases
  <2>11. PinOrder'
    BY <2>2, <2>3, <2>7
  <2>12. PinDrawn' /\ StopBehind' /\ PortalScreen' /\ WindowSet'
    BY <2>3, <2>9
  <2> QED
    BY <2>10, <2>11, <2>12
<1>7. CASE NewSale
  <2> USE DEF ScreenInv, ReadScreen, TrialScreen, PinOrder, PinDrawn,
              StopBehind, StopNext, PortalScreen, WindowSet, Restarting,
              Stopping
  <2>1. Blocked /\ screen = "FAILED"
    BY <1>7 DEF NewSale, OnScreen, InputOpen
  <2>2. (mpc = "idle" /\ queue = <<>>) \/ mpc \in {"dns", "httpd", "ap"}
    BY <2>1, TapAt
  <2>3. /\ queue' = Post(queue, "RETRY")
        /\ UNCHANGED <<screen, dirty, modal, mode, window, mpc, after>>
    BY <1>7 DEF NewSale, PanelAsWas, TapUnchanged, pageVars, mainVars
  <2>4. Has(queue', "CARD_PIN") => Has(queue, "CARD_PIN")
    BY <1>0, <2>3, PostKeepsOrder DEF Events
  <2>5. mode = "admin" => mpc = "idle" /\ queue = <<>>
    BY <2>2 DEF BaseInv, PageInv, OpenIsServed, StopPhases
  <2>6. mode = "admin" => ~Has(queue', "STOP") /\ QuietAfterStop(queue')
    BY <1>0, <2>3, <2>5, EmptyIsQuiet, PostKeepsOrder DEF Events
  <2>7. ~Restarting' => ~Has(queue', "CARD_PIN")
    BY <2>1, <2>3, <2>4
  <2> QED
    BY <2>1, <2>3, <2>6, <2>7
<1> QED
  BY <1>1, <1>2, <1>3, <1>4, <1>5, <1>6, <1>7 DEF Tap

LEMMA HttpKeepsScreen ==
    ASSUME BaseInv, ScreenInv, NoLate, HttpStep \/ WindowPasses
    PROVE  ScreenInv'
<1> USE DEF HttpUnchanged, pageVars, mainVars, panelVars
<1>0. queue \in Seq(Events)
  BY DEF BaseInv, TypeOK, QueueTypeOK
<1>1. ASSUME NEW e \in {"AUTH", "CARD", "TRY"}, queue' = Post(queue, e),
             window # "past",
             UNCHANGED <<pageVars, mainVars, panelVars>>
      PROVE  ScreenInv'
  <2> USE DEF ScreenInv, ReadScreen, TrialScreen, PinOrder, PinDrawn,
              StopBehind, StopNext, PortalScreen, WindowSet, Restarting,
              Stopping
  <2>1. /\ Has(queue', "CARD_PIN") => Has(queue, "CARD_PIN")
        /\ Has(queue', "STOP") => Has(queue, "STOP")
        /\ QuietUpToPin(queue) => QuietUpToPin(queue')
        /\ QuietAfterStop(queue) /\ ~Has(queue, "STOP")
              => QuietAfterStop(queue')
        /\ queue # <<>> => queue' # <<>> /\ Head(queue') = Head(queue)
    BY <1>0, <1>1, PostKeepsOrder DEF Events
  <2> QED
    BY <1>1, <2>1
<1>2. ASSUME \/ \E b \in Browsers : AuthPost(b) \/ CardPost(b)
             \/ WifiReceived
      PROVE  ScreenInv'
  <2>1. /\ UNCHANGED <<pageVars, mainVars, panelVars>> /\ window # "past"
        /\ \/ queue' = Post(queue, "AUTH") \/ queue' = Post(queue, "CARD")
           \/ queue' = Post(queue, "TRY")
    BY <1>2, NoLate DEF AuthPost, CardPost, Gate, WifiReceived, NoLate
  <2> QED
    BY <1>1, <2>1
<1>3. ASSUME \/ \E b \in Browsers : \/ WifiPost(b) \/ OtaPost(b)
                                    \/ \E v \in Addrs : ValuePost(b, v)
             \/ BodyReceived \/ BodyFails \/ UploadEnds
      PROVE  ScreenInv'
  <2>1. /\ UNCHANGED <<pageVars, mainVars, panelVars>>
        /\ queue' \in {queue, Post(queue, "VALUE")}
    BY <1>3 DEF WifiPost, OtaPost, ValuePost, BodyReceived, Propose, BodyFails,
                UploadEnds
  <2> QED
    BY <2>1, QuietPost DEF Quiet
<1>4. CASE WindowPasses
  BY <1>4 DEF WindowPasses, ScreenInv, ReadScreen, TrialScreen, PinOrder,
              PinDrawn, StopBehind, StopNext, PortalScreen, WindowSet,
              Restarting, Stopping
<1> QED
  BY <1>2, <1>3, <1>4 DEF HttpStep, ApiCall

LEMMA TakenKeepsOrder ==
    ASSUME BaseInv, NEW e, Take(e)
    PROVE  /\ Tail(queue) \in Seq(Events)
           /\ \A x : Has(Tail(queue), x) => Has(queue, x)
           /\ Has(queue, e)
           /\ Answered(Tail(queue)) => Answered(queue)
           /\ OneValue(queue) => OneValue(Tail(queue))
           /\ AnswersFirst(queue) => AnswersFirst(Tail(queue))
           /\ QuietUpToPin(queue) => QuietUpToPin(Tail(queue))
           /\ QuietAfterStop(queue) => QuietAfterStop(Tail(queue))
           /\ OneValue(queue) /\ e = "VALUE" => ~Has(Tail(queue), "VALUE")
           /\ AnswersFirst(queue) /\ e = "VALUE" => ~Answered(queue)
           /\ QuietUpToPin(queue) /\ e \notin Quiet
                 => ~Has(Tail(queue), "CARD_PIN")
           /\ QuietAfterStop(queue) /\ e = "STOP" => IsQuiet(Tail(queue))
BY TakeKeepsOrder, TakeType DEF BaseInv, TypeOK, QueueTypeOK, Take

(* The next event is taken, and the main task is idle again or in a wait.  *)
LEMMA HandlerKeepsScreen ==
    ASSUME BaseInv, ScreenInv,
           \/ HandleAuth \/ HandleValue \/ HandleCard \/ HandleCardPin
           \/ HandleTry \/ HandleNext \/ \E e \in Events : HandleBack(e)
    PROVE  ScreenInv'
<1> USE DEF ScreenInv, ReadScreen, TrialScreen, PinOrder, PinDrawn, StopBehind,
            StopNext, PortalScreen, WindowSet, Restarting, Stopping, StopPhases,
            Request, PageAsWas, PanelAsWas, MainUnchanged, pageVars, mainVars
<1>1. ASSUME NEW e, Take(e), e # "STOP", queue' = Tail(queue)
      PROVE  /\ Has(queue', "CARD_PIN") => Has(queue, "CARD_PIN")
             /\ Has(queue', "STOP") => Has(queue, "STOP")
             /\ QuietUpToPin(queue) => QuietUpToPin(queue')
             /\ QuietUpToPin(queue) /\ e \notin Quiet
                   => ~Has(queue', "CARD_PIN")
             /\ QuietAfterStop(queue) => QuietAfterStop(queue')
             /\ ~StopNext /\ mpc = "idle" /\ ~Restarting
             /\ e = "CARD_PIN" => Has(queue, "CARD_PIN")
             /\ mode = "admin" => \/ ~Has(queue', "STOP")
                                  \/ window = "past"
             /\ mode = "admin" => QuietAfterStop(queue')
  <2>1. mpc = "idle" /\ ~StopNext
    BY <1>1 DEF Take
  <2>2. /\ \A x : Has(queue', x) => Has(queue, x)
        /\ QuietUpToPin(queue) => QuietUpToPin(queue')
        /\ QuietUpToPin(queue) /\ e \notin Quiet
              => ~Has(queue', "CARD_PIN")
        /\ QuietAfterStop(queue) => QuietAfterStop(queue')
        /\ Has(queue, e)
    BY <1>1, TakenKeepsOrder
  <2> QED
    BY <2>1, <2>2
<1>2. CASE HandleAuth
  <2>1. /\ Take("AUTH") /\ queue' = Tail(queue)
        /\ screen' = "UNLOCK" /\ dirty' /\ UNCHANGED <<pageVars, mainVars>>
    BY <1>2 DEF HandleAuth
  <2>2. "AUTH" \notin Quiet
    BY DEF Quiet
  <2> QED
    BY <1>1, <2>1, <2>2
<1>3. CASE HandleValue
  <2>1. /\ Take("VALUE") /\ queue' = Tail(queue)
        /\ UNCHANGED <<pageVars, mainVars, screen, dirty, modal>>
    BY <1>3 DEF HandleValue
  <2> QED
    BY <1>1, <2>1
<1>4. CASE HandleCard
  <2>1. /\ Take("CARD") /\ queue' = Tail(queue)
        /\ screen' = "PIN" /\ dirty' /\ UNCHANGED <<pageVars, mainVars>>
    BY <1>4 DEF HandleCard
  <2>2. "CARD" \notin Quiet
    BY DEF Quiet
  <2> QED
    BY <1>1, <2>1, <2>2
<1>5. CASE HandleCardPin
  <2>1. /\ Take("CARD_PIN") /\ queue' = Tail(queue)
        /\ mpc' = "read"
        /\ UNCHANGED <<pageVars, after, screen, dirty, modal>>
    BY <1>5 DEF HandleCardPin, panelVars
  <2>2. "CARD_PIN" \notin Quiet
    BY DEF Quiet
  <2> QED
    BY <1>1, <2>1, <2>2
<1>6. CASE HandleTry
  <2>1. /\ Take("TRY") /\ queue' = Tail(queue)
        /\ mpc' = "trial" /\ screen' = "CONNECTING" /\ dirty'
        /\ UNCHANGED <<mode, window, after>>
    BY <1>6 DEF HandleTry
  <2>2. "TRY" \notin Quiet
    BY DEF Quiet
  <2> QED
    BY <1>1, <2>1, <2>2
<1>7. ASSUME NEW e \in Events, HandleBack(e) PROVE ScreenInv'
  <2>1. /\ Take(e) /\ queue' = Tail(queue) /\ e \in {"CANCEL", "RETRY"}
        /\ screen' = "AMOUNT" /\ dirty' /\ UNCHANGED <<pageVars, mainVars>>
    BY <1>7 DEF HandleBack
  <2>2. e \notin Quiet /\ e # "STOP"
    BY <2>1 DEF Quiet
  <2> QED
    BY <1>1, <2>1, <2>2
<1>8. CASE HandleNext
  <2>1. /\ Take("NEXT") /\ queue' = Tail(queue)
        /\ UNCHANGED <<pageVars, mainVars, screen, dirty, modal>>
    BY <1>8 DEF HandleNext, panelVars
  <2> QED
    BY <1>1, <2>1
<1> QED
  BY <1>2, <1>3, <1>4, <1>5, <1>6, <1>7, <1>8

LEMMA AnswerKeepsScreen ==
    ASSUME BaseInv, ScreenInv, NEW e \in Events, HandleAnswer(e)
    PROVE  ScreenInv'
<1> USE DEF ScreenInv, ReadScreen, TrialScreen, PinOrder, PinDrawn, StopBehind,
            StopNext, PortalScreen, WindowSet, Restarting, Stopping, StopPhases
<1>1. Take(e) /\ e \in {"SET", "NO"} /\ mpc = "idle"
  BY DEF HandleAnswer, Take
<1>2. UNCHANGED <<screen, dirty, modal>>
  BY DEF HandleAnswer, panelVars
<1>3. CASE UNCHANGED <<mpc, after, pageVars>>
  <2>1. queue' \in {Tail(queue), Post(Tail(queue), "VALUE")}
    BY DEF HandleAnswer, Propose
  <2>2. /\ Tail(queue) \in Seq(Events)
        /\ \A x : Has(Tail(queue), x) => Has(queue, x)
        /\ QuietUpToPin(queue) => QuietUpToPin(Tail(queue))
        /\ QuietAfterStop(queue) => QuietAfterStop(Tail(queue))
    BY <1>1, TakenKeepsOrder
  <2>3. "VALUE" \in Events /\ "VALUE" \in Quiet
    BY DEF Events, Quiet
  <2>4. /\ Has(queue', "CARD_PIN") => Has(queue, "CARD_PIN")
        /\ Has(queue', "STOP") => Has(queue, "STOP")
        /\ QuietUpToPin(queue) => QuietUpToPin(queue')
        /\ QuietAfterStop(queue) => QuietAfterStop(queue')
    BY <2>1, <2>2, <2>3, PostKeepsOrder
  <2>5. ~StopNext
    BY <1>1 DEF Take
  <2> QED
    BY <1>1, <1>2, <1>3, <2>4, <2>5 DEF pageVars
<1>4. CASE ~UNCHANGED <<mpc, after, pageVars>>
  <2>1. /\ mode' = "off"
        /\ \/ mpc' = "dns" /\ after' = "restart"
           \/ mpc' = "restart"
    BY <1>4 DEF HandleAnswer, ClaimStop, PageAsWas, pageVars
  <2> QED
    BY <1>2, <2>1
<1> QED
  BY <1>3, <1>4

LEMMA WaitKeepsScreen ==
    ASSUME BaseInv, ScreenInv,
           ReadFails \/ ReadDone \/ Offer \/ TryKept \/ TryDropped
    PROVE  ScreenInv'
<1> USE DEF ScreenInv, ReadScreen, TrialScreen, PinOrder, PinDrawn, StopBehind,
            StopNext, PortalScreen, WindowSet, Restarting, Stopping, StopPhases,
            Request, PageAsWas, PanelAsWas, MainUnchanged, pageVars
<1>1. CASE ReadFails \/ ReadDone
  <2>1. /\ mpc = "read" /\ mpc' \in {"idle", "offer"}
        /\ dirty' /\ screen' \in {"FAILED", "AMOUNT"}
        /\ UNCHANGED <<mode, window, after, queue>>
    BY <1>1 DEF ReadFails, ReadDone
  <2> QED
    BY <2>1
<1>2. CASE Offer
  <2>1. /\ mpc = "offer" /\ mpc' = "idle"
        /\ UNCHANGED <<mode, window, after, screen, dirty, modal>>
        /\ queue' \in {queue, Post(queue, "VALUE")}
    BY <1>2 DEF Offer, Propose, panelVars
  <2>2. queue \in Seq(Events) /\ "VALUE" \in Events /\ "VALUE" \in Quiet
    BY DEF BaseInv, TypeOK, QueueTypeOK, Events, Quiet
  <2>3. /\ Has(queue', "CARD_PIN") => Has(queue, "CARD_PIN")
        /\ Has(queue', "STOP") => Has(queue, "STOP")
        /\ QuietUpToPin(queue) => QuietUpToPin(queue')
        /\ QuietAfterStop(queue) => QuietAfterStop(queue')
    BY <2>1, <2>2, PostKeepsOrder
  <2> QED
    BY <2>1, <2>3
<1>3. CASE TryKept
  <2>1. /\ mpc = "trial" /\ UNCHANGED <<queue, modal, window>>
        /\ \/ /\ mode' = "off" /\ mpc' = "dns" /\ after' = "amount"
              /\ UNCHANGED <<screen, dirty>>
           \/ /\ mpc' = "idle" /\ mode' = "off" /\ dirty' /\ screen' = "AMOUNT"
    BY <1>3 DEF TryKept, ClaimStop
  <2> QED
    BY <2>1
<1>4. CASE TryDropped
  <2>1. /\ mpc = "trial" /\ mpc' = "idle" /\ dirty' /\ screen' = "LIST"
        /\ UNCHANGED <<mode, window, after, queue>>
    BY <1>4 DEF TryDropped
  <2> QED
    BY <2>1
<1> QED
  BY <1>1, <1>2, <1>3, <1>4

LEMMA StopKeepsScreen ==
    ASSUME BaseInv, ScreenInv, HandleStop \/ Stop \/ Restart
    PROVE  ScreenInv'
<1> USE DEF ScreenInv, ReadScreen, TrialScreen, PinOrder, PinDrawn, StopBehind,
            StopNext, PortalScreen, WindowSet, Restarting, Stopping, StopPhases,
            Request, PageAsWas, PanelAsWas, MainUnchanged, StopUnchanged,
            pageVars
<1>1. CASE HandleStop
  <2>1. /\ Take("STOP") /\ queue' = Tail(queue) /\ mpc = "idle"
        /\ UNCHANGED <<screen, dirty, modal, window>>
        /\ mode' = "off"
        /\ \/ mode = "admin" /\ mpc' = "dns" /\ after' = "idle"
           \/ mode = "off" /\ UNCHANGED <<mpc, after>>
    BY <1>1 DEF HandleStop, ClaimStop, Take, panelVars, BaseInv, TypeOK,
                PageTypeOK
  <2>2. /\ Has(queue', "CARD_PIN") => Has(queue, "CARD_PIN")
        /\ Has(queue, "STOP")
        /\ QuietUpToPin(queue) => QuietUpToPin(queue')
        /\ QuietAfterStop(queue) => IsQuiet(queue')
    BY <2>1, TakenKeepsOrder
  <2> QED
    BY <2>1, <2>2
<1>2. CASE DnsGone
  BY <1>2 DEF DnsGone, panelVars
<1>3. CASE ServerStops
  BY <1>3 DEF ServerStops, panelVars
<1>4. CASE ApDown
  BY <1>4 DEF ApDown, panelVars
<1>5. CASE ClearSession
  <2>1. mode' = "off"
    BY <1>5 DEF ClearSession, BaseInv, TypeOK, PageTypeOK, PageInv, OpenIsServed
  <2>2. /\ UNCHANGED <<queue, modal, after>> /\ mpc = "clear"
        /\ mpc' = IF after = "restart" THEN "restart" ELSE "idle"
    BY <1>5 DEF ClearSession
  <2>3. \/ UNCHANGED <<screen, dirty>>
        \/ after = "amount" /\ screen = "CONNECTING" /\ dirty'
    BY <1>5 DEF ClearSession
  <2> QED
    BY <2>1, <2>2, <2>3
<1>6. CASE Restart
  <2>1. /\ mpc' = "idle" /\ after' = "idle" /\ mode' = "off"
        /\ modal' = "none" /\ queue' = <<>>
    BY <1>6 DEF Restart, Fresh
  <2> QED
    BY <2>1, EmptyIsQuiet
<1> QED
  BY <1>1, <1>2, <1>3, <1>4, <1>5, <1>6 DEF Stop

LEMMA ScreenStep ==
    ASSUME NoReopen, NoLate
    PROVE  BaseInv /\ ScreenInv /\ [Next]_vars => ScreenInv'
<1> SUFFICES ASSUME BaseInv, ScreenInv, [Next]_vars PROVE ScreenInv'
  OBVIOUS
<1>1. CASE UiPass \/ Swipe \/ Tap
  BY <1>1, NoReopen, UiKeepsScreen, TapKeepsScreen
<1>2. CASE HttpStep \/ WindowPasses
  BY <1>2, NoLate, HttpKeepsScreen
<1>3. CASE MainStep
  BY <1>3, HandlerKeepsScreen, AnswerKeepsScreen, WaitKeepsScreen,
     StopKeepsScreen DEF MainStep
<1>4. CASE UNCHANGED vars
  <2>1. UNCHANGED <<queue, screen, dirty, modal, mode, window, mpc, after>>
    BY <1>4 DEF vars, pageVars, mainVars, panelVars
  <2> QED
    BY <2>1, QuietPost DEF Quiet
<1> QED
  BY <1>1, <1>2, <1>3, <1>4 DEF Next

-------------------------------------------------------------------------------
(* The card and the slot. The slot has one writer at a time as long as     *)
(* every proposal is on its way to the panel, or on it; what breaks that   *)
(* is prov_stop, which empties the slot under a card.                      *)

(* A value card nothing drawn is about to take down.                       *)
Up == modal = "value" /\ ~dirty

(* A page is up, or coming down, and what is queued will be read.          *)
Live == (mode = "admin" \/ Stopping) /\ ~Restarting

(* The card that is up shows what the slot holds.                          *)
CardIsSlot == Up /\ ask # NoAddr => card = ask

(* Under a card that lost its slot nobody is left to fill it: no browser,  *)
(* and no answer that would bring out the address parked behind it.        *)
StrayCard == Up /\ ask = NoAddr
                => ~running /\ (Restarting \/ ~Answered(queue))

(* A card read offers its addresses under no card, or with the slot taken. *)
OfferClear == mpc = "offer" /\ Up => ask # NoAddr

(* A proposal is in one place: queued, due on the panel, or shown.         *)
OneCard ==
    Live => /\ OneValue(queue)
            /\ Has(queue, "VALUE") => ~valueDirty /\ ~Up /\ ask # NoAddr
            /\ valueDirty => ~Up /\ ask # NoAddr
            /\ Up => ask # NoAddr

(* Nothing is shown until the answer to what was shown before is read.     *)
AnswerOrder ==
    Live => /\ AnswersFirst(queue)
            /\ Answered(queue) => ~Up /\ ~valueDirty

CardInv == CardIsSlot /\ StrayCard /\ OfferClear /\ OneCard /\ AnswerOrder

PanelInv == BaseInv /\ ScreenInv /\ CardInv

LEMMA PanelAtStart == Init => PanelInv
<1> SUFFICES ASSUME Init PROVE PanelInv
  OBVIOUS
<1>1. BaseInv
  BY TypeAtStart, PageAtStart DEF BaseInv
<1>2. /\ mpc = "idle" /\ after = "idle" /\ mode = "off" /\ queue = <<>>
      /\ screen = "AMOUNT" /\ dirty /\ ~valueDirty
  BY DEF Init
<1>3. ScreenInv
  BY <1>2, EmptyIsQuiet
     DEF ScreenInv, ReadScreen, TrialScreen, PinOrder, PinDrawn, StopBehind,
         PortalScreen, WindowSet, Stopping, StopPhases
<1>4. CardInv
  BY <1>2 DEF CardInv, CardIsSlot, StrayCard, OfferClear, OneCard, AnswerOrder,
              Up, Live, Stopping, StopPhases
<1> QED
  BY <1>1, <1>3, <1>4 DEF PanelInv

(* A step that proposes nothing, answers nothing and shows nothing.        *)
LEMMA CardUntouched ==
    ASSUME CardInv, ask' = ask, valueDirty' => valueDirty,
           Up' => Up /\ card' = card,
           Live' => Live, Restarting => Restarting', running' => running,
           mpc' = "offer" /\ Up' => mpc = "offer",
           Has(queue', "VALUE") => Has(queue, "VALUE"),
           Answered(queue') => Answered(queue),
           OneValue(queue) => OneValue(queue'),
           AnswersFirst(queue) => AnswersFirst(queue')
    PROVE  CardInv'
BY DEF CardInv, CardIsSlot, StrayCard, OfferClear, OneCard, AnswerOrder

(* ... but queues an event that is neither a proposal nor an answer.       *)
LEMMA OtherQueued ==
    ASSUME BaseInv, NEW e \in Events \ {"VALUE", "SET", "NO"},
           queue' \in {queue, Post(queue, e)}
    PROVE  /\ Has(queue', "VALUE") => Has(queue, "VALUE")
           /\ Answered(queue') => Answered(queue)
           /\ OneValue(queue) => OneValue(queue')
           /\ AnswersFirst(queue) => AnswersFirst(queue')
<1>1. queue \in Seq(Events) /\ e \in Events
  BY DEF BaseInv, TypeOK, QueueTypeOK
<1> QED
  BY <1>1, PostKeepsOrder DEF Answers

(* prov_propose into an empty slot, with no card that is not its own: the  *)
(* proposal is the only one.                                               *)
LEMMA Proposed ==
    ASSUME BaseInv, CardInv, ask = NoAddr, ~Up,
           UNCHANGED <<mode, running, after, dirty, valueDirty, modal, card>>,
           mpc' = mpc \/ (mpc = "offer" /\ mpc' = "idle"),
           NEW q \in Seq(Events),
           Has(q, "VALUE") => Has(queue, "VALUE"),
           Answered(q) => Answered(queue),
           OneValue(queue) => OneValue(q),
           AnswersFirst(queue) => AnswersFirst(q),
           queue' = Post(q, "VALUE"), ask' # NoAddr
    PROVE  CardInv'
<1> USE DEF CardInv, CardIsSlot, StrayCard, OfferClear, OneCard, AnswerOrder
<1>1. ~Up' /\ (Live' => Live)
  BY DEF Up, Live, Restarting, Stopping, StopPhases
<1>2. "VALUE" \in Events /\ "VALUE" \notin Answers
  BY DEF Events, Answers
<1>3. /\ Answered(queue') => Answered(q)
      /\ OneValue(q) /\ ~Has(q, "VALUE") => OneValue(queue')
      /\ AnswersFirst(q) => AnswersFirst(queue')
  BY <1>2, PostKeepsOrder
<1>4. Live => ~valueDirty /\ ~Has(q, "VALUE")
  OBVIOUS
<1> QED
  BY <1>1, <1>3, <1>4

LEMMA UiKeepsCard ==
    ASSUME PanelInv, UiPass \/ Swipe
    PROVE  CardInv'
<1> USE DEF Up, Live, Restarting, Stopping, pageVars, mainVars
<1>1. CASE Render
  BY <1>1, CardUntouched DEF Render, PanelInv
<1>2. CASE ShowValue
  <2>1. /\ ~dirty /\ valueDirty /\ ~valueDirty' /\ UNCHANGED <<dirty, queue>>
        /\ UNCHANGED <<ask, mode, running, mpc, after>>
        /\ \/ ask # NoAddr /\ modal' = "value" /\ card' = ask
           \/ ask = NoAddr /\ UNCHANGED <<modal, card>>
    BY <1>2 DEF ShowValue, ValueCard
  <2> QED
    BY <2>1 DEF PanelInv, CardInv, CardIsSlot, StrayCard, OfferClear, OneCard,
                AnswerOrder
<1>3. CASE DeadlineStop
  <2>1. "STOP" \in Events \ {"VALUE", "SET", "NO"}
    BY DEF Events
  <2>2. queue' = Post(queue, "STOP")
    BY <1>3 DEF DeadlineStop
  <2>3. /\ Has(queue', "VALUE") => Has(queue, "VALUE")
        /\ Answered(queue') => Answered(queue)
        /\ OneValue(queue) => OneValue(queue')
        /\ AnswersFirst(queue) => AnswersFirst(queue')
    BY <2>1, <2>2, OtherQueued DEF PanelInv
  <2> QED
    BY <1>3, <2>3, CardUntouched DEF DeadlineStop, PanelInv
<1>4. CASE Swipe
  BY <1>4, CardUntouched DEF Swipe, Request, PanelInv
<1> QED
  BY <1>1, <1>2, <1>3, <1>4 DEF UiPass

LEMMA TapKeepsCard ==
    ASSUME PanelInv, NoReopen, Tap
    PROVE  CardInv'
<1> USE DEF Up, Live, Restarting, Stopping, pageVars, mainVars, TapUnchanged,
            PanelAsWas, Request
<1>1. CASE EnterCode \/ CancelCode \/ BackToAmount \/ CloseFailed
  <2>1. /\ UNCHANGED <<ask, mode, running, mpc, after, valueDirty, card>>
        /\ queue' \in {queue, Post(queue, "NEXT")}
        /\ dirty' \/ dirty' = dirty
        /\ modal' \in {modal, "none"}
    BY <1>1 DEF EnterCode, CancelCode, Resolve, BackToAmount, CloseFailed
  <2>2. /\ Has(queue', "VALUE") => Has(queue, "VALUE")
        /\ Answered(queue') => Answered(queue)
        /\ OneValue(queue) => OneValue(queue')
        /\ AnswersFirst(queue) => AnswersFirst(queue')
    BY <2>1, OtherQueued DEF PanelInv, Events
  <2> QED
    BY <2>1, <2>2, CardUntouched DEF PanelInv
<1>2. CASE Configure
  <2>1. Blocked /\ screen = "SETTINGS" /\ ~valueDirty /\ ~Stopping
    BY <1>2 DEF Configure, OnScreen, InputOpen, NoReopen
  <2>2. queue = <<>> /\ mpc = "idle"
    BY <2>1, TapAt DEF PanelInv, StopPhases
  <2>3. /\ modal' # "value"
        /\ UNCHANGED <<queue, valueDirty, mpc, after>>
    BY <1>2 DEF Configure, StartFromOff, ApRefused, ServerRefused, Served,
                StartAgain
  <2> QED
    BY <2>1, <2>2, <2>3, EmptyIsQuiet
       DEF CardInv, CardIsSlot, StrayCard, OfferClear, OneCard, AnswerOrder
<1>3. ASSUME NEW e \in {"STOP", "CARD_PIN", "CANCEL", "RETRY"},
             queue' = Post(queue, e)
      PROVE  /\ Has(queue', "VALUE") => Has(queue, "VALUE")
             /\ Answered(queue') => Answered(queue)
             /\ OneValue(queue) => OneValue(queue')
             /\ AnswersFirst(queue) => AnswersFirst(queue')
  <2>1. e \in Events \ {"VALUE", "SET", "NO"}
    BY <1>3 DEF Events
  <2> QED
    BY <1>3, <2>1, OtherQueued DEF PanelInv
<1>4. CASE Done
  BY <1>3, <1>4, CardUntouched DEF Done, PanelInv
<1>5. CASE SubmitPin
  BY <1>3, <1>5, CardUntouched DEF SubmitPin, PanelInv
<1>6. CASE CancelPin
  BY <1>3, <1>6, CardUntouched DEF CancelPin, PanelInv
<1>7. CASE NewSale
  BY <1>3, <1>7, CardUntouched DEF NewSale, PanelInv
<1>8. ASSUME NEW accept \in BOOLEAN, Answer(accept) PROVE CardInv'
  <2>1. /\ Up /\ ~valueDirty /\ ask' = NoAddr /\ ~Up'
        /\ UNCHANGED <<mode, running, mpc, after, valueDirty>>
    BY <1>8 DEF Answer, OnCard, InputOpen
  <2>2. \E e \in Answers : queue' \in {queue, Post(queue, e)}
    BY <1>8 DEF Answer, CommitSlot, Answers
  <2>3. queue \in Seq(Events) /\ Answers \subseteq Events
        /\ "VALUE" \notin Answers
    BY DEF PanelInv, BaseInv, TypeOK, QueueTypeOK, Answers, Events
  <2>4. /\ Has(queue', "VALUE") => Has(queue, "VALUE")
        /\ OneValue(queue) => OneValue(queue')
        /\ AnswersFirst(queue) /\ ~Has(queue, "VALUE") => AnswersFirst(queue')
    BY <2>2, <2>3, PostKeepsOrder
  <2> QED
    BY <2>1, <2>4 DEF PanelInv, CardInv, CardIsSlot, StrayCard, OfferClear,
                      OneCard, AnswerOrder
<1> QED
  BY <1>1, <1>2, <1>4, <1>5, <1>6, <1>7, <1>8 DEF Tap

LEMMA HttpKeepsCard ==
    ASSUME PanelInv, HttpStep \/ WindowPasses
    PROVE  CardInv'
<1> USE DEF HttpUnchanged, Up, Live, Restarting, Stopping, pageVars, mainVars,
            panelVars
<1>1. ASSUME NEW e \in {"AUTH", "CARD", "TRY"},
             queue' \in {queue, Post(queue, e)},
             UNCHANGED <<ask, mode, running, mainVars, panelVars>>
      PROVE  CardInv'
  <2>1. e \in Events \ {"VALUE", "SET", "NO"}
    BY <1>1 DEF Events
  <2>2. /\ Has(queue', "VALUE") => Has(queue, "VALUE")
        /\ Answered(queue') => Answered(queue)
        /\ OneValue(queue) => OneValue(queue')
        /\ AnswersFirst(queue) => AnswersFirst(queue')
    BY <1>1, <2>1, OtherQueued DEF PanelInv
  <2> QED
    BY <1>1, <2>2, CardUntouched DEF PanelInv
<1>2. ASSUME \/ WindowPasses \/ WifiReceived \/ BodyFails \/ UploadEnds
             \/ \E b \in Browsers : \/ AuthPost(b) \/ CardPost(b) \/ WifiPost(b)
                                    \/ OtaPost(b)
                                    \/ \E v \in Addrs : ValuePost(b, v)
      PROVE  CardInv'
  <2>1. /\ UNCHANGED <<ask, mode, running, mainVars, panelVars>>
        /\ \/ queue' \in {queue, Post(queue, "AUTH")}
           \/ queue' \in {queue, Post(queue, "CARD")}
           \/ queue' \in {queue, Post(queue, "TRY")}
    BY <1>2 DEF WindowPasses, WifiReceived, BodyFails, UploadEnds, AuthPost,
                CardPost, WifiPost, OtaPost, ValuePost
  <2> QED
    BY <1>1, <2>1
<1>3. CASE BodyReceived
  <2>1. UNCHANGED <<mode, running, mainVars, panelVars>> /\ http = "body"
    BY <1>3 DEF BodyReceived
  <2>2. CASE UNCHANGED <<ask, queue>>
    BY <1>1, <2>1, <2>2
  <2>3. CASE ~UNCHANGED <<ask, queue>>
    <3>1. ask = NoAddr /\ ask' # NoAddr /\ queue' = Post(queue, "VALUE")
      BY <1>3, <2>3 DEF BodyReceived, Propose
    <3>2. running
      BY <2>1 DEF PanelInv, BaseInv, PageInv, RequestIsServed
    <3>3. ~Up
      BY <3>1, <3>2 DEF PanelInv, CardInv, StrayCard
    <3>4. queue \in Seq(Events)
      BY DEF PanelInv, BaseInv, TypeOK, QueueTypeOK
    <3> QED
      BY <2>1, <3>1, <3>3, <3>4, Proposed DEF PanelInv
  <2> QED
    BY <2>2, <2>3
<1> QED
  BY <1>2, <1>3 DEF HttpStep, ApiCall

LEMMA MainKeepsCard ==
    ASSUME PanelInv, MainStep
    PROVE  CardInv'
<1> USE DEF Up, Live, Restarting, Stopping, StopPhases, Request, PageAsWas,
            PanelAsWas, StopUnchanged, pageVars, mainVars, panelVars
<1>1. ASSUME NEW e, Take(e), queue' = Tail(queue)
      PROVE  /\ Has(queue', "VALUE") => Has(queue, "VALUE")
             /\ Answered(queue') => Answered(queue)
             /\ OneValue(queue) => OneValue(queue')
             /\ AnswersFirst(queue) => AnswersFirst(queue')
             /\ mpc = "idle"
  BY <1>1, TakenKeepsOrder DEF PanelInv, Take
<1>2. CASE HandleAuth
  BY <1>1, <1>2, CardUntouched DEF HandleAuth, PanelInv
<1>3. CASE HandleCard
  BY <1>1, <1>3, CardUntouched DEF HandleCard, PanelInv
<1>4. CASE HandleCardPin
  BY <1>1, <1>4, CardUntouched DEF HandleCardPin, PanelInv
<1>5. CASE HandleTry \/ HandleNext
  BY <1>1, <1>5, CardUntouched DEF HandleTry, HandleNext, PanelInv
<1>6. ASSUME NEW e \in Events, HandleBack(e) PROVE CardInv'
  BY <1>1, <1>6, CardUntouched DEF HandleBack, PanelInv
<1>7. CASE HandleStop
  <2>1. /\ Take("STOP") /\ queue' = Tail(queue) /\ UNCHANGED panelVars
        /\ UNCHANGED <<ask, running>> /\ mpc' # "offer"
        /\ Live' => Live
    BY <1>7 DEF HandleStop, ClaimStop, Take, PanelInv, BaseInv, TypeOK,
                PageTypeOK
  <2> QED
    BY <1>1, <2>1, CardUntouched DEF PanelInv
<1>8. CASE HandleValue
  <2>1. /\ Take("VALUE") /\ queue' = Tail(queue) /\ valueDirty' /\ mpc = "idle"
        /\ UNCHANGED <<mode, running, mpc, after, ask, dirty, modal, card>>
    BY <1>8 DEF HandleValue, Take
  <2>2. /\ Has(queue, "VALUE")
        /\ OneValue(queue) => OneValue(queue') /\ ~Has(queue', "VALUE")
        /\ AnswersFirst(queue) => AnswersFirst(queue') /\ ~Answered(queue)
        /\ Answered(queue') => Answered(queue)
    BY <2>1, TakenKeepsOrder DEF PanelInv
  <2> QED
    BY <2>1, <2>2 DEF PanelInv, CardInv, CardIsSlot, StrayCard, OfferClear,
                      OneCard, AnswerOrder
<1>9. ASSUME NEW e \in Events, HandleAnswer(e) PROVE CardInv'
  <2>1. Take(e) /\ mpc = "idle" /\ e \in {"SET", "NO"}
    BY <1>9 DEF HandleAnswer, Take
  <2>2. UNCHANGED panelVars
    BY <1>9 DEF HandleAnswer
  <2>3. CASE ask' = ask
    <3>1. queue' = Tail(queue) /\ running' = running /\ mpc' # "offer"
      BY <1>9, <2>1, <2>3 DEF HandleAnswer, Propose, ClaimStop
    <3>2. \/ UNCHANGED <<mode, mpc, after>>
          \/ mode' = "off" /\ (mpc' = "restart" \/ after' = "restart")
      BY <1>9 DEF HandleAnswer, ClaimStop
    <3>3. Live' => Live
      BY <2>1, <3>2
    <3> QED
      BY <1>1, <2>1, <2>2, <2>3, <3>1, <3>3, CardUntouched DEF PanelInv
  <2>4. CASE ask' # ask
    <3>1. /\ ask = NoAddr /\ ask' # NoAddr
          /\ queue' = Post(Tail(queue), "VALUE")
          /\ UNCHANGED <<mode, running, after, mpc>>
      BY <1>9, <2>4 DEF HandleAnswer, Propose, ClaimStop
    <3>2. /\ Tail(queue) \in Seq(Events)
          /\ Has(Tail(queue), "VALUE") => Has(queue, "VALUE")
          /\ Answered(Tail(queue)) => Answered(queue)
          /\ OneValue(queue) => OneValue(Tail(queue))
          /\ AnswersFirst(queue) => AnswersFirst(Tail(queue))
          /\ Answered(queue)
      BY <2>1, TakenKeepsOrder DEF PanelInv, Answered
    <3>3. ~Up
      BY <2>1, <3>1, <3>2 DEF PanelInv, CardInv, StrayCard
    <3> QED
      BY <2>2, <3>1, <3>2, <3>3, Proposed DEF PanelInv
  <2> QED
    BY <2>3, <2>4
<1>10. CASE ReadFails \/ ReadDone \/ TryDropped
  BY <1>10, CardUntouched DEF ReadFails, ReadDone, TryDropped, PanelInv
<1>11. CASE TryKept
  <2>1. /\ UNCHANGED <<ask, queue, valueDirty, modal, card, running>>
        /\ Up' => Up
        /\ mpc = "trial" /\ mpc' # "offer"
        /\ Live' => Live
    BY <1>11 DEF TryKept, ClaimStop, PanelInv, BaseInv, TypeOK, PageTypeOK
  <2> QED
    BY <2>1, CardUntouched DEF PanelInv
<1>12. CASE Offer
  <2>1. /\ mpc = "offer" /\ mpc' = "idle"
        /\ UNCHANGED <<mode, running, after, panelVars>>
    BY <1>12 DEF Offer
  <2>2. CASE UNCHANGED <<ask, queue>>
    BY <2>1, <2>2, CardUntouched DEF PanelInv
  <2>3. CASE ~UNCHANGED <<ask, queue>>
    <3>1. ask = NoAddr /\ ask' # NoAddr /\ queue' = Post(queue, "VALUE")
      BY <1>12, <2>3 DEF Offer, Propose
    <3>2. ~Up
      BY <2>1, <3>1 DEF PanelInv, CardInv, OfferClear
    <3>3. queue \in Seq(Events)
      BY DEF PanelInv, BaseInv, TypeOK, QueueTypeOK
    <3> QED
      BY <2>1, <3>1, <3>2, <3>3, Proposed DEF PanelInv
  <2> QED
    BY <2>2, <2>3
<1>13. CASE DnsGone \/ ApDown
  BY <1>13, CardUntouched DEF DnsGone, ApDown, PanelInv
<1>14. CASE ServerStops
  BY <1>14, CardUntouched DEF ServerStops, PanelInv
<1>15. CASE ClearSession
  <2>1. /\ ask' = NoAddr /\ mpc = "clear"
        /\ mpc' = IF after = "restart" THEN "restart" ELSE "idle"
        /\ UNCHANGED <<mode, running, after, queue, valueDirty, modal>>
        /\ Up' => Up
    BY <1>15 DEF ClearSession
  <2>2. mode = "off" /\ ~running
    BY <2>1 DEF PanelInv, BaseInv, TypeOK, PageTypeOK, PageInv, OpenIsServed,
                StopOrder
  <2>3. ~Live' /\ mpc' # "offer"
    BY <2>1, <2>2
  <2>4. Up' => Restarting' \/ ~Answered(queue')
    <3>1. CASE after = "restart"
      BY <2>1, <3>1
    <3>2. CASE after # "restart"
      BY <2>1, <3>2 DEF PanelInv, CardInv, AnswerOrder
    <3> QED
      BY <3>1, <3>2
  <2> QED
    BY <2>1, <2>2, <2>3, <2>4
       DEF CardInv, CardIsSlot, StrayCard, OfferClear, OneCard, AnswerOrder
<1>16. CASE Restart
  <2>1. modal' = "none" /\ mpc' = "idle" /\ mode' = "off"
    BY <1>16 DEF Restart, Fresh
  <2> QED
    BY <2>1 DEF CardInv, CardIsSlot, StrayCard, OfferClear, OneCard, AnswerOrder
<1> QED
  BY <1>2, <1>3, <1>4, <1>5, <1>6, <1>7, <1>8, <1>9, <1>10, <1>11, <1>12,
     <1>13, <1>14, <1>15, <1>16 DEF MainStep, Stop

LEMMA PanelStep ==
    ASSUME NoReopen, NoLate PROVE PanelInv /\ [Next]_vars => PanelInv'
<1> SUFFICES ASSUME PanelInv, [Next]_vars PROVE PanelInv'
  OBVIOUS
<1>1. BaseInv'
  BY NoReopen, PageStep, PageTypeStep, QueueTypeStep, PanelTypeStep,
     ValueTypeStep, CounterTypeStep DEF PanelInv, BaseInv, TypeOK
<1>2. ScreenInv'
  BY NoReopen, NoLate, ScreenStep DEF PanelInv
<1>3. ASSUME UNCHANGED vars PROVE CardInv'
  <2>1. UNCHANGED <<ask, mode, running, mpc, after, queue, dirty, valueDirty,
                    modal, card>>
    BY <1>3 DEF vars, pageVars, mainVars, panelVars
  <2> QED
    BY <2>1, CardUntouched DEF PanelInv, Up, Live, Restarting, Stopping
<1>4. CardInv'
  BY <1>3, NoReopen, UiKeepsCard, TapKeepsCard, HttpKeepsCard, MainKeepsCard
     DEF Next
<1> QED
  BY <1>1, <1>2, <1>4 DEF PanelInv

(* The stored addresses change by nothing but Answer.                      *)
LEMMA StoreIsAnswered ==
    ASSUME [Next]_vars, stored' # stored
    PROVE  /\ Answer(TRUE) \/ Answer(FALSE)
           /\ ask # NoAddr /\ stored' = [stored EXCEPT ![Family(ask)] = ask]
<1> USE DEF flashVars, PageAsWas, MainUnchanged, HttpUnchanged
<1>1. CASE UiPass \/ Swipe \/ WindowPasses \/ UNCHANGED vars
  BY <1>1 DEF UiPass, Render, ShowValue, DeadlineStop, Swipe, WindowPasses, vars
<1>2. ASSUME NEW accept \in BOOLEAN, Answer(accept)
      PROVE  /\ Answer(TRUE) \/ Answer(FALSE)
             /\ ask # NoAddr /\ stored' = [stored EXCEPT ![Family(ask)] = ask]
  BY <1>2 DEF Answer, CommitSlot
<1>3. CASE Tap
  BY <1>2, <1>3
     DEF Tap, EnterCode, CancelCode, Configure, Done, CloseFailed, SubmitPin,
         CancelPin, NewSale, BackToAmount
<1>4. CASE HttpStep
  BY <1>4 DEF HttpStep, ApiCall, AuthPost, ValuePost, CardPost, WifiPost,
              OtaPost, BodyReceived, WifiReceived, BodyFails, UploadEnds
<1>5. CASE MainStep
  BY <1>5 DEF MainStep, HandleAuth, HandleValue, HandleCard, HandleCardPin,
              HandleTry, HandleStop, HandleNext, HandleAnswer, HandleBack,
              ReadFails,
              ReadDone, Offer, TryKept, TryDropped, Stop, DnsGone, ServerStops,
              ApDown, ClearSession, Restart
<1> QED
  BY <1>1, <1>3, <1>4, <1>5 DEF Next

(* Nothing enters flash but what the panel showed: an accepted value is    *)
(* the one on the card the finger met, although prov_pending_commit takes  *)
(* the slot and never looks at the card. It holds of every interleaving of *)
(* the browsers, card reads with an address parked behind the first, Wi-Fi *)
(* trials, redraws, deadlines and teardowns, for any number of each and    *)
(* any depth of the event queue, if nobody reopens it under a prov_stop    *)
(* and no trial is asked for when the window has passed: the argument has  *)
(* every PIN read behind its wait screen, which such a trial replaces. (On *)
(* the instance of the run the property outlives that.)                    *)
THEOREM StoredSound == ASSUME NoReopen, NoLate PROVE Spec => StoredWasShown
<1>1. PanelInv /\ [Next]_vars =>
         [\A f \in Families : stored'[f] # stored[f] =>
             modal = "value" /\ stored'[f] = card]_vars
  <2> SUFFICES ASSUME PanelInv, [Next]_vars, NEW f \in Families,
                      stored'[f] # stored[f]
               PROVE  modal = "value" /\ stored'[f] = card
    OBVIOUS
  <2>1. /\ Answer(TRUE) \/ Answer(FALSE)
        /\ ask # NoAddr /\ stored' = [stored EXCEPT ![Family(ask)] = ask]
    BY StoreIsAnswered
  <2>2. Up
    BY <2>1 DEF Answer, OnCard, InputOpen, Up
  <2>3. card = ask
    BY <2>1, <2>2 DEF PanelInv, CardInv, CardIsSlot
  <2>4. stored \in [Families -> Addrs \cup {NoAddr}]
    BY DEF PanelInv, BaseInv, TypeOK, ValueTypeOK, ByFamily
  <2>5. stored'[f] = ask
    BY <2>1, <2>4
  <2> QED
    BY <2>2, <2>3, <2>5 DEF Up
<1>2. Init => PanelInv
  BY PanelAtStart
<1>3. PanelInv /\ [Next]_vars => PanelInv'
  BY NoReopen, NoLate, PanelStep
<1> QED
  BY <1>1, <1>2, <1>3, PTL DEF Spec, StoredWasShown
===============================================================================
