--------------------------- MODULE ManageAuthProofs ---------------------------
(***************************************************************************)
(* Safety of ManageAuth, for any number of requests.                       *)
(*                                                                         *)
(* The inductive invariant adds to the properties what ties the pieces of  *)
(* state together: the refresh singleton is set exactly while a call is on *)
(* the wire, subscribers exist only then, a request's phase tells how often*)
(* it has been sent, and a timer that no effect is going to look at belongs*)
(* to a session.                                                           *)
(***************************************************************************)
EXTENDS ManageAuth, TLAPS

\* The singleton stands for the one call.
SingletonIsCall ==
    /\ singleton => calls = 1
    /\ ~singleton => calls = 0

\* Whoever waits for a refresh has subscribed to the singleton.
Subscribed ==
    /\ renewing => singleton
    /\ \A r \in Requests : req[r] = "waiting" => singleton

SendsFollowPhase ==
    \A r \in Requests :
        /\ sends[r] <= 2
        /\ req[r] \in {"sent", "waiting"} => sends[r] <= 1

TimerHasSession == timer /\ ~effectDue => token

Inv ==
    /\ TypeOK
    /\ SingletonIsCall
    /\ Subscribed
    /\ SendsFollowPhase
    /\ RenewalNeverStops
    /\ TimerHasSession

-----------------------------------------------------------------------------
(* What the shared operators do                                            *)

\* Whoever refreshes, the singleton then stands for one call.
LEMMA RefreshFacts ==
    ASSUME Inv, RefreshTokens
    PROVE  singleton' = TRUE /\ calls' = 1
BY DEF Inv, TypeOK, SingletonIsCall, RefreshTokens

\* A refresh that ends leaves neither a call nor a singleton.
LEMMA RefreshEnds ==
    ASSUME Inv, calls > 0, calls' = calls - 1
    PROVE  singleton = TRUE /\ calls' = 0
BY DEF Inv, TypeOK, SingletonIsCall

\* What the invariant says of the session and its timer, and of the rest.
SessionPart ==
    /\ token \in BOOLEAN /\ ticket \in BOOLEAN /\ timer \in BOOLEAN
    /\ effectDue \in BOOLEAN /\ renewing \in BOOLEAN
    /\ RenewalNeverStops
    /\ TimerHasSession

RefreshPart ==
    /\ singleton \in BOOLEAN /\ calls \in Nat
    /\ SingletonIsCall
    /\ Subscribed

RequestPart ==
    /\ req \in [Requests -> Settled \cup {"sent", "waiting", "resent"}]
    /\ sends \in [Requests -> Nat]
    /\ SendsFollowPhase

PagePart ==
    /\ page \in Pages \cup {Blank}
    /\ going \in Pages \cup {"nowhere"}
    /\ step \in {"password", "totp"}
    /\ form \in {"none", "login", "mfa"}

LEMMA Parts == Inv <=> SessionPart /\ RefreshPart /\ RequestPart /\ PagePart
BY DEF Inv, TypeOK, SessionPart, RefreshPart, RequestPart, PagePart

LEMMA PartsNext ==
    ASSUME SessionPart', RefreshPart', RequestPart', PagePart'
    PROVE  Inv'
BY DEF Inv, TypeOK, SessionPart, RefreshPart, RequestPart, PagePart,
       SingletonIsCall, Subscribed, SendsFollowPhase, RenewalNeverStops,
       TimerHasSession

\* A part that a step does not touch.
LEMMA SessionKept ==
    ASSUME SessionPart, UNCHANGED <<sessionVars, renewVars>>
    PROVE  SessionPart'
BY DEF SessionPart, sessionVars, renewVars, RenewalNeverStops, TimerHasSession

LEMMA RefreshKept ==
    ASSUME RefreshPart, UNCHANGED <<refreshVars, renewing, req>>
    PROVE  RefreshPart'
BY DEF RefreshPart, refreshVars, SingletonIsCall, Subscribed

LEMMA RequestKept ==
    ASSUME RequestPart, UNCHANGED requestVars
    PROVE  RequestPart'
BY DEF RequestPart, requestVars, SendsFollowPhase

LEMMA PageKept ==
    ASSUME PagePart, UNCHANGED <<page, going, loginVars>>
    PROVE  PagePart'
BY DEF PagePart, loginVars

\* The end of a session keeps the session's part, whatever the timer does next.
LEMMA LogoutKeeps ==
    ASSUME SessionPart, Logout, timer' = timer, renewing' \in BOOLEAN
    PROVE  SessionPart'
BY DEF SessionPart, Logout, RenewalNeverStops, TimerHasSession

\* So does its beginning.
LEMMA PayloadKeeps ==
    ASSUME SessionPart, ApplySessionPayload, timer' = timer, renewing' \in BOOLEAN
    PROVE  SessionPart'
BY DEF SessionPart, ApplySessionPayload, RenewalNeverStops, TimerHasSession

-----------------------------------------------------------------------------
(* The invariant is inductive                                              *)

LEMMA InvInit == Init => Inv
<1> SUFFICES ASSUME Init PROVE Inv
    OBVIOUS
<1>1. SessionPart
    BY DEF Init, SessionPart, RenewalNeverStops, TimerHasSession
<1>2. RefreshPart
    BY DEF Init, RefreshPart, SingletonIsCall, Subscribed
<1>3. RequestPart
    BY DEF Init, RequestPart, SendsFollowPhase, Settled
<1>4. PagePart
    BY DEF Init, PagePart
<1>5. QED BY <1>1, <1>2, <1>3, <1>4, Parts

\* The answer to a first try, a 401 or not.
LEMMA OnAnswerKeepsInv ==
    ASSUME Inv, NEW r \in Requests, NEW answer \in Answers, OnAnswer(r, answer)
    PROVE  Inv'
<1> USE Parts
<1>1. CASE answer # "unauthorized"
    <2>1. /\ req[r] = "sent"
          /\ req' = [req EXCEPT ![r] = answer]
          /\ UNCHANGED <<sessionVars, renewVars, refreshVars, sends>>
          /\ UNCHANGED <<page, going, loginVars>>
        BY <1>1 DEF OnAnswer
    <2>2. SessionPart' BY <2>1, SessionKept
    <2>3. RefreshPart'
        BY <1>1, <2>1 DEF RefreshPart, RequestPart, refreshVars, renewVars, Answers,
                          SingletonIsCall, Subscribed
    <2>4. RequestPart'
        BY <1>1, <2>1 DEF RequestPart, SendsFollowPhase, Answers, Settled
    <2>5. PagePart' BY <2>1, PageKept
    <2>6. QED BY <2>2, <2>3, <2>4, <2>5, PartsNext
<1>2. CASE answer = "unauthorized" /\ token
    <2>1. /\ req[r] = "sent"
          /\ req' = [req EXCEPT ![r] = "waiting"]
          /\ RefreshTokens
          /\ UNCHANGED <<sessionVars, renewVars, sends>>
          /\ UNCHANGED <<page, going, loginVars>>
        BY <1>2 DEF OnAnswer, On401
    <2>2. SessionPart' BY <2>1, SessionKept
    <2>3. singleton' = TRUE /\ calls' = 1 BY <2>1, RefreshFacts
    <2>4. RefreshPart' BY <2>3 DEF RefreshPart, SingletonIsCall, Subscribed
    <2>5. RequestPart'
        BY <2>1 DEF RequestPart, SendsFollowPhase
    <2>6. PagePart' BY <2>1, PageKept
    <2>7. QED BY <2>2, <2>4, <2>5, <2>6, PartsNext
<1>3. CASE answer = "unauthorized" /\ ~token
    <2>1. /\ req[r] = "sent"
          /\ req' = [req EXCEPT ![r] = "failed"]
          /\ Logout
          /\ UNCHANGED <<renewVars, refreshVars, sends, page, loginVars>>
        BY <1>3 DEF OnAnswer, On401
    <2>2. SessionPart' BY <2>1, LogoutKeeps DEF SessionPart, renewVars
    <2>3. RefreshPart'
        BY <2>1 DEF RefreshPart, RequestPart, refreshVars, renewVars,
                    SingletonIsCall, Subscribed
    <2>4. RequestPart' BY <2>1 DEF RequestPart, SendsFollowPhase, Settled
    <2>5. PagePart' BY <2>1 DEF PagePart, Logout, Pages, loginVars
    <2>6. QED BY <2>2, <2>3, <2>4, <2>5, PartsNext
<1>4. QED BY <1>1, <1>2, <1>3

\* The answer to the second try, which ends the request.
LEMMA OnSecondAnswerKeepsInv ==
    ASSUME Inv, NEW r \in Requests, NEW answer \in Answers,
           OnSecondAnswer(r, answer)
    PROVE  Inv'
<1> USE Parts
<1>1. /\ \E a \in {"ok", "failed"} : req' = [req EXCEPT ![r] = a]
      /\ UNCHANGED <<renewVars, refreshVars, sends, page, loginVars>>
      /\ UNCHANGED <<sessionVars, going>> \/ Logout
    BY DEF OnSecondAnswer
<1>2. SessionPart'
    BY <1>1, SessionKept, LogoutKeeps DEF SessionPart, renewVars
<1>3. RefreshPart'
    BY <1>1 DEF RefreshPart, RequestPart, refreshVars, renewVars,
                SingletonIsCall, Subscribed
<1>4. RequestPart' BY <1>1 DEF RequestPart, SendsFollowPhase, Settled
<1>5. PagePart' BY <1>1 DEF PagePart, Logout, Pages, loginVars
<1>6. QED BY <1>2, <1>3, <1>4, <1>5, PartsNext

LEMMA RefreshDoneKeepsInv ==
    ASSUME Inv, RefreshDone
    PROVE  Inv'
<1> USE Parts
<1>1. singleton = TRUE /\ calls' = 0 /\ singleton' = FALSE /\ renewing' = FALSE
    BY RefreshEnds DEF RefreshDone
<1>2. \A r \in Requests :
          /\ req[r] = "waiting" => req'[r] = "resent" /\ sends'[r] = sends[r] + 1
          /\ req[r] # "waiting" => req'[r] = req[r] /\ sends'[r] = sends[r]
    BY DEF RefreshDone, Waiting
<1>3. SessionPart'
    <2>1. CASE renewing \/ Waiting # {}
        BY <1>1, <2>1, PayloadKeeps DEF RefreshDone
    <2>2. CASE ~(renewing \/ Waiting # {})
        BY <1>1, <2>2, SessionKept
           DEF RefreshDone, renewVars, SessionPart
    <2>3. QED BY <2>1, <2>2
<1>4. RefreshPart'
    BY <1>1, <1>2 DEF RefreshPart, SingletonIsCall, Subscribed
<1>5. RequestPart'
    <2>1. req' \in [Requests -> Settled \cup {"sent", "waiting", "resent"}]
        BY DEF RefreshDone, RequestPart, Waiting
    <2>2. sends' \in [Requests -> Nat]
        BY DEF RefreshDone, RequestPart, Waiting
    <2>3. SendsFollowPhase'
        BY <1>2 DEF RequestPart, SendsFollowPhase
    <2>4. QED BY <2>1, <2>2, <2>3 DEF RequestPart
<1>6. PagePart' BY PageKept DEF RefreshDone
<1>7. QED BY <1>3, <1>4, <1>5, <1>6, PartsNext

LEMMA RefreshFailedKeepsInv ==
    ASSUME Inv, RefreshFailed
    PROVE  Inv'
<1> USE Parts
<1>1. singleton = TRUE /\ calls' = 0 /\ singleton' = FALSE /\ renewing' = FALSE
    BY RefreshEnds DEF RefreshFailed
<1>2. /\ sends' = sends
      /\ \A r \in Requests :
             req'[r] = IF req[r] = "waiting" THEN "failed" ELSE req[r]
    BY DEF RefreshFailed, Waiting
<1>3. SessionPart'
    <2>1. CASE renewing \/ Waiting # {}
        BY <1>1, <2>1, LogoutKeeps DEF RefreshFailed
    <2>2. CASE ~(renewing \/ Waiting # {})
        BY <1>1, <2>2, SessionKept
           DEF RefreshFailed, renewVars, SessionPart
    <2>3. QED BY <2>1, <2>2
<1>4. RefreshPart'
    BY <1>1, <1>2 DEF RefreshPart, SingletonIsCall, Subscribed
<1>5. RequestPart'
    <2>1. req' \in [Requests -> Settled \cup {"sent", "waiting", "resent"}]
        BY DEF RefreshFailed, RequestPart, Waiting, Settled
    <2>2. SendsFollowPhase'
        BY <1>2 DEF RequestPart, SendsFollowPhase
    <2>3. QED BY <1>2, <2>1, <2>2 DEF RequestPart
<1>6. PagePart' BY DEF RefreshFailed, PagePart, Logout, Pages, loginVars
<1>7. QED BY <1>3, <1>4, <1>5, <1>6, PartsNext

LEMMA InvNext == Inv /\ [Next]_vars => Inv'
<1> SUFFICES ASSUME Inv, [Next]_vars PROVE Inv'
    OBVIOUS
<1> USE Parts
<1>1. ASSUME NEW r \in Requests, Issue(r) PROVE Inv'
    <2>1. SessionPart' /\ PagePart' BY <1>1, SessionKept, PageKept DEF Issue
    <2>2. RefreshPart'
        BY <1>1 DEF Issue, RefreshPart, RequestPart, refreshVars, renewVars,
                    SingletonIsCall, Subscribed
    <2>3. RequestPart' BY <1>1 DEF Issue, RequestPart, SendsFollowPhase
    <2>4. QED BY <2>1, <2>2, <2>3, PartsNext
<1>2. ASSUME NEW r \in Requests, Cancel(r) PROVE Inv'
    <2>1. SessionPart' /\ PagePart' BY <1>2, SessionKept, PageKept DEF Cancel
    <2>2. RefreshPart'
        BY <1>2 DEF Cancel, RefreshPart, RequestPart, refreshVars, renewVars,
                    SingletonIsCall, Subscribed
    <2>3. RequestPart' BY <1>2 DEF Cancel, RequestPart, SendsFollowPhase, Settled
    <2>4. QED BY <2>1, <2>2, <2>3, PartsNext
<1>3. ASSUME NEW r \in Requests, Responses(r) PROVE Inv'
    BY <1>3, OnAnswerKeepsInv, OnSecondAnswerKeepsInv DEF Responses
<1>4. CASE RefreshDone BY <1>4, RefreshDoneKeepsInv
<1>5. CASE RefreshFailed BY <1>5, RefreshFailedKeepsInv
<1>6. CASE Arm
    <2>1. RefreshPart' /\ RequestPart' /\ PagePart'
        BY <1>6, RefreshKept, RequestKept, PageKept DEF Arm, requestVars
    <2>2. SessionPart'
        BY <1>6 DEF Arm, SessionPart, RenewalNeverStops, TimerHasSession
    <2>3. QED BY <2>1, <2>2, PartsNext
<1>7. CASE Fire
    <2>1. RequestPart' /\ PagePart'
        BY <1>7, RequestKept, PageKept DEF Fire
    <2>2. singleton' = TRUE /\ calls' = 1 BY <1>7, RefreshFacts DEF Fire
    <2>3. RefreshPart' BY <2>2 DEF RefreshPart, SingletonIsCall, Subscribed
    <2>4. SessionPart'
        BY <1>7 DEF Fire, SessionPart, sessionVars, RenewalNeverStops,
                    TimerHasSession
    <2>5. QED BY <2>1, <2>3, <2>4, PartsNext
<1>8. CASE SignedIn
    <2>1. RefreshPart' /\ RequestPart'
        BY <1>8, RefreshKept, RequestKept DEF SignedIn, renewVars, requestVars
    <2>2. SessionPart'
        BY <1>8, PayloadKeeps DEF SignedIn, renewVars, SessionPart
    <2>3. PagePart' BY <1>8 DEF SignedIn, PagePart, Pages
    <2>4. QED BY <2>1, <2>2, <2>3, PartsNext
<1>9. CASE MfaRequired \/ BackToPassword
    <2>1. RefreshPart' /\ RequestPart'
        BY <1>9, RefreshKept, RequestKept
           DEF MfaRequired, BackToPassword, renewVars, requestVars
    <2>2. SessionPart'
        <3>1. UNCHANGED <<token, effectDue, timer, renewing>> /\ ticket' \in BOOLEAN
            BY <1>9 DEF MfaRequired, BackToPassword, renewVars
        <3>2. QED BY <3>1 DEF SessionPart, RenewalNeverStops, TimerHasSession
    <2>3. PagePart' BY <1>9 DEF MfaRequired, BackToPassword, PagePart
    <2>4. QED BY <2>1, <2>2, <2>3, PartsNext
<1>10. CASE LogoutClicked
    <2>1. RefreshPart' /\ RequestPart'
        BY <1>10, RefreshKept, RequestKept DEF LogoutClicked, renewVars, requestVars
    <2>2. SessionPart'
        BY <1>10, LogoutKeeps DEF LogoutClicked, renewVars, SessionPart
    <2>3. PagePart' BY <1>10 DEF LogoutClicked, Logout, PagePart, Pages, loginVars
    <2>4. QED BY <2>1, <2>2, <2>3, PartsNext
\* The others only move the login page and the router.
<1>11. ASSUME UNCHANGED <<sessionVars, renewVars, refreshVars, requestVars>>, PagePart'
       PROVE  Inv'
    <2>1. SessionPart' /\ RefreshPart' /\ RequestPart'
        BY <1>11, SessionKept, RefreshKept, RequestKept DEF renewVars, requestVars
    <2>2. QED BY <1>11, <2>1, PartsNext
<1>12. CASE Submit
    BY <1>11, <1>12 DEF Submit, PagePart
<1>13. CASE SignInRefused
    BY <1>11, <1>13 DEF SignInRefused, PagePart
<1>14. CASE Navigate
    <2>1. going \in Pages => Redirect(going) \in Pages
        BY DEF Redirect, Pages
    <2>2. PagePart' BY <1>14, <2>1 DEF Navigate, PagePart
    <2>3. QED BY <1>11, <1>14, <2>2 DEF Navigate
<1>15. ASSUME NEW target \in Pages, Visit(target) PROVE Inv'
    BY <1>11, <1>15 DEF Visit, PagePart, loginVars
<1>16. CASE UNCHANGED vars
    BY <1>11, <1>16, PageKept DEF vars
<1>17. QED
    BY <1>1, <1>2, <1>3, <1>4, <1>5, <1>6, <1>7, <1>8, <1>9, <1>10, <1>12, <1>13,
       <1>14, <1>15, <1>16 DEF Next

LEMMA InvAlways == Spec => []Inv
BY InvInit, InvNext, PTL DEF Spec

-----------------------------------------------------------------------------
(* Theorems                                                                *)

\* The console's state always has the types its services declare.
THEOREM ConsoleTypes == Spec => []TypeOK
<1>1. Inv => TypeOK BY DEF Inv
<1>2. QED BY <1>1, InvAlways, PTL

\* However many requests meet a 401 while the timer fires, there is one refresh at
\* most on the wire (refreshSingleton of AuthApiService), and nobody waits for one
\* that is not there.
THEOREM SingleFlightAlways == Spec => []SingleFlight
<1>1. Inv => SingleFlight
    BY DEF Inv, TypeOK, SingletonIsCall, Subscribed, SingleFlight, Waiting
<1>2. QED BY <1>1, InvAlways, PTL

\* The interceptor sends a request once more after a refresh, never twice more.
THEOREM RetriedOnceAlways == Spec => []RetriedOnce
<1>1. Inv => RetriedOnce
    BY DEF Inv, SendsFollowPhase, RetriedOnce
<1>2. QED BY <1>1, InvAlways, PTL

\* SessionRenewScheduler never loses sight of a session that is held.
THEOREM RenewalNeverStopsAlways == Spec => []RenewalNeverStops
<1>1. Inv => RenewalNeverStops BY DEF Inv
<1>2. QED BY <1>1, InvAlways, PTL

\* Signed out, with the effect run, no step starts a refresh: neither a 401 that
\* comes late nor the timer.
THEOREM SignedOutStartsNoRefreshAlways == Spec => SignedOutStartsNoRefresh
<1>1. Inv /\ [Next]_vars => [~token /\ ~effectDue => calls' <= calls]_vars
    <2> SUFFICES ASSUME Inv, Next, ~token, ~effectDue
                 PROVE  calls' <= calls
        BY DEF vars
    <2>1. calls \in Nat /\ ~timer
        BY DEF Inv, TypeOK, TimerHasSession
    <2>2. ASSUME NEW r \in Requests, Issue(r) \/ Cancel(r) PROVE calls' <= calls
        BY <2>1, <2>2 DEF Issue, Cancel, refreshVars
    <2>3. ASSUME NEW r \in Requests, Responses(r) PROVE calls' <= calls
        BY <2>1, <2>3 DEF Responses, OnAnswer, OnSecondAnswer, On401, refreshVars
    <2>4. CASE RefreshDone \/ RefreshFailed
        BY <2>1, <2>4 DEF RefreshDone, RefreshFailed
    <2>5. CASE Arm \/ Submit \/ SignedIn \/ MfaRequired \/ SignInRefused
               \/ BackToPassword \/ LogoutClicked \/ Navigate
        BY <2>1, <2>5
           DEF Arm, Submit, SignedIn, MfaRequired, SignInRefused, BackToPassword,
               LogoutClicked, Navigate, refreshVars
    <2>6. CASE Fire BY <2>1, <2>6 DEF Fire
    <2>7. ASSUME NEW target \in Pages, Visit(target) PROVE calls' <= calls
        BY <2>1, <2>7 DEF Visit, refreshVars
    <2>8. QED BY <2>2, <2>3, <2>4, <2>5, <2>6, <2>7 DEF Next
<1>2. QED BY <1>1, InvAlways, PTL DEF Spec, SignedOutStartsNoRefresh

=============================================================================
