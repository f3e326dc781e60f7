------------------------------ MODULE ManageAuth ------------------------------
(***************************************************************************)
(* The session of the management console y2-manage: the access token in    *)
(* memory, the interceptor that answers a 401 with one refresh and one more *)
(* try, the scheduler that refreshes before the token expires, the login   *)
(* page and the guards of the router.                                      *)
(*                                                                         *)
(* Everything runs on one thread, a task at a time: an answer, a timer, an  *)
(* effect, a click.  A refresh hands its result to all its subscribers in  *)
(* one turn.  Effects and navigations that a task asks for run later.      *)
(* The servers answer as they like.                                        *)
(***************************************************************************)
EXTENDS Naturals, FiniteSets

CONSTANTS
    Requests,       \* bound: the business requests that can be open at once
    DevBypassAuth   \* environment.devBypassAuth

ASSUME ManageAuthAssumption ==
    /\ IsFiniteSet(Requests)
    /\ DevBypassAuth \in BOOLEAN

VARIABLES
    token,      \* AuthSessionService: an access token and its expiry are set
    ticket,     \* and mfaTicket is
    timer,      \* SessionRenewScheduler: timerId is set
    effectDue,  \* its effect has to look at the expiry again
    renewing,   \* fire() waits for a refresh
    singleton,  \* AuthApiService: refreshSingleton is set
    calls,      \* refresh calls on the wire
    req,        \* where each business request is
    sends,      \* how often it has been sent
    page,       \* the page shown
    going,      \* the navigation the router has yet to decide
    step,       \* the login page: the form shown
    form        \* and the call it waits for

sessionVars == <<token, ticket, effectDue>>
renewVars == <<timer, renewing>>
refreshVars == <<singleton, calls>>
requestVars == <<req, sends>>
loginVars == <<step, form>>
vars == <<sessionVars, renewVars, refreshVars, requestVars, page, going, loginVars>>

Pages == {"login", "dashboard", "notFound"}

\* Nothing is shown before the first navigation.
Blank == "blank"

Settled == {"idle", "ok", "failed"}

\* How a business request ends: well, with a 401, with any other failure.
Answers == {"ok", "unauthorized", "failed"}

TypeOK ==
    /\ token \in BOOLEAN
    /\ ticket \in BOOLEAN
    /\ timer \in BOOLEAN
    /\ effectDue \in BOOLEAN
    /\ renewing \in BOOLEAN
    /\ singleton \in BOOLEAN
    /\ calls \in Nat
    /\ req \in [Requests -> Settled \cup {"sent", "waiting", "resent"}]
    /\ sends \in [Requests -> Nat]
    /\ page \in Pages \cup {Blank}
    /\ going \in Pages \cup {"nowhere"}
    /\ step \in {"password", "totp"}
    /\ form \in {"none", "login", "mfa"}

\* The application has just been loaded at some address.
Init ==
    /\ token = FALSE
    /\ ticket = FALSE
    /\ timer = FALSE
    /\ effectDue = TRUE
    /\ renewing = FALSE
    /\ singleton = FALSE
    /\ calls = 0
    /\ req = [r \in Requests |-> "idle"]
    /\ sends = [r \in Requests |-> 0]
    /\ page = Blank
    /\ going \in Pages
    /\ step = "password"
    /\ form = "none"

-----------------------------------------------------------------------------
(* AuthSessionService and refreshTokens                                    *)

\* Slip: the expiry stays what it was.
ApplySessionPayloadKeepExpiry ==
    /\ token' = TRUE
    /\ ticket' = FALSE
    /\ effectDue' = effectDue

ApplySessionPayload ==
    /\ token' = TRUE
    /\ ticket' = FALSE
    /\ effectDue' = TRUE

\* logout, clearToken: only memory is cleared, a refresh on its way goes on.
\* The effect is told only when the expiry changes.
Logout ==
    /\ token' = FALSE
    /\ ticket' = FALSE
    /\ effectDue' = (effectDue \/ token)
    /\ going' = "login"

\* Slip: every caller refreshes.
RefreshTokensAlways ==
    /\ singleton' = TRUE
    /\ calls' = calls + 1

\* A caller that finds a refresh under way subscribes to it.
RefreshTokens ==
    /\ singleton' = TRUE
    /\ calls' = IF singleton THEN calls ELSE calls + 1

-----------------------------------------------------------------------------
(* Business requests: Y2HttpClient, run401Aware                            *)

Issue(r) ==
    /\ page = "dashboard"
    /\ req[r] \in Settled
    /\ req' = [req EXCEPT ![r] = "sent"]
    /\ sends' = [sends EXCEPT ![r] = 1]
    /\ UNCHANGED <<sessionVars, renewVars, refreshVars, page, going, loginVars>>

\* Slip: a cancelled request has a state of its own.
CancelAborted(r) ==
    /\ req[r] \notin Settled
    /\ req' = [req EXCEPT ![r] = "aborted"]
    /\ UNCHANGED <<sessionVars, renewVars, refreshVars, sends, page, going, loginVars>>

\* The component unsubscribes: the call is aborted, and a refresh the request
\* has waited for goes on without it.
Cancel(r) ==
    /\ req[r] \notin Settled
    /\ req' = [req EXCEPT ![r] = "idle"]
    /\ UNCHANGED <<sessionVars, renewVars, refreshVars, sends, page, going, loginVars>>

\* Slip: it is not asked whether anyone is signed in.
On401Always(r) ==
    /\ req' = [req EXCEPT ![r] = "waiting"]
    /\ RefreshTokens
    /\ UNCHANGED <<sessionVars, going>>

\* A 401 of a first try: a refresh, or the end of the session if there is none.
On401(r) ==
    \/ /\ token
       /\ req' = [req EXCEPT ![r] = "waiting"]
       /\ RefreshTokens
       /\ UNCHANGED <<sessionVars, going>>
    \/ /\ ~token
       /\ req' = [req EXCEPT ![r] = "failed"]
       /\ Logout
       /\ UNCHANGED refreshVars

OnAnswer(r, answer) ==
    /\ req[r] = "sent"
    /\ IF answer = "unauthorized"
       THEN On401(r)
       ELSE /\ req' = [req EXCEPT ![r] = answer]
            /\ UNCHANGED <<sessionVars, refreshVars, going>>
    /\ UNCHANGED <<renewVars, sends, page, loginVars>>

\* Slip: a second 401 is taken for a first one.
OnSecondAnswerAgain(r, answer) ==
    /\ req[r] = "resent"
    /\ IF answer = "unauthorized"
       THEN On401(r)
       ELSE /\ req' = [req EXCEPT ![r] = answer]
            /\ UNCHANGED <<sessionVars, refreshVars, going>>
    /\ UNCHANGED <<renewVars, sends, page, loginVars>>

\* The second try.  Whatever fails in it, a 401 or not, is caught by the handler
\* of the refresh, which ends the session and reports the first 401.
OnSecondAnswer(r, answer) ==
    /\ req[r] = "resent"
    /\ \/ /\ answer = "ok"
          /\ req' = [req EXCEPT ![r] = "ok"]
          /\ UNCHANGED <<sessionVars, going>>
       \/ /\ answer # "ok"
          /\ req' = [req EXCEPT ![r] = "failed"]
          /\ Logout
    /\ UNCHANGED <<renewVars, refreshVars, sends, page, loginVars>>

Waiting == {r \in Requests : req[r] = "waiting"}

\* The answer to a refresh: the singleton is reset, then every subscriber applies
\* the payload, and a request is sent again.  Without subscribers it is dropped.
RefreshDone ==
    /\ calls > 0
    /\ calls' = calls - 1
    /\ singleton' = FALSE
    /\ IF renewing \/ Waiting # {} THEN ApplySessionPayload ELSE UNCHANGED sessionVars
    /\ req' = [r \in Requests |-> IF r \in Waiting THEN "resent" ELSE req[r]]
    /\ sends' = [r \in Requests |-> IF r \in Waiting THEN sends[r] + 1 ELSE sends[r]]
    /\ renewing' = FALSE
    /\ UNCHANGED <<timer, page, going, loginVars>>

\* Slip: the session ends, the requests that wait are not told.
RefreshFailedKeepWaiting ==
    /\ calls > 0
    /\ calls' = calls - 1
    /\ singleton' = FALSE
    /\ IF renewing \/ Waiting # {} THEN Logout ELSE UNCHANGED <<sessionVars, going>>
    /\ renewing' = FALSE
    /\ UNCHANGED <<timer, req, sends, page, loginVars>>

\* It fails: every subscriber ends the session.
RefreshFailed ==
    /\ calls > 0
    /\ calls' = calls - 1
    /\ singleton' = FALSE
    /\ IF renewing \/ Waiting # {} THEN Logout ELSE UNCHANGED <<sessionVars, going>>
    /\ req' = [r \in Requests |-> IF r \in Waiting THEN "failed" ELSE req[r]]
    /\ renewing' = FALSE
    /\ UNCHANGED <<timer, sends, page, loginVars>>

-----------------------------------------------------------------------------
(* SessionRenewScheduler                                                   *)

\* The effect: the old timer goes, a new one comes if there is an expiry.
Arm ==
    /\ effectDue
    /\ effectDue' = FALSE
    /\ timer' = token
    /\ UNCHANGED <<token, ticket, renewing, refreshVars, requestVars, page, going, loginVars>>

Fire ==
    /\ timer
    /\ timer' = FALSE
    /\ renewing' = TRUE
    /\ RefreshTokens
    /\ UNCHANGED <<sessionVars, requestVars, page, going, loginVars>>

-----------------------------------------------------------------------------
(* The login page.  Its buttons are disabled while it waits for an answer.  *)

Submit ==
    /\ page = "login"
    /\ form = "none"
    /\ \/ step = "password" /\ form' = "login"
       \/ step = "totp" /\ ticket /\ form' = "mfa"
    /\ UNCHANGED <<sessionVars, renewVars, refreshVars, requestVars, page, going, step>>

\* The answer to the password or to the code brings a session.
SignedIn ==
    /\ form # "none"
    /\ form' = "none"
    /\ ApplySessionPayload
    /\ going' = "dashboard"
    /\ UNCHANGED <<renewVars, refreshVars, requestVars, page, step>>

MfaRequired ==
    /\ form = "login"
    /\ form' = "none"
    /\ ticket' = TRUE
    /\ step' = "totp"
    /\ UNCHANGED <<token, effectDue, renewVars, refreshVars, requestVars, page, going>>

\* A refusal is shown and nothing else; its 401 does not go the refresh way.
SignInRefused ==
    /\ form # "none"
    /\ form' = "none"
    /\ UNCHANGED <<sessionVars, renewVars, refreshVars, requestVars, page, going, step>>

BackToPassword ==
    /\ page = "login"
    /\ step = "totp"
    /\ form = "none"
    /\ ticket' = FALSE
    /\ step' = "password"
    /\ UNCHANGED <<token, effectDue, renewVars, refreshVars, requestVars, page, going, form>>

-----------------------------------------------------------------------------
(* The shell and the router                                                *)

LogoutClicked ==
    /\ page = "dashboard"
    /\ Logout
    /\ UNCHANGED <<renewVars, refreshVars, requestVars, page, loginVars>>

\* Links, back and forward.  Bound: not while the login page waits for an answer
\* or the router is still busy.
Visit(target) ==
    /\ form = "none"
    /\ going = "nowhere"
    /\ going' = target
    /\ UNCHANGED <<sessionVars, renewVars, refreshVars, requestVars, page, loginVars>>

CanAccessProtectedRoutes == DevBypassAuth \/ token

\* Slip: the shell's guard lets everyone in.
RedirectNever(target) == IF target = "login" /\ token THEN "dashboard" ELSE target

\* Where authGuard and loginShellGuard send a navigation.
Redirect(target) ==
    CASE target = "dashboard" /\ ~CanAccessProtectedRoutes -> "login"
      [] target = "login" /\ token                         -> "dashboard"
      [] OTHER                                             -> target

\* The router decides.  Staying on a page runs no guard; a login page that is
\* left is destroyed.
Navigate ==
    /\ going # "nowhere"
    /\ LET target == IF going = page THEN page ELSE Redirect(going)
       IN  /\ page' = target
           /\ step' = IF target = page THEN step ELSE "password"
    /\ going' = "nowhere"
    /\ UNCHANGED <<sessionVars, renewVars, refreshVars, requestVars, form>>

-----------------------------------------------------------------------------

Responses(r) == \E answer \in Answers : OnAnswer(r, answer) \/ OnSecondAnswer(r, answer)

Next ==
    \/ \E r \in Requests : Issue(r) \/ Cancel(r) \/ Responses(r)
    \/ RefreshDone \/ RefreshFailed
    \/ Arm \/ Fire
    \/ Submit \/ SignedIn \/ MfaRequired \/ SignInRefused \/ BackToPassword
    \/ LogoutClicked \/ Navigate
    \/ \E target \in Pages : Visit(target)

\* A browser ends every call, by an answer or an error, and the router decides
\* every navigation.  Nothing is assumed of what the answers are.
Fairness ==
    /\ \A r \in Requests : WF_vars(Responses(r))
    /\ WF_vars(RefreshDone \/ RefreshFailed)
    /\ WF_vars(Navigate)

Spec == Init /\ [][Next]_vars

FairSpec == Spec /\ Fairness

-----------------------------------------------------------------------------
(* Properties                                                              *)

\* "多请求并发只发起一次 refresh": however 401s and the timer meet, one refresh at
\* most is on the wire, and whoever waits for a refresh has one to wait for.
SingleFlight ==
    /\ calls <= 1
    /\ renewing \/ Waiting # {} => calls = 1

\* "成功后重试原请求一次": no request is sent more than twice.
RetriedOnce == \A r \in Requests : sends[r] <= 2

\* A session that is held is going to be renewed: a timer is set, or is about to
\* be, or the scheduler waits for a refresh.
RenewalNeverStops == token => timer \/ effectDue \/ renewing

\* Once the console has signed out and the timer is off, it starts no refresh: a
\* session can come back only with a refresh that was already on its way.
SignedOutStartsNoRefresh ==
    [][~token /\ ~effectDue => calls' <= calls]_vars

\* No request goes round in circles: it succeeds, fails or is cancelled.
RequestsSettle ==
    \A r \in Requests : req[r] \notin Settled ~> req[r] \in Settled

\* "仍失败则 logout()": without a session nobody stays in the shell.
ShellNeedsSession ==
    ~DevBypassAuth => (page = "dashboard" /\ ~token ~> page # "dashboard" \/ token)

=============================================================================
