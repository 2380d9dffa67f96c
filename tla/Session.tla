------------------------------ MODULE Session ------------------------------
(***************************************************************************)
(* One browser tab's session: the token it keeps (session.ts), the timers  *)
(* that end it when nobody uses it (useInactivityTimeout.ts, SessionManager*)
(* .tsx), its ways out (logoutSession.ts, createApiClient.ts), and the     *)
(* server's side of it: the JWT strategy, the blacklist, the interceptor   *)
(* that renews a token about to expire and POST /auth/logout.              *)
(*                                                                         *)
(* Time is counted in minutes; what takes a second (the debounce of the    *)
(* activity listener) takes no time.  A call is answered in several steps  *)
(* and may take as long as it likes: the page, the user and the timers go  *)
(* on meanwhile.  The pages poll the server every two seconds, whether the *)
(* user does anything or not.                                              *)
(***************************************************************************)
EXTENDS Integers, FiniteSets

CONSTANTS
  Tokens,      \* bound: tokens known to the tab and its calls at one time
  Calls,       \* calls to the API that may be in flight at the same time
  TokenLife,   \* JWT_EXPIRES_IN, in minutes
  RefreshThreshold,   \* REFRESH_THRESHOLD_SECONDS, in minutes
  Inactivity,  \* SESSION_INACTIVITY_MS, in minutes
  Warning,     \* SESSION_WARNING_MS, in minutes
  Logout,      \* the call of logoutSession, of which there is one
  NULL

ASSUME SessionConstants ==
  /\ Tokens \subseteq Nat /\ IsFiniteSet(Tokens)
  /\ NULL \notin Tokens /\ Logout \notin Calls
  /\ {TokenLife, RefreshThreshold, Inactivity, Warning} \subseteq Nat \ {0}
  /\ RefreshThreshold < TokenLife /\ Warning < Inactivity

VARIABLES
  account,  \* User.status
  life,     \* minutes until each token expires
  revoked,  \* tokens with a row in TokenBlacklist
  held,     \* the token in sessionStorage
  page,     \* is the tab on a page of PUBLIC_PATHS? is it in the foreground?
  timer,    \* the timers of useInactivityTimeout and lastActivityRef
  call,     \* calls in flight
  idle      \* history: minutes since the user last did something

tab == <<held, page, timer>>
vars == <<account, life, revoked, tab, call, idle>>

Timer == [armed: BOOLEAN,            \* are the two timeouts set?
          age: 0..Inactivity,        \* for how long
          since: 0..Inactivity]      \* since lastActivityRef, or longer
Call == [token: Tokens \cup {NULL}, step: {"sent", "checked", "answered", "denied"},
         renew: BOOLEAN,             \* shouldIssueNewToken
         issued: Tokens \cup {NULL}] \* X-New-Token
Idle == [step |-> "idle"]

Init ==
  /\ account = "active"
  /\ life = [t \in Tokens |-> 0] /\ revoked = {}
  /\ held = NULL /\ page = [public |-> TRUE, visible |-> TRUE]
  /\ timer = [armed |-> FALSE, age |-> 0, since |-> 0]
  /\ call = [c \in Calls \cup {Logout} |-> Idle]
  /\ idle = 0

InFlight(c) == call[c] # Idle
IsLoggingOut == InFlight(Logout)

(* SessionManager's "enabled": signed in and not on a public page.         *)
Enabled(token, public) == token # NULL /\ ~public
IsEnabled == Enabled(held, page.public)

-----------------------------------------------------------------------------
(* useInactivityTimeout *)

(* scheduleTimers: the timeouts start anew.  The warning that the first of *)
(* them shows is not kept: the listener's "if (!showWarning)" sees the     *)
(* value of the render that installed it, which is false.                  *)
Schedule(t) == [t EXCEPT !.armed = TRUE, !.age = 0]
ClearTimers(t) == [t EXCEPT !.armed = FALSE, !.age = 0]

(* Mutant: activity is noted but the timeouts run on.                      *)
NoteActivity(t) == [t EXCEPT !.since = 0]

(* resetTimers, which is extendSession too.                                *)
ResetTimers(t) == [Schedule(t) EXCEPT !.since = 0]

(* Mutant: a session that begins with the page sets no timers.             *)
EffectOfNavigation(was, is, t) == IF is THEN t ELSE ClearTimers(t)

(* The effect of the hook, when the tab's token and page change together:  *)
(* lastActivityRef stays what it was.                                      *)
Effect(was, is, t) ==
  CASE was /\ is -> t
    [] ~was /\ is -> Schedule(t)
    [] OTHER -> ClearTimers(t)

ChangeTab(token, public) ==
  /\ held' = token
  /\ page' = [page EXCEPT !.public = public]
  /\ timer' = Effect(IsEnabled, Enabled(token, public), timer)

-----------------------------------------------------------------------------
(* The ways out *)

Send(token) == [token |-> token, step |-> "sent", renew |-> FALSE, issued |-> NULL]

(* logoutSession: the server is told first; one logout at a time.          *)
LogoutSession == call' = IF IsLoggingOut THEN call
                         ELSE [call EXCEPT ![Logout] = Send(held)]

(* clearSessionData and redirectToLogin                                    *)
Leave == ChangeTab(NULL, TRUE)

(* In the foreground the second timeout fires when it is due; the browser  *)
(* may hold it back in a hidden tab.                                       *)
Due == timer.armed /\ timer.age = Inactivity
AtTheTab == page.visible /\ ~Due

SignOut ==
  /\ held # NULL /\ AtTheTab
  /\ LogoutSession
  /\ idle' = 0
  /\ UNCHANGED <<account, life, revoked, tab>>

(* The second timeout.                                                     *)
TimeOut ==
  /\ Due
  /\ LogoutSession
  /\ timer' = ClearTimers(timer)
  /\ UNCHANGED <<account, life, revoked, held, page, idle>>

-----------------------------------------------------------------------------
(* What the user does *)

(* A key, a click, or the button that extends the session.                 *)
Act ==
  /\ IsEnabled /\ AtTheTab
  /\ timer' = ResetTimers(timer) /\ idle' = 0
  /\ UNCHANGED <<account, life, revoked, held, page, call>>

(* Leaving the page ends its listener before the debounce is over.         *)
Navigate ==
  /\ AtTheTab
  /\ ChangeTab(held, ~page.public) /\ idle' = 0
  /\ UNCHANGED <<account, life, revoked, call>>

Hide ==
  /\ page.visible
  /\ page' = [page EXCEPT !.visible = FALSE]
  /\ UNCHANGED <<account, life, revoked, held, timer, call, idle>>

(* Mutant: whoever comes back goes on.                                     *)
ReturnAnyTime == /\ timer' = IF IsEnabled THEN ResetTimers(timer) ELSE timer
                 /\ idle' = 0 /\ UNCHANGED call

(* handleVisibilityChange: coming back before the warning is activity.     *)
Return ==
  \/ /\ IsEnabled /\ timer.since >= Inactivity
     /\ LogoutSession /\ UNCHANGED <<timer, idle>>
  \/ /\ IsEnabled /\ timer.since \in (Inactivity - Warning)..(Inactivity - 1)
     /\ UNCHANGED <<timer, call, idle>>
  \/ /\ IsEnabled /\ timer.since < Inactivity - Warning
     /\ timer' = ResetTimers(timer) /\ idle' = 0 /\ UNCHANGED call
  \/ ~IsEnabled /\ UNCHANGED <<timer, call, idle>>

Show ==
  /\ ~page.visible
  /\ page' = [page EXCEPT !.visible = TRUE]
  /\ Return
  /\ UNCHANGED <<account, life, revoked, held>>

-----------------------------------------------------------------------------
(* Tokens and calls *)

(* Tokens nobody knows any more stand for those not issued yet.            *)
Known == ({held} \ {NULL}) \cup
  UNION {{call[c].token, call[c].issued} \ {NULL} : c \in {d \in DOMAIN call : InFlight(d)}}

Forget(l, r) == /\ life' = [t \in Tokens |-> IF t \in Known' THEN l[t] ELSE 0]
                /\ revoked' = r \cap Known'

Unissued == Tokens \ Known

(* jwtService.sign, of a token the tab or a call holds from now on.        *)
Issue(t) ==
  /\ t \in Unissued /\ \A u \in Unissued : t <= u
  /\ Forget([life EXCEPT ![t] = TokenLife], revoked)

(* LoginPage: the token is saved, and the page changes to a private one.   *)
SignIn ==
  /\ page = [public |-> TRUE, visible |-> TRUE] /\ account = "active"
  /\ UNCHANGED call
  /\ \E t \in Tokens : ChangeTab(t, FALSE) /\ Issue(t)
  /\ idle' = 0
  /\ UNCHANGED account

(* A page asks for something, or polls; the token is the tab's.            *)
Poll(c) ==
  /\ ~InFlight(c) /\ IsEnabled
  /\ call' = [call EXCEPT ![c] = Send(held)]
  /\ UNCHANGED <<account, life, revoked, tab, idle>>

(* A call whose answer is on its way: the server is done with its token.   *)
Answered(c, step, issued) == call' = [call EXCEPT ![c] =
  [token |-> NULL, step |-> step, renew |-> FALSE, issued |-> issued]]

(* Mutant: the strategy does not read the account.                         *)
IsAuthorizedAnyway(t) == life[t] > 0

(* The JWT strategy: a token that lives, of an active account.             *)
IsAuthorized(t) == life[t] > 0 /\ account = "active"

(* JwtAuthGuard; validate marks a token that is about to expire.           *)
Authenticate(c) ==
  LET t == call[c].token IN
  /\ UNCHANGED <<account, tab, idle>>
  /\ call[c].step = "sent"
  /\ IF IsAuthorized(t)
     THEN call' = [call EXCEPT ![c].step = "checked", ![c].renew = life[t] <= RefreshThreshold]
     ELSE Answered(c, "denied", NULL)
  /\ Forget(life, revoked)

(* The interceptor refuses a revoked token before the handler runs.        *)
Deny(c) ==
  /\ UNCHANGED <<account, tab, idle>>
  /\ call[c].step = "checked" /\ call[c].token \in revoked
  /\ Answered(c, "denied", NULL) /\ Forget(life, revoked)

(* The handler runs, and the interceptor adds a new token to its answer.   *)
Answer(c) ==
  /\ UNCHANGED <<account, tab, idle>>
  /\ c # Logout /\ call[c].step = "checked" /\ call[c].token \notin revoked
  /\ IF call[c].renew
     THEN \E t \in Tokens : Answered(c, "answered", t) /\ Issue(t)
     ELSE Answered(c, "answered", NULL) /\ Forget(life, revoked)

(* POST /auth/logout revokes the token; logoutSession does not look at the *)
(* answer.                                                                 *)
ServeLogout ==
  /\ UNCHANGED <<account, tab, idle>>
  /\ call[Logout].step = "checked" /\ call[Logout].token \notin revoked
  /\ Answered(Logout, "answered", NULL)
  /\ Forget(life, revoked \cup {call[Logout].token})

(* The answer arrives: a new token is saved, wherever the tab is by then;  *)
(* handleUnauthorizedResponse ends the session unless a logout is on its   *)
(* way.                                                                    *)
Deliver(c) ==
  /\ c # Logout /\ call[c].step \in {"answered", "denied"}
  /\ IF call[c].issued # NULL THEN ChangeTab(call[c].issued, page.public)
     ELSE IF call[c].step = "denied" /\ held # NULL /\ ~IsLoggingOut THEN Leave
     ELSE UNCHANGED tab
  /\ call' = [call EXCEPT ![c] = Idle] /\ Forget(life, revoked)
  /\ UNCHANGED <<account, idle>>

(* Mutant: only an accepted logout clears the tab.                         *)
FinishIfAnswered ==
  /\ call[Logout].step \in {"answered", "denied"}
  /\ IF call[Logout].step = "answered" THEN Leave ELSE UNCHANGED tab
  /\ call' = [call EXCEPT ![Logout] = Idle] /\ Forget(life, revoked)
  /\ UNCHANGED <<account, idle>>

(* logoutSession goes on, whatever has come of its call.                   *)
FinishLogout ==
  /\ call[Logout].step \in {"answered", "denied"}
  /\ Leave
  /\ call' = [call EXCEPT ![Logout] = Idle] /\ Forget(life, revoked)
  /\ UNCHANGED <<account, idle>>

(* A call is lost on its way back, a logout on its way there too.  (Another*)
(* call that does not reach the server is one that was not made.)          *)
Lose(c) ==
  /\ InFlight(c) /\ (c = Logout \/ call[c].step \in {"answered", "denied"})
  /\ IF c = Logout THEN Leave ELSE UNCHANGED tab
  /\ call' = [call EXCEPT ![c] = Idle] /\ Forget(life, revoked)
  /\ UNCHANGED <<account, idle>>

-----------------------------------------------------------------------------
(* deactivateAdmin of auth.service.ts                                      *)
Deactivate ==
  /\ account = "active" /\ account' = "inactive"
  /\ UNCHANGED <<life, revoked, tab, call, idle>>

(* A minute passes.                                                        *)
Later(n, limit) == IF n < limit THEN n + 1 ELSE n

MinutePasses ==
  /\ page.visible => ~Due
  /\ life' = [t \in Tokens |-> IF life[t] > 0 THEN life[t] - 1 ELSE 0]
  /\ timer' = [timer EXCEPT !.age = IF timer.armed THEN Later(@, Inactivity) ELSE @,
                            !.since = Later(@, Inactivity)]
  /\ idle' = Later(idle, Inactivity)
  /\ UNCHANGED <<account, revoked, held, page, call>>

Serve(c) == \/ Authenticate(c) \/ Deny(c) \/ Answer(c) \/ Deliver(c)
            \/ /\ c = Logout
               /\ ServeLogout \/ FinishLogout
User == SignIn \/ SignOut \/ Act \/ Navigate \/ Hide \/ Show

Next == \/ User \/ TimeOut \/ Deactivate \/ MinutePasses
        \/ \E c \in Calls : Poll(c)
        \/ \E c \in Calls \cup {Logout} : Serve(c) \/ Lose(c)

Spec == Init /\ [][Next]_vars

(* The server answers; a private page polls it again and again, and the    *)
(* network does not lose every one of the answers.                         *)
FairSpec == /\ Spec
            /\ \A c \in Calls \cup {Logout} : WF_vars(Serve(c))
            /\ \A c \in Calls : SF_vars(Poll(c)) /\ SF_vars(Deliver(c))

-----------------------------------------------------------------------------
(* Properties *)

TypeOK ==
  /\ account \in {"active", "inactive"}
  /\ life \in [Tokens -> 0..TokenLife] /\ revoked \subseteq Tokens
  /\ held \in Tokens \cup {NULL} /\ page \in [public: BOOLEAN, visible: BOOLEAN]
  /\ timer \in Timer /\ timer.age <= timer.since
  /\ call \in [Calls \cup {Logout} -> Call \cup {Idle}]
  /\ idle \in 0..Inactivity

(* Whoever is signed in on a private page will be signed out by a timer or *)
(* is being signed out: no order of events leaves a session without either.*)
SessionIsTimed == IsEnabled => timer.armed \/ IsLoggingOut

(* A session nobody has used for the whole time is over when its user      *)
(* comes back to the tab, although a hidden tab's timeouts may never have  *)
(* fired.                                                                  *)
IdleSessionsEnd ==
  [][~page.visible /\ page'.visible /\ IsEnabled /\ idle = Inactivity => IsLoggingOut']_vars

(* Signing out ends in the login page with no token, whatever becomes of   *)
(* the call to the server.                                                 *)
LogoutCompletes == IsLoggingOut ~> held = NULL /\ page.public

(* "Las sesiones del admin quedan invalidadas al rechazar status !==       *)
(* 'active' en JWT": whoever is deactivated is thrown out of every private *)
(* page for good, late answers and returning users notwithstanding.        *)
DeactivatedLosesSession == account = "inactive" ~> []~IsEnabled

(* "Tu sesion se cerro por inactividad" (LoginPage.tsx): a session is timed*)
(* out only when nobody has used it for so long.  No run checks it, because*)
(* the code breaks it: lastActivityRef is older than a session just begun. *)
TimedOutOnlyWhenIdle ==
  [][~IsLoggingOut /\ IsLoggingOut' /\ timer.since = Inactivity => idle = Inactivity \/ SignOut]_vars
=============================================================================
