--------------------------- MODULE SessionProofs ---------------------------
(***************************************************************************)
(* Proofs about a tab's session, for any life of tokens, any limits of     *)
(* inactivity and any number of calls in flight: a session always has a    *)
(* timer or a logout that will end it, and an idle one is over when its    *)
(* user comes back.                                                        *)
(***************************************************************************)
EXTENDS Session, TLAPS

CallTypes == call \in [Calls \cup {Logout} -> Call \cup {Idle}]

(* lastActivityRef is never more recent than what the user did last.       *)
Inv ==
  /\ held \in Tokens \cup {NULL} /\ page \in [public: BOOLEAN, visible: BOOLEAN]
  /\ timer \in Timer /\ idle \in 0..Inactivity
  /\ CallTypes
  /\ idle <= timer.since
  /\ SessionIsTimed

(* What the tab's part of Inv says of the next state.                      *)
TabInv ==
  /\ held \in Tokens \cup {NULL} /\ page \in [public: BOOLEAN, visible: BOOLEAN]
  /\ timer \in Timer /\ idle \in 0..Inactivity
  /\ idle <= timer.since

-----------------------------------------------------------------------------
(* Calls *)

LEMMA IdleIsNone == Idle \notin Call /\ Idle.step = "idle"
<1>1. Idle.step = "idle"
  BY DEF Idle
<1> QED  BY <1>1 DEF Call

(* A call that is in a step of its own is in flight.                       *)
LEMMA LogoutSessionChanges ==
  ASSUME Inv, LogoutSession
  PROVE  CallTypes' /\ IsLoggingOut'
<1>1. CASE IsLoggingOut
  BY <1>1 DEF LogoutSession, Inv, CallTypes, IsLoggingOut, InFlight
<1>2. CASE ~IsLoggingOut
  <2> DEFINE new == Send(held)
  <2>1. new \in Call
    BY DEF Send, Call, Inv
  <2>2. call' = [call EXCEPT ![Logout] = new]
    BY <1>2 DEF LogoutSession
  <2> HIDE DEF new
  <2> QED  BY <2>1, <2>2, IdleIsNone DEF Inv, CallTypes, IsLoggingOut, InFlight
<1> QED  BY <1>1, <1>2

(* A call goes on: whether a logout is in flight does not change.          *)
LEMMA CallGoesOn ==
  ASSUME Inv, NEW c \in Calls \cup {Logout}, NEW q \in Call, call' = [call EXCEPT ![c] = q],
         c = Logout => IsLoggingOut
  PROVE  CallTypes' /\ (IsLoggingOut => IsLoggingOut')
BY IdleIsNone DEF Inv, CallTypes, IsLoggingOut, InFlight

LEMMA CallEnds ==
  ASSUME Inv, NEW c \in Calls \cup {Logout}, call' = [call EXCEPT ![c] = Idle]
  PROVE  CallTypes' /\ (c # Logout /\ IsLoggingOut => IsLoggingOut')
BY DEF Inv, CallTypes, IsLoggingOut, InFlight

LEMMA AnsweredGoesOn ==
  ASSUME Inv, NEW c \in Calls \cup {Logout}, NEW step \in {"answered", "denied"},
         NEW t \in Tokens \cup {NULL}, Answered(c, step, t), c = Logout => IsLoggingOut
  PROVE  CallTypes' /\ (IsLoggingOut => IsLoggingOut')
<1> DEFINE q == [token |-> NULL, step |-> step, renew |-> FALSE, issued |-> t]
<1>1. q \in Call
  BY DEF Call
<1>2. call' = [call EXCEPT ![c] = q]
  BY DEF Answered
<1> HIDE DEF q
<1> QED  BY <1>1, <1>2, CallGoesOn

(* The server's side of a call leaves the tab alone.                       *)
LEMMA ServerKeepsInv ==
  ASSUME Inv, NEW c \in Calls \cup {Logout},
         Authenticate(c) \/ Deny(c) \/ Answer(c) \/ (c = Logout /\ ServeLogout)
  PROVE  Inv'
<1>1. /\ held' = held /\ page' = page /\ timer' = timer /\ idle' = idle
  BY DEF Authenticate, Deny, Answer, ServeLogout, tab
<1>2. call[c].step \in {"sent", "checked"}
  BY DEF Authenticate, Deny, Answer, ServeLogout
<1>3. call[c] \in Call /\ (c = Logout => IsLoggingOut)
  BY <1>2, IdleIsNone DEF Inv, CallTypes, IsLoggingOut, InFlight
<1>4. CallTypes' /\ (IsLoggingOut => IsLoggingOut')
  <2>1. CASE Authenticate(c)
    <3>1. CASE IsAuthorized(call[c].token)
      <4> DEFINE renew == life[call[c].token] <= RefreshThreshold
                 q == [call[c] EXCEPT !.step = "checked", !.renew = renew]
      <4>1. renew \in BOOLEAN
        OBVIOUS
      <4>2. call' = [call EXCEPT ![c] = q]
        BY <2>1, <3>1 DEF Authenticate, Inv, CallTypes
      <4> HIDE DEF renew
      <4>3. q \in Call
        BY <1>3, <4>1 DEF Call
      <4> HIDE DEF q
      <4> QED  BY <1>3, <4>2, <4>3, CallGoesOn
    <3>2. CASE ~IsAuthorized(call[c].token)
      <4>1. Answered(c, "denied", NULL)
        BY <2>1, <3>2 DEF Authenticate
      <4> QED  BY <1>3, <4>1, AnsweredGoesOn
    <3> QED  BY <3>1, <3>2
  <2>2. CASE Deny(c)
    <3>1. Answered(c, "denied", NULL)
      BY <2>2 DEF Deny
    <3> QED  BY <1>3, <3>1, AnsweredGoesOn
  <2>3. CASE Answer(c)
    <3>1. PICK t \in Tokens \cup {NULL} : Answered(c, "answered", t)
      BY <2>3 DEF Answer
    <3> QED  BY <1>3, <3>1, AnsweredGoesOn
  <2>4. CASE c = Logout /\ ServeLogout
    <3>1. Answered(c, "answered", NULL)
      BY <2>4 DEF ServeLogout
    <3> QED  BY <1>3, <3>1, AnsweredGoesOn
  <2> QED  BY <2>1, <2>2, <2>3, <2>4
<1> QED  BY <1>1, <1>4 DEF Inv, SessionIsTimed, IsEnabled, Enabled

-----------------------------------------------------------------------------
(* The tab *)

LEMMA TimersKeepTypes ==
  ASSUME NEW t \in Timer
  PROVE  /\ Schedule(t) \in Timer /\ Schedule(t).armed /\ Schedule(t).since = t.since
         /\ ClearTimers(t) \in Timer /\ ClearTimers(t).since = t.since
         /\ ResetTimers(t) \in Timer /\ ResetTimers(t).armed /\ ResetTimers(t).since = 0
<1>1. 0 \in 0..Inactivity
  BY SessionConstants
<1> QED  BY <1>1 DEF Timer, Schedule, ClearTimers, ResetTimers

(* The tab's token and page change together, and the timers with them.     *)
LEMMA ChangeTabKeeps ==
  ASSUME Inv, NEW token \in Tokens \cup {NULL}, NEW public \in BOOLEAN,
         ChangeTab(token, public), idle' \in {0, idle}
  PROVE  /\ TabInv'
         /\ IsEnabled' = Enabled(token, public)
         /\ IsEnabled' /\ IsEnabled => timer'.armed = timer.armed
         /\ IsEnabled' /\ ~IsEnabled => timer'.armed
<1>1. held' = token /\ page' = [page EXCEPT !.public = public]
  BY DEF ChangeTab
<1>2. page' \in [public: BOOLEAN, visible: BOOLEAN] /\ page'.public = public
  BY <1>1 DEF Inv
<1>3. IsEnabled' = Enabled(token, public)
  BY <1>1, <1>2 DEF IsEnabled, Enabled
<1>4. timer \in Timer /\ timer.since \in 0..Inactivity /\ idle \in 0..Inactivity
      /\ idle <= timer.since
  BY DEF Inv, Timer
<1>5. timer' = Effect(IsEnabled, Enabled(token, public), timer)
  BY DEF ChangeTab
<1>6. /\ timer' \in Timer /\ timer'.since = timer.since
      /\ IsEnabled /\ Enabled(token, public) => timer'.armed = timer.armed
      /\ ~IsEnabled /\ Enabled(token, public) => timer'.armed
  BY <1>4, <1>5, TimersKeepTypes DEF Effect
<1>7. 0 \in 0..Inactivity
  BY SessionConstants
<1> QED  BY <1>1, <1>2, <1>3, <1>4, <1>6, <1>7 DEF TabInv

LEMMA LeaveKeepsInv ==
  ASSUME Inv, Leave, CallTypes', idle' = idle
  PROVE  Inv'
<1>1. TabInv' /\ IsEnabled' = Enabled(NULL, TRUE)
  BY ChangeTabKeeps DEF Leave
<1>2. ~IsEnabled'
  BY <1>1 DEF Enabled
<1> QED  BY <1>1, <1>2 DEF Inv, TabInv, SessionIsTimed

LEMMA StayKeepsInv ==
  ASSUME Inv, UNCHANGED <<held, page, timer, idle>>, CallTypes', IsLoggingOut => IsLoggingOut'
  PROVE  Inv'
BY DEF Inv, SessionIsTimed, IsEnabled, Enabled

LEMMA TabKeepsInv ==
  ASSUME Inv, SignOut \/ TimeOut \/ Act \/ Navigate \/ Hide \/ Show \/ SignIn
  PROVE  Inv'
<1>0. /\ timer \in Timer /\ timer.since \in 0..Inactivity /\ idle \in 0..Inactivity
      /\ 0 \in 0..Inactivity /\ idle <= timer.since
  BY SessionConstants DEF Inv, Timer
<1>1. CASE SignOut
  <2>1. CallTypes' /\ IsLoggingOut'
    BY <1>1, LogoutSessionChanges DEF SignOut
  <2> QED  BY <1>0, <1>1, <2>1 DEF SignOut, Inv, SessionIsTimed, tab
<1>2. CASE TimeOut
  <2>1. CallTypes' /\ IsLoggingOut'
    BY <1>2, LogoutSessionChanges DEF TimeOut
  <2>2. timer' \in Timer /\ timer'.since = timer.since
    BY <1>0, <1>2, TimersKeepTypes DEF TimeOut
  <2> QED  BY <1>0, <1>2, <2>1, <2>2 DEF TimeOut, Inv, SessionIsTimed
<1>3. CASE Act
  <2>1. timer' \in Timer /\ timer'.armed /\ timer'.since = 0 /\ idle' = 0
    BY <1>0, <1>3, TimersKeepTypes DEF Act
  <2>2. held' = held /\ page' = page /\ call' = call
    BY <1>3 DEF Act
  <2> QED  BY <1>0, <2>1, <2>2 DEF Inv, CallTypes, SessionIsTimed
<1>4. CASE Navigate
  <2>1. ChangeTab(held, ~page.public) /\ idle' = 0 /\ call' = call
    BY <1>4 DEF Navigate
  <2>2. PICK token \in Tokens \cup {NULL}, public \in BOOLEAN :
          token = held /\ public = ~page.public
    BY DEF Inv
  <2>3. ChangeTab(token, public)
    BY <2>1, <2>2
  <2>4. /\ TabInv'
        /\ IsEnabled' /\ IsEnabled => timer'.armed = timer.armed
        /\ IsEnabled' /\ ~IsEnabled => timer'.armed
    BY <2>1, <2>3, ChangeTabKeeps
  <2>5. CallTypes' /\ IsLoggingOut' = IsLoggingOut
    BY <2>1 DEF Inv, CallTypes, IsLoggingOut, InFlight
  <2> QED  BY <2>4, <2>5 DEF Inv, TabInv, SessionIsTimed
<1>5. CASE Hide
  <2>1. page' \in [public: BOOLEAN, visible: BOOLEAN] /\ page'.public = page.public
    BY <1>5 DEF Hide, Inv
  <2>2. UNCHANGED <<held, timer, call, idle>>
    BY <1>5 DEF Hide
  <2> QED  BY <2>1, <2>2 DEF Inv, CallTypes, SessionIsTimed, IsEnabled, Enabled, IsLoggingOut, InFlight
<1>6. CASE Show
  <2>1. page' \in [public: BOOLEAN, visible: BOOLEAN] /\ page'.public = page.public
        /\ held' = held
    BY <1>6 DEF Show, Inv
  <2>2. IsEnabled' = IsEnabled
    BY <2>1 DEF IsEnabled, Enabled
  <2>3. CASE LogoutSession /\ UNCHANGED <<timer, idle>>
    <3>1. CallTypes' /\ IsLoggingOut'
      BY <2>3, LogoutSessionChanges
    <3> QED  BY <2>1, <2>3, <3>1 DEF Inv, SessionIsTimed
  <2>4. CASE UNCHANGED <<timer, call, idle>>
    BY <2>1, <2>2, <2>4 DEF Inv, CallTypes, SessionIsTimed, IsLoggingOut, InFlight
  <2>5. CASE timer' = ResetTimers(timer) /\ idle' = 0 /\ UNCHANGED call
    <3>1. timer' \in Timer /\ timer'.armed /\ timer'.since = 0
      BY <1>0, <2>5, TimersKeepTypes
    <3> QED  BY <1>0, <2>1, <2>5, <3>1 DEF Inv, CallTypes, SessionIsTimed
  <2> QED  BY <1>6, <2>3, <2>4, <2>5 DEF Show, Return
<1>7. CASE SignIn
  <2>1. PICK t \in Tokens : ChangeTab(t, FALSE) /\ idle' = 0 /\ call' = call
    BY <1>7 DEF SignIn
  <2>2. /\ TabInv'
        /\ IsEnabled' /\ IsEnabled => timer'.armed = timer.armed
        /\ IsEnabled' /\ ~IsEnabled => timer'.armed
    BY <2>1, ChangeTabKeeps
  <2>3. CallTypes' /\ IsLoggingOut' = IsLoggingOut
    BY <2>1 DEF Inv, CallTypes, IsLoggingOut, InFlight
  <2> QED  BY <2>2, <2>3 DEF Inv, TabInv, SessionIsTimed
<1> QED  BY <1>1, <1>2, <1>3, <1>4, <1>5, <1>6, <1>7

(* Answers arrive, are lost, or a logout goes on without one.              *)
LEMMA AnswersKeepInv ==
  ASSUME Inv, NEW c \in Calls \cup {Logout},
         Deliver(c) \/ Lose(c) \/ (c = Logout /\ FinishLogout)
  PROVE  Inv'
<1>1. /\ call' = [call EXCEPT ![c] = Idle] /\ idle' = idle
      /\ CallTypes' /\ (c # Logout /\ IsLoggingOut => IsLoggingOut')
  <2>1. call' = [call EXCEPT ![c] = Idle] /\ idle' = idle
    BY DEF Deliver, Lose, FinishLogout
  <2> QED  BY <2>1, CallEnds
<1>2. CASE Leave
  BY <1>1, <1>2, LeaveKeepsInv
<1>3. CASE c # Logout /\ UNCHANGED tab
  BY <1>1, <1>3, StayKeepsInv DEF tab
<1>4. ASSUME Deliver(c), call[c].issued # NULL, c # Logout
      PROVE  Inv'
  <2>1. ChangeTab(call[c].issued, page.public)
    BY <1>4 DEF Deliver
  <2>2. call[c] \in Call
    BY <1>4, IdleIsNone DEF Deliver, Inv, CallTypes
  <2>3. PICK t \in Tokens \cup {NULL}, public \in BOOLEAN :
          t = call[c].issued /\ public = page.public /\ t # NULL
    BY <1>4, <2>2 DEF Call, Inv
  <2>4. ChangeTab(t, public)
    BY <2>1, <2>3
  <2>5. /\ TabInv'
        /\ IsEnabled' /\ IsEnabled => timer'.armed = timer.armed
        /\ IsEnabled' /\ ~IsEnabled => timer'.armed
    BY <1>1, <2>4, ChangeTabKeeps
  <2> QED  BY <1>1, <1>4, <2>5 DEF Inv, TabInv, SessionIsTimed
<1>5. Deliver(c) => c # Logout /\ (call[c].issued # NULL \/ Leave \/ UNCHANGED tab)
  <2>1. CASE call[c].issued # NULL
    BY <2>1 DEF Deliver
  <2>2. CASE call[c].issued = NULL /\ call[c].step = "denied" /\ held # NULL /\ ~IsLoggingOut
    BY <2>2 DEF Deliver
  <2>3. CASE call[c].issued = NULL /\ ~(call[c].step = "denied" /\ held # NULL /\ ~IsLoggingOut)
    BY <2>3 DEF Deliver
  <2> QED  BY <2>1, <2>2, <2>3
<1>6. Lose(c) => Leave \/ (c # Logout /\ UNCHANGED tab)
  BY DEF Lose
<1> QED  BY <1>2, <1>3, <1>4, <1>5, <1>6 DEF FinishLogout

LEMMA TimeKeepsInv ==
  ASSUME Inv, MinutePasses
  PROVE  Inv'
<1>1. /\ held' = held /\ page' = page /\ call' = call
  BY DEF MinutePasses
<1>2. PICK age \in 0..Inactivity, since \in 0..Inactivity, n \in 0..Inactivity :
        age = timer.age /\ since = timer.since /\ n = idle /\ n <= since
  BY DEF Inv, Timer
<1>3. Inactivity \in Nat
  BY SessionConstants
<1>4. /\ Later(age, Inactivity) \in 0..Inactivity /\ Later(since, Inactivity) \in 0..Inactivity
      /\ Later(n, Inactivity) \in 0..Inactivity
      /\ Later(n, Inactivity) <= Later(since, Inactivity)
  BY <1>2, <1>3 DEF Later
<1> DEFINE newAge == IF timer.armed THEN Later(timer.age, Inactivity) ELSE timer.age
           newSince == Later(timer.since, Inactivity)
<1>5. newAge \in 0..Inactivity /\ newSince \in 0..Inactivity
  BY <1>2, <1>4
<1>6. timer' = [timer EXCEPT !.age = newAge, !.since = newSince]
      /\ idle' = Later(idle, Inactivity)
  BY DEF MinutePasses
<1>7. idle' \in 0..Inactivity /\ idle' <= newSince
  BY <1>2, <1>4, <1>6
<1> HIDE DEF newAge, newSince
<1>8. timer' \in Timer /\ timer'.armed = timer.armed /\ timer'.since = newSince
  BY <1>5, <1>6 DEF Inv, Timer
<1> QED  BY <1>1, <1>7, <1>8 DEF Inv, CallTypes, SessionIsTimed, IsEnabled, Enabled, IsLoggingOut, InFlight

LEMMA PollKeepsInv ==
  ASSUME Inv, NEW c \in Calls, Poll(c)
  PROVE  Inv'
<1> DEFINE q == Send(held)
<1>1. q \in Call
  BY DEF Send, Call, Inv
<1>2. call' = [call EXCEPT ![c] = q] /\ UNCHANGED <<held, page, timer, idle>> /\ c # Logout
  BY SessionConstants DEF Poll, tab
<1> HIDE DEF q
<1>3. CallTypes' /\ (IsLoggingOut => IsLoggingOut')
  BY <1>1, <1>2, CallGoesOn
<1> QED  BY <1>2, <1>3, StayKeepsInv

-----------------------------------------------------------------------------

LEMMA InitInv == Init => Inv
<1> SUFFICES ASSUME Init PROVE Inv
  OBVIOUS
<1>1. 0 \in 0..Inactivity /\ 0 <= 0
  BY SessionConstants
<1> QED  BY <1>1 DEF Init, Inv, CallTypes, Timer, SessionIsTimed, IsEnabled, Enabled

LEMMA NextKeepsInv == Inv /\ Next => Inv'
<1> SUFFICES ASSUME Inv, Next PROVE Inv'
  OBVIOUS
<1>1. CASE User \/ TimeOut
  BY <1>1, TabKeepsInv DEF User
<1>2. CASE Deactivate
  <2>1. UNCHANGED <<held, page, timer, call, idle>>
    BY <1>2 DEF Deactivate, tab
  <2> QED  BY <2>1 DEF Inv, CallTypes, SessionIsTimed, IsEnabled, Enabled, IsLoggingOut, InFlight
<1>3. CASE MinutePasses
  BY <1>3, TimeKeepsInv
<1>4. CASE \E c \in Calls : Poll(c)
  BY <1>4, PollKeepsInv
<1>5. CASE \E c \in Calls \cup {Logout} : Serve(c) \/ Lose(c)
  BY <1>5, ServerKeepsInv, AnswersKeepInv DEF Serve
<1> QED  BY <1>1, <1>2, <1>3, <1>4, <1>5 DEF Next

LEMMA StutteringKeepsInv == Inv /\ UNCHANGED vars => Inv'
BY DEF vars, tab, Inv, CallTypes, SessionIsTimed, IsEnabled, Enabled, IsLoggingOut, InFlight

(* The tab's part of the state keeps its type, and the timers never know   *)
(* of more recent activity than there was.                                 *)
THEOREM SessionInvariance == Spec => []Inv
BY InitInv, NextKeepsInv, StutteringKeepsInv, PTL DEF Spec

(* SessionManager and useInactivityTimeout: no order of events, late       *)
(* answers and lost logouts included, leaves a session on a private page   *)
(* with neither timers nor a logout on its way.                            *)
THEOREM SessionsAreTimed == Spec => []SessionIsTimed
<1>1. Inv => SessionIsTimed
  BY DEF Inv
<1> QED  BY <1>1, SessionInvariance, PTL

IdleEnds ==
  ~page.visible /\ page'.visible /\ IsEnabled /\ idle = Inactivity => IsLoggingOut'

LEMMA ReturnsEndIdleSessions == Inv /\ [Next]_vars => IdleEnds
<1> SUFFICES ASSUME Inv, [Next]_vars, ~page.visible, page'.visible, IsEnabled, idle = Inactivity
             PROVE  IsLoggingOut'
  BY DEF IdleEnds
<1>1. CASE Show
  <2>1. timer.since \in 0..Inactivity /\ timer.since >= Inactivity /\ Inactivity \in Nat
    BY SessionConstants DEF Inv, Timer
  <2>2. {Warning, Inactivity} \subseteq Nat /\ ~(timer.since \in (Inactivity - Warning)..(Inactivity - 1))
        /\ ~(timer.since < Inactivity - Warning)
    BY <2>1, SessionConstants
  <2>3. LogoutSession
    BY <1>1, <2>2 DEF Show, Return
  <2> QED  BY <2>3, LogoutSessionChanges
<1>2. CASE ~Show
  <2>1. ASSUME NEW token, NEW public, ChangeTab(token, public)
        PROVE  FALSE
    BY <2>1 DEF ChangeTab, Inv
  <2>2. page' # page
    OBVIOUS
  <2>3. ~(Navigate \/ SignIn \/ Leave)
    BY <2>1 DEF Navigate, SignIn, Leave
  <2>4. ASSUME NEW c \in Calls \cup {Logout}, Deliver(c)
        PROVE  FALSE
    <3>1. Leave \/ UNCHANGED page \/ ChangeTab(call[c].issued, page.public)
      BY <2>4 DEF Deliver, tab
    <3> QED  BY <2>1, <2>2, <2>3, <3>1
  <2>5. CASE Hide
    BY <2>5 DEF Hide
  <2>6. ASSUME NEW c \in Calls \cup {Logout}, Serve(c) \/ Lose(c)
        PROVE  FALSE
    <3>1. Leave \/ UNCHANGED page \/ Deliver(c)
      BY <2>6 DEF Serve, Lose, Authenticate, Deny, Answer, ServeLogout, FinishLogout, tab
    <3> QED  BY <2>2, <2>3, <2>4, <3>1
  <2>7. CASE Next
    <3>1. UNCHANGED page \/ Navigate \/ SignIn \/ Hide
          \/ \E c \in Calls \cup {Logout} : Serve(c) \/ Lose(c)
      BY <1>2, <2>7 DEF Next, User, SignOut, Act, TimeOut, Deactivate, MinutePasses, Poll, tab
    <3> QED  BY <2>2, <2>3, <2>5, <2>6, <3>1
  <2>8. ~UNCHANGED vars
    BY <2>2 DEF vars, tab
  <2> QED  BY <2>7, <2>8
<1> QED  BY <1>1, <1>2

(* handleVisibilityChange: whoever comes back to a session that nobody has *)
(* used for the whole time finds it ending, although the browser may have  *)
(* held back both timeouts of the hidden tab.                              *)
THEOREM IdleSessionsAreEnded == Spec => IdleSessionsEnd
<1>1. Inv /\ [Next]_vars => [IdleEnds]_vars
  BY ReturnsEndIdleSessions
<1>2. IdleSessionsEnd <=> [][IdleEnds]_vars
  BY PTL DEF IdleSessionsEnd, IdleEnds
<1> QED  BY <1>1, <1>2, SessionInvariance, PTL DEF Spec
=============================================================================
