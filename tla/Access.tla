------------------------------- MODULE Access -------------------------------
(***************************************************************************)
(* auth.service.ts: who may sign in.  One account, the attempts to sign in *)
(* to it (validateUser), its deactivation and reactivation by root, and    *)
(* the links by which its password is set anew.                            *)
(*                                                                         *)
(* No request holds a transaction.  An attempt reads the account once,     *)
(* waits for reCAPTCHA and bcrypt, and writes what it computed from the    *)
(* reading: the number of failures, the status and the end of the lock are *)
(* written as values, whatever they have become meanwhile.                 *)
(***************************************************************************)
EXTENDS Integers, FiniteSets

CONSTANTS
  Requests,     \* requests that may be in progress at the same time
  Links,        \* bound: links sent in the instance
  CaptchaAfter, \* CAPTCHA_AFTER_FAILED_ATTEMPTS
  MaxFailed,    \* MAX_LOGIN_FAILED_ATTEMPTS
  TriesBound,   \* how many wrong passwords may be tried, see TriesAreBounded
  MaxActivations,  \* bound: how often root intervenes
  Conflicts,    \* pairs of operations that never overlap in the instance
  NULL

ASSUME AccessConstants ==
  /\ {CaptchaAfter, MaxFailed, TriesBound} \subseteq Nat \ {0}
  /\ MaxActivations \in Nat /\ CaptchaAfter < MaxFailed
  /\ Links \subseteq Nat \ {0} /\ NULL \notin Links

VARIABLES
  user,      \* the account's row in table User
  link,      \* table PasswordResetToken
  request,   \* what each request in progress has read
  tries,     \* history: wrong passwords since the last right one or unlocking
  sets,      \* history: passwords set by each link
  activations

vars == <<user, link, request, tries, sets, activations>>
history == <<tries, sets, activations>>

User == [status: {"active", "blocked", "inactive"},
         failedAttempts: 0..(MaxFailed + MaxActivations),
         blockedUntil: {"future", "past", NULL}]
Request == [op: {"login", "forgot", "reset", "activate", "deactivate"},
            step: {"recover", "unblock", "check", "fail", "succeed", "write", "use"},
            failed: 0..(MaxFailed + MaxActivations), until: BOOLEAN, link: Links \cup {NULL}]
Idle == [op |-> "idle"]

Init ==
  /\ user = [status |-> "active", failedAttempts |-> 0, blockedUntil |-> NULL]
  /\ link = [l \in Links |-> "none"]
  /\ request = [r \in Requests |-> Idle]
  /\ tries = 0 /\ sets = [l \in Links |-> 0] /\ activations = 0

Running(r, op, step) == request[r].op = op /\ request[r].step = step
GoTo(r, step) == request' = [request EXCEPT ![r].step = step]
Finish(r) == request' = [request EXCEPT ![r] = Idle]

MayStart(r, op) ==
  /\ request[r] = Idle
  /\ \A s \in Requests : request[s].op # "idle" => {op, request[s].op} \notin Conflicts

Start(r, op, step, l) ==
  /\ MayStart(r, op)
  /\ request' = [request EXCEPT ![r] = [op |-> op, step |-> step,
       failed |-> IF user.status = "active" THEN user.failedAttempts ELSE 0,
       until |-> user.status = "active" /\ user.blockedUntil # NULL, link |-> l]]

-----------------------------------------------------------------------------
(* validateUser *)

(* Mutants: whoever tries during the lock starts it anew; an inactive      *)
(* account is not told from an active one.                                 *)
FirstStepRelocking ==
  CASE user.status = "active" -> {"check"}
    [] user.status = "blocked" /\ user.blockedUntil # "past" -> {"recover"}
    [] user.status = "blocked" /\ user.blockedUntil = "past" -> {"unblock"}
    [] OTHER -> {}
FirstStepUnlessBlocked ==
  CASE user.status # "blocked" -> {"check"}
    [] user.blockedUntil = NULL -> {"recover"}
    [] user.blockedUntil = "past" -> {"unblock"}
    [] OTHER -> {}

(* The account is read.  A lock without an end is given one, one that has  *)
(* ended is lifted, and during a lock, or when the account is inactive, the*)
(* attempt is refused at once.                                             *)
FirstStep ==
  CASE user.status = "active" -> {"check"}
    [] user.status = "blocked" /\ user.blockedUntil = NULL -> {"recover"}
    [] user.status = "blocked" /\ user.blockedUntil = "past" -> {"unblock"}
    [] OTHER -> {}

Attempt(r) ==
  /\ \E step \in FirstStep : Start(r, "login", step, NULL)
  /\ UNCHANGED <<user, link, history>>

RecoverLock(r) ==
  /\ Running(r, "login", "recover")
  /\ user' = [user EXCEPT !.blockedUntil = "future"]
  /\ Finish(r)
  /\ UNCHANGED <<link, history>>

Unblock(r) ==
  /\ Running(r, "login", "unblock")
  /\ user' = [status |-> "active", failedAttempts |-> 0, blockedUntil |-> NULL]
  /\ GoTo(r, "check") /\ tries' = 0
  /\ UNCHANGED <<link, sets, activations>>

(* reCAPTCHA, after some failures, and bcrypt; both may fail.  A right     *)
(* password has something to write when there were failures or a lock.     *)
Check(r) ==
  LET q == request[r] IN
  /\ Running(r, "login", "check")
  /\ \/ /\ q.failed >= CaptchaAfter
        /\ GoTo(r, "fail") /\ UNCHANGED tries
     \/ GoTo(r, "fail") /\ tries' = IF tries > TriesBound THEN tries ELSE tries + 1
     \/ IF q.failed > 0 \/ q.until THEN GoTo(r, "succeed") /\ UNCHANGED tries
        ELSE Finish(r) /\ tries' = 0
  /\ UNCHANGED <<user, link, sets, activations>>

(* Mutant: one failure more is allowed.                                    *)
ShouldBlockLater(failed) == failed > MaxFailed

ShouldBlock(failed) == failed >= MaxFailed

(* Both failures write the same.                                           *)
RecordFailure(r) ==
  LET failed == request[r].failed + 1 IN
  /\ Running(r, "login", "fail")
  /\ user' = IF ShouldBlock(failed)
             THEN [status |-> "blocked", failedAttempts |-> failed, blockedUntil |-> "future"]
             ELSE [status |-> "active", failedAttempts |-> failed, blockedUntil |-> NULL]
  /\ Finish(r)
  /\ UNCHANGED <<link, history>>

(* A right password leaves the status alone.                               *)
RecordSuccess(r) ==
  /\ Running(r, "login", "succeed")
  /\ user' = [user EXCEPT !.failedAttempts = 0, !.blockedUntil = NULL]
  /\ Finish(r) /\ tries' = 0
  /\ UNCHANGED <<link, sets, activations>>

-----------------------------------------------------------------------------
(* deactivateAdmin and activateAdmin *)

StartSetStatus(r) ==
  /\ \/ /\ user.status # "inactive" /\ Start(r, "deactivate", "write", NULL)
        /\ UNCHANGED activations
     \/ /\ user.status # "active" /\ activations < MaxActivations
        /\ Start(r, "activate", "write", NULL)
        /\ activations' = activations + 1
  /\ UNCHANGED <<user, link, tries, sets>>

Deactivate(r) ==
  /\ Running(r, "deactivate", "write")
  /\ user' = [user EXCEPT !.status = "inactive"]
  /\ Finish(r)
  /\ UNCHANGED <<link, history>>

Activate(r) ==
  /\ Running(r, "activate", "write")
  /\ user' = [user EXCEPT !.status = "active"]
  /\ Finish(r)
  /\ tries' = 0
  /\ UNCHANGED <<link, sets, activations>>

-----------------------------------------------------------------------------
(* forgotPassword and resetPassword *)

(* Bound: a link is asked for only while there is an id left for it.       *)
LinkIdLeft ==
  Cardinality({l \in Links : link[l] = "none"})
    > Cardinality({r \in Requests : request[r].op = "forgot"})

(* The links of the account are deleted,                                   *)
ForgotPassword(r) ==
  /\ LinkIdLeft
  /\ Start(r, "forgot", "write", NULL)
  /\ link' = [l \in Links |-> IF link[l] = "none" THEN "none" ELSE "gone"]
  /\ UNCHANGED <<user, history>>

(* and a new one is made.                                                  *)
CreateLink(r) ==
  /\ Running(r, "forgot", "write")
  /\ \E l \in Links : /\ link[l] = "none" /\ \A k \in Links : k < l => link[k] # "none"
                      /\ link' = [link EXCEPT ![l] = "unused"]
  /\ Finish(r)
  /\ UNCHANGED <<user, history>>

(* Mutant: a link is found whether it has been used or not.                *)
IsUsableAgain(l) == link[l] \in {"unused", "used"}

(* findMany of the unused links that have not expired.                     *)
IsUsable(l) == link[l] = "unused"

ResetPassword(r) ==
  /\ \E l \in Links : IsUsable(l) /\ Start(r, "reset", "write", l)
  /\ UNCHANGED <<user, link, history>>

SetPassword(r) ==
  /\ Running(r, "reset", "write")
  /\ sets' = [sets EXCEPT ![request[r].link] = @ + 1]
  /\ GoTo(r, "use")
  /\ UNCHANGED <<user, link, tries, activations>>

(* usedAt is set; a link that is gone makes this fail, after the password  *)
(* has been set.                                                           *)
UseLink(r) ==
  /\ Running(r, "reset", "use")
  /\ link' = [link EXCEPT ![request[r].link] = IF @ = "gone" THEN @ ELSE "used"]
  /\ Finish(r)
  /\ UNCHANGED <<user, history>>

-----------------------------------------------------------------------------
(* A lock or a link comes to its end.                                      *)
LockEnds ==
  /\ user.blockedUntil = "future"
  /\ user' = [user EXCEPT !.blockedUntil = "past"]
  /\ UNCHANGED <<link, request, history>>

LinkExpires(l) ==
  /\ link[l] = "unused"
  /\ link' = [link EXCEPT ![l] = "expired"]
  /\ UNCHANGED <<user, request, history>>

Arrive(r) == Attempt(r) \/ StartSetStatus(r) \/ ForgotPassword(r) \/ ResetPassword(r)

Step(r) ==
  \/ RecoverLock(r) \/ Unblock(r) \/ Check(r) \/ RecordFailure(r) \/ RecordSuccess(r)
  \/ Deactivate(r) \/ Activate(r)
  \/ CreateLink(r) \/ SetPassword(r) \/ UseLink(r)

Next == \/ \E r \in Requests : Arrive(r) \/ Step(r)
        \/ LockEnds \/ \E l \in Links : LinkExpires(l)

Spec == Init /\ [][Next]_vars

(* The process runs what it has accepted, time passes, and somebody keeps  *)
(* trying to sign in.                                                      *)
FairSpec == /\ Spec /\ WF_vars(LockEnds)
            /\ \A r \in Requests : WF_vars(Step(r)) /\ SF_vars(Attempt(r))

-----------------------------------------------------------------------------
(* Properties *)

TypeOK ==
  /\ user \in User
  /\ link \in [Links -> {"none", "unused", "expired", "used", "gone"}]
  /\ request \in [Requests -> Request \cup {Idle}]
  /\ tries \in 0..(TriesBound + 1) /\ sets \in [Links -> Nat]
  /\ activations \in 0..MaxActivations

(* However attempts overlap, and although a late one may undo the counting *)
(* and even the lock of the others, only so many wrong passwords can be    *)
(* tried before one is right, the lock has been sat out, or root steps in: *)
(* TriesBound, for as many attempts at a time as there are requests.       *)
TriesAreBounded == tries <= TriesBound

(* A lock ends: trying during it does not prolong it, and one that an      *)
(* overlapping success has left without an end gets one.                   *)
LocksEnd == user.status = "blocked" ~> user.status # "blocked"

(* "Desactiva un administrador": only root lets an inactive administrator  *)
(* in again.                                                               *)
DeactivatedStaysOut ==
  [][user.status = "inactive" /\ user'.status # "inactive" =>
       \E r \in Requests : Running(r, "activate", "write") /\ request'[r] = Idle]_vars

(* A link that was used or replaced lets nobody new in: it sets passwords  *)
(* only for the requests that had found it before, as many as may be in    *)
(* progress together.  (Each of those sets one: nothing makes the first of *)
(* them stop the others.)                                                  *)
LinkUsesAreBounded == \A l \in Links : sets[l] <= Cardinality(Requests)
=============================================================================
