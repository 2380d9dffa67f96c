---------------------------- MODULE AccessProofs ----------------------------
(***************************************************************************)
(* Proofs about who may sign in, for any number of links and limits: a    *)
(* link sets no more passwords than requests are in progress at a time; a  *)
(* deactivated administrator stays out if root's deactivation does not     *)
(* overlap an attempt to sign in; and two requests at a time try a bounded *)
(* number of wrong passwords.                                              *)
(***************************************************************************)
EXTENDS Access, FiniteSetTheorems, TLAPS

(* The types without the limits of an instance.                            *)
AnyUser == [status: {"active", "blocked", "inactive"}, failedAttempts: Nat,
            blockedUntil: {"future", "past", NULL}]
AnyRequest == [op: {"login", "forgot", "reset", "activate", "deactivate"},
               step: {"recover", "unblock", "check", "fail", "succeed", "write", "use"},
               failed: Nat, until: BOOLEAN, link: Links \cup {NULL}]

Types ==
  /\ user \in AnyUser
  /\ link \in [Links -> {"none", "unused", "expired", "used", "gone"}]
  /\ request \in [Requests -> AnyRequest \cup {Idle}]
  /\ sets \in [Links -> Nat]

Is(r, op) == request[r].op = op

(* The requests that reset the password by a link, and those of them that *)
(* have yet to set it.                                                     *)
Resetting(l) == {r \in Requests : request[r].op = "reset" /\ request[r].link = l}
ToSet(l) == {r \in Resetting(l) : request[r].step = "write"}

(* While a link can be found, who has set a password by it is still there; *)
(* from then on only those that have found it remain.                      *)
ResetInv ==
  /\ Types
  /\ \A r \in Requests : request[r].op = "reset" => request[r].link \in Links
  /\ \A l \in Links :
       /\ link[l] = "none" => sets[l] = 0 /\ Resetting(l) = {}
       /\ link[l] = "unused" =>
            sets[l] + Cardinality(ToSet(l)) <= Cardinality(Resetting(l))
       /\ sets[l] + Cardinality(ToSet(l)) <= Cardinality(Requests)

(* Who tries to sign in was not inactive when it began, nor has become so. *)
LoginInv ==
  /\ Types
  /\ \A r \in Requests : Is(r, "login") => user.status # "inactive"
  /\ \A r, s \in Requests : Is(r, "login") => ~Is(s, "deactivate")

DeactivationWaitsForAttempts == {"login", "deactivate"} \in Conflicts

-----------------------------------------------------------------------------
(* How a step changes the requests. *)

LEMMA IdleIsNone == Idle \notin AnyRequest /\ Idle.op = "idle"
<1>1. Idle.op = "idle"
  BY DEF Idle
<1> QED  BY <1>1 DEF AnyRequest

(* A request begins, with what it has read.                                *)
LEMMA StartChanges ==
  ASSUME Types, NEW r \in Requests,
         NEW op \in {"login", "forgot", "reset", "activate", "deactivate"},
         NEW step \in {"recover", "unblock", "check", "write"},
         NEW l \in Links \cup {NULL}, Start(r, op, step, l)
  PROVE  /\ request' \in [Requests -> AnyRequest \cup {Idle}]
         /\ request'[r].op = op /\ request'[r].step = step /\ request'[r].link = l
         /\ \A s \in Requests \ {r} : request'[s] = request[s]
         /\ request[r] = Idle
         /\ \A s \in Requests : request[s].op # "idle" => {op, request[s].op} \notin Conflicts
<1> DEFINE failed == IF user.status = "active" THEN user.failedAttempts ELSE 0
           until == user.status = "active" /\ user.blockedUntil # NULL
           c == [op |-> op, step |-> step, failed |-> failed, until |-> until, link |-> l]
<1>1. request' = [request EXCEPT ![r] = c] /\ MayStart(r, op)
  BY DEF Start
<1>2. failed \in Nat /\ until \in BOOLEAN
  BY DEF Types, AnyUser
<1> HIDE DEF failed, until
<1>3. c \in AnyRequest /\ c.op = op /\ c.step = step /\ c.link = l
  BY <1>2 DEF AnyRequest
<1> HIDE DEF c
<1>4. request' \in [Requests -> AnyRequest \cup {Idle}]
      /\ request'[r] = c /\ \A s \in Requests \ {r} : request'[s] = request[s]
  BY <1>1, <1>3 DEF Types
<1> QED  BY <1>1, <1>3, <1>4 DEF MayStart

LEMMA GoToChanges ==
  ASSUME Types, NEW r \in Requests, request[r].op # "idle",
         NEW step \in {"check", "fail", "succeed", "use"}, GoTo(r, step)
  PROVE  /\ request' \in [Requests -> AnyRequest \cup {Idle}]
         /\ request'[r].op = request[r].op /\ request'[r].step = step
         /\ request'[r].link = request[r].link
         /\ \A s \in Requests \ {r} : request'[s] = request[s]
<1> DEFINE c == [request[r] EXCEPT !.step = step]
<1>1. request[r] \in AnyRequest
  BY IdleIsNone DEF Types
<1>2. request' = [request EXCEPT ![r] = c]
  BY DEF GoTo
<1>3. c \in AnyRequest /\ c.op = request[r].op /\ c.step = step /\ c.link = request[r].link
  BY <1>1 DEF AnyRequest
<1> HIDE DEF c
<1> QED  BY <1>2, <1>3 DEF Types

LEMMA FinishChanges ==
  ASSUME Types, NEW r \in Requests, Finish(r)
  PROVE  /\ request' \in [Requests -> AnyRequest \cup {Idle}]
         /\ request'[r] = Idle /\ request'[r].op = "idle"
         /\ \A s \in Requests \ {r} : request'[s] = request[s]
BY IdleIsNone DEF Types, Finish

-----------------------------------------------------------------------------
(* Types. *)

LEMMA AttemptsKeepTypes ==
  ASSUME Types, NEW r \in Requests,
         \/ Attempt(r) \/ RecoverLock(r) \/ Unblock(r) \/ Check(r)
         \/ RecordFailure(r) \/ RecordSuccess(r)
  PROVE  /\ user' \in AnyUser /\ link' = link /\ sets' = sets
         /\ request' \in [Requests -> AnyRequest \cup {Idle}]
         /\ request[r].op \in {"login", "idle"} /\ request'[r].op \in {"login", "idle"}
         /\ \A s \in Requests \ {r} : request'[s] = request[s]
<1>1. CASE Attempt(r)
  <2>1. PICK step \in {"recover", "unblock", "check"} : Start(r, "login", step, NULL)
    BY <1>1 DEF Attempt, FirstStep
  <2> QED  BY <1>1, <2>1, StartChanges, IdleIsNone DEF Attempt, history, Types
<1>2. CASE RecoverLock(r)
  <2>1. user' \in AnyUser
    BY <1>2 DEF RecoverLock, Types, AnyUser
  <2> QED  BY <1>2, <2>1, FinishChanges DEF RecoverLock, history, Running
<1>3. CASE Unblock(r)
  <2>1. user' \in AnyUser /\ request[r].op = "login"
    BY <1>3 DEF Unblock, AnyUser, Running
  <2> QED  BY <1>3, <2>1, GoToChanges DEF Unblock
<1>4. CASE Check(r)
  <2>1. request[r].op = "login" /\ user' = user /\ link' = link /\ sets' = sets
    BY <1>4 DEF Check, Running
  <2>2. GoTo(r, "fail") \/ GoTo(r, "succeed") \/ Finish(r)
    BY <1>4 DEF Check
  <2> QED  BY <2>1, <2>2, GoToChanges, FinishChanges DEF Types
<1>5. CASE RecordFailure(r)
  <2> DEFINE failed == request[r].failed + 1
  <2>1. request[r] \in AnyRequest
    BY <1>5, IdleIsNone DEF RecordFailure, Running, Types
  <2>2. failed \in Nat
    BY <2>1 DEF AnyRequest
  <2>3. \/ user' = [status |-> "blocked", failedAttempts |-> failed, blockedUntil |-> "future"]
        \/ user' = [status |-> "active", failedAttempts |-> failed, blockedUntil |-> NULL]
    BY <1>5 DEF RecordFailure
  <2> HIDE DEF failed
  <2>4. user' \in AnyUser
    BY <2>2, <2>3 DEF AnyUser
  <2> QED  BY <1>5, <2>4, FinishChanges DEF RecordFailure, history, Running
<1>6. CASE RecordSuccess(r)
  <2>1. user' \in AnyUser
    BY <1>6 DEF RecordSuccess, Types, AnyUser
  <2> QED  BY <1>6, <2>1, FinishChanges DEF RecordSuccess, Running
<1> QED  BY <1>1, <1>2, <1>3, <1>4, <1>5, <1>6

LEMMA ActivationsKeepTypes ==
  ASSUME Types, NEW r \in Requests, StartSetStatus(r) \/ Deactivate(r) \/ Activate(r)
  PROVE  /\ user' \in AnyUser /\ link' = link /\ sets' = sets
         /\ request' \in [Requests -> AnyRequest \cup {Idle}]
         /\ request[r].op \in {"activate", "deactivate", "idle"}
         /\ request'[r].op \in {"activate", "deactivate", "idle"}
         /\ \A s \in Requests \ {r} : request'[s] = request[s]
<1>1. CASE StartSetStatus(r)
  <2>1. PICK op \in {"activate", "deactivate"} : Start(r, op, "write", NULL)
    BY <1>1 DEF StartSetStatus
  <2> QED  BY <1>1, <2>1, StartChanges, IdleIsNone DEF StartSetStatus, Types
<1>2. CASE Deactivate(r) \/ Activate(r)
  <2>1. user' \in AnyUser
    BY <1>2 DEF Deactivate, Activate, Types, AnyUser
  <2> QED  BY <1>2, <2>1, FinishChanges DEF Deactivate, Activate, history, Running
<1> QED  BY <1>1, <1>2

LEMMA LinksKeepTypes ==
  ASSUME Types, NEW r \in Requests,
         ForgotPassword(r) \/ CreateLink(r) \/ ResetPassword(r) \/ SetPassword(r) \/ UseLink(r)
  PROVE  /\ user' = user
         /\ link' \in [Links -> {"none", "unused", "expired", "used", "gone"}]
         /\ sets' \in [Links -> Nat]
         /\ request' \in [Requests -> AnyRequest \cup {Idle}]
         /\ request'[r].op \in {"forgot", "reset", "idle"}
         /\ \A s \in Requests \ {r} : request'[s] = request[s]
<1>1. CASE ForgotPassword(r)
  <2>1. Start(r, "forgot", "write", NULL)
    BY <1>1 DEF ForgotPassword
  <2>2. /\ link' \in [Links -> {"none", "unused", "expired", "used", "gone"}]
        /\ user' = user /\ sets' = sets
    BY <1>1 DEF ForgotPassword, history, Types
  <2> QED  BY <2>1, <2>2, StartChanges DEF Types
<1>2. CASE CreateLink(r)
  BY <1>2, FinishChanges DEF CreateLink, history, Types
<1>3. CASE ResetPassword(r)
  <2>1. PICK l \in Links : Start(r, "reset", "write", l)
    BY <1>3 DEF ResetPassword
  <2> QED  BY <1>3, <2>1, StartChanges DEF ResetPassword, history, Types
<1>4. CASE SetPassword(r)
  <2>1. request[r].op = "reset" /\ GoTo(r, "use") /\ UNCHANGED <<user, link>>
    BY <1>4 DEF SetPassword, Running
  <2> DEFINE l == request[r].link
  <2>2. sets' = [sets EXCEPT ![l] = @ + 1] /\ sets \in [Links -> Nat]
    BY <1>4 DEF SetPassword, Types
  <2> HIDE DEF l
  <2>3. sets' \in [Links -> Nat]
    <3>1. CASE l \in Links
      <4>1. sets[l] + 1 \in Nat
        BY <2>2, <3>1
      <4> QED  BY <2>2, <4>1
    <3>2. CASE l \notin Links
      <4>1. sets' = sets
        BY <2>2, <3>2
      <4> QED  BY <2>2, <4>1
    <3> QED  BY <3>1, <3>2
  <2> QED  BY <2>1, <2>3, GoToChanges DEF Types
<1>5. CASE UseLink(r)
  <2>1. link' \in [Links -> {"none", "unused", "expired", "used", "gone"}]
    BY <1>5 DEF UseLink, Types
  <2> QED  BY <1>5, <2>1, FinishChanges DEF UseLink, history, Types
<1> QED  BY <1>1, <1>2, <1>3, <1>4, <1>5

LEMMA InitTypes == Init => Types
BY IdleIsNone DEF Init, Types, AnyUser

-----------------------------------------------------------------------------
(* How many passwords a link sets. *)

(* A step of another kind than a reset makes no link usable again.         *)
LEMMA OthersKeepResets ==
  ASSUME ResetInv, Types', sets' = sets, NEW r \in Requests,
         \A s \in Requests \ {r} : request'[s] = request[s],
         request[r].op # "reset", request'[r].op # "reset",
         \A l \in Links : \/ link'[l] = link[l] \/ link[l] = "none"
                          \/ link'[l] \in {"expired", "used", "gone"}
  PROVE  ResetInv'
<1>1. \A l \in Links : Resetting(l)' = Resetting(l) /\ ToSet(l)' = ToSet(l)
  BY DEF Resetting, ToSet
<1>2. \A s \in Requests : request'[s].op = "reset" => request'[s].link \in Links
  BY DEF ResetInv
<1>3. \A l \in Links : sets[l] \in Nat
  BY DEF ResetInv, Types
<1>4. ASSUME NEW l \in Links, link[l] = "none"
      PROVE  /\ sets[l] = 0 /\ Resetting(l) = {} /\ Cardinality(ToSet(l)) = 0
             /\ Cardinality(Resetting(l)) = 0
  BY <1>4, FS_EmptySet DEF ResetInv, ToSet
<1>5. ASSUME NEW l \in Links
      PROVE  /\ link'[l] = "none" => sets'[l] = 0 /\ Resetting(l)' = {}
             /\ link'[l] = "unused" =>
                  sets'[l] + Cardinality(ToSet(l)') <= Cardinality(Resetting(l)')
             /\ sets'[l] + Cardinality(ToSet(l)') <= Cardinality(Requests)'
  <2>1. /\ link[l] = "none" => sets[l] = 0 /\ Resetting(l) = {}
        /\ link[l] = "unused" => sets[l] + Cardinality(ToSet(l)) <= Cardinality(Resetting(l))
        /\ sets[l] + Cardinality(ToSet(l)) <= Cardinality(Requests)
    BY DEF ResetInv
  <2>2. CASE link[l] = "none"
    BY <1>1, <1>4, <2>1, <2>2
  <2>3. CASE link[l] # "none"
    BY <1>1, <2>1, <2>3
  <2> QED  BY <2>2, <2>3
<1> QED  BY <1>2, <1>5 DEF ResetInv

(* A reset that begins finds the link unused; when it sets the password it *)
(* is no longer about to, and when it ends nobody finds the link any more. *)
LEMMA ResetsPreserve ==
  ASSUME ResetInv, IsFiniteSet(Requests), NEW r \in Requests,
         ResetPassword(r) \/ SetPassword(r) \/ UseLink(r)
  PROVE  ResetInv'
<1>0. Types
  BY DEF ResetInv
<1>1. Types'
  BY <1>0, LinksKeepTypes DEF Types, AnyUser, AnyRequest, Idle
<1>2. \A l \in Links : IsFiniteSet(Resetting(l)) /\ IsFiniteSet(ToSet(l))
  <2>1. \A l \in Links : Resetting(l) \in SUBSET Requests /\ ToSet(l) \in SUBSET Requests
    BY DEF Resetting, ToSet
  <2> QED  BY <2>1, FS_Subset
<1>3. \A l \in Links : /\ sets[l] \in Nat
                       /\ Cardinality(Resetting(l)) \in Nat /\ Cardinality(ToSet(l)) \in Nat
  BY <1>0, <1>2, FS_CardinalityType DEF Types
<1>4. Cardinality(Requests) \in Nat
  BY FS_CardinalityType
<1>5. CASE ResetPassword(r)
  <2>1. PICK l \in Links : IsUsable(l) /\ Start(r, "reset", "write", l)
    BY <1>5 DEF ResetPassword
  <2>2. /\ request'[r].op = "reset" /\ request'[r].step = "write" /\ request'[r].link = l
        /\ \A s \in Requests \ {r} : request'[s] = request[s]
        /\ request[r] = Idle
    BY <1>0, <2>1, StartChanges
  <2>3. link' = link /\ sets' = sets
    BY <1>5 DEF ResetPassword, history
  <2>4. request[r].op # "reset"
    BY <2>2, IdleIsNone
  <2>5. \A k \in Links \ {l} : Resetting(k)' = Resetting(k) /\ ToSet(k)' = ToSet(k)
    BY <2>2, <2>4 DEF Resetting, ToSet
  <2>6. Resetting(l)' = Resetting(l) \cup {r} /\ ToSet(l)' = ToSet(l) \cup {r}
    BY <2>2 DEF Resetting, ToSet
  <2>7. r \notin Resetting(l) /\ r \notin ToSet(l)
    BY <2>4 DEF Resetting, ToSet
  <2>8. /\ Cardinality(Resetting(l)') = Cardinality(Resetting(l)) + 1
        /\ Cardinality(ToSet(l)') = Cardinality(ToSet(l)) + 1
    BY <1>2, <2>6, <2>7, FS_AddElement
  <2>9. Cardinality(Resetting(l)') <= Cardinality(Requests)
    <3>1. Resetting(l)' \in SUBSET Requests
      BY DEF Resetting
    <3> QED  BY <3>1, FS_Subset
  <2>10. link[l] = "unused"
    BY <2>1 DEF IsUsable
  <2>11. sets[l] + Cardinality(ToSet(l)) <= Cardinality(Resetting(l))
    BY <2>10 DEF ResetInv
  <2>12. /\ link'[l] # "none"
         /\ sets'[l] + Cardinality(ToSet(l)') <= Cardinality(Resetting(l)')
         /\ sets'[l] + Cardinality(ToSet(l)') <= Cardinality(Requests)
    BY <1>3, <1>4, <2>3, <2>8, <2>9, <2>10, <2>11
  <2>13. \A s \in Requests : request'[s].op = "reset" => request'[s].link \in Links
    BY <2>2 DEF ResetInv
  <2> QED  BY <1>1, <2>3, <2>5, <2>12, <2>13 DEF ResetInv
<1>6. CASE SetPassword(r)
  <2>1. request[r].op = "reset" /\ request[r].step = "write" /\ GoTo(r, "use") /\ link' = link
    BY <1>6 DEF SetPassword, Running
  <2>2. PICK l \in Links : l = request[r].link
    BY <2>1 DEF ResetInv
  <2>3. /\ request'[r].op = "reset" /\ request'[r].step = "use" /\ request'[r].link = l
        /\ \A s \in Requests \ {r} : request'[s] = request[s]
    BY <1>0, <2>1, <2>2, GoToChanges
  <2>4. \A k \in Links : sets'[k] = IF k = l THEN sets[l] + 1 ELSE sets[k]
    BY <1>0, <1>6, <2>2 DEF SetPassword, Types
  <2>5. \A k \in Links : Resetting(k)' = Resetting(k)
    BY <2>1, <2>2, <2>3 DEF Resetting
  <2>6. \A k \in Links \ {l} : ToSet(k)' = ToSet(k)
    BY <2>1, <2>2, <2>3 DEF Resetting, ToSet
  <2>7. ToSet(l)' = ToSet(l) \ {r} /\ r \in ToSet(l)
    BY <2>1, <2>2, <2>3 DEF Resetting, ToSet
  <2>8. Cardinality(ToSet(l)') = Cardinality(ToSet(l)) - 1
    BY <1>2, <2>7, FS_RemoveElement
  <2>9. r \in Resetting(l)
    BY <2>7 DEF ToSet
  <2>10. sets'[l] + Cardinality(ToSet(l)') = sets[l] + Cardinality(ToSet(l))
    BY <1>3, <2>4, <2>8
  <2>11. link[l] # "none"
    BY <2>9 DEF ResetInv
  <2>12. \A s \in Requests : request'[s].op = "reset" => request'[s].link \in Links
    BY <2>3 DEF ResetInv
  <2>13. ASSUME NEW k \in Links
         PROVE  /\ link'[k] = "none" => sets'[k] = 0 /\ Resetting(k)' = {}
                /\ link'[k] = "unused" =>
                     sets'[k] + Cardinality(ToSet(k)') <= Cardinality(Resetting(k)')
                /\ sets'[k] + Cardinality(ToSet(k)') <= Cardinality(Requests)
    BY <2>1, <2>4, <2>5, <2>6, <2>10, <2>11 DEF ResetInv
  <2> QED  BY <1>1, <2>12, <2>13 DEF ResetInv
<1>7. CASE UseLink(r)
  <2>1. request[r].op = "reset" /\ request[r].step = "use" /\ Finish(r) /\ sets' = sets
    BY <1>7 DEF UseLink, Running, history
  <2>2. PICK l \in Links : l = request[r].link
    BY <2>1 DEF ResetInv
  <2>3. /\ request'[r].op = "idle" /\ \A s \in Requests \ {r} : request'[s] = request[s]
    BY <1>0, <2>1, FinishChanges
  <2>4. /\ link'[l] \in {"gone", "used"}
        /\ \A k \in Links \ {l} : link'[k] = link[k]
    BY <1>0, <1>7, <2>2 DEF UseLink, Types
  <2>5. \A k \in Links : ToSet(k)' = ToSet(k)
    BY <2>1, <2>3 DEF Resetting, ToSet
  <2>6. \A k \in Links \ {l} : Resetting(k)' = Resetting(k)
    BY <2>1, <2>2, <2>3 DEF Resetting
  <2>7. \A s \in Requests : request'[s].op = "reset" => request'[s].link \in Links
    BY <2>3 DEF ResetInv
  <2>8. ASSUME NEW k \in Links
        PROVE  /\ link'[k] = "none" => sets'[k] = 0 /\ Resetting(k)' = {}
               /\ link'[k] = "unused" =>
                    sets'[k] + Cardinality(ToSet(k)') <= Cardinality(Resetting(k)')
               /\ sets'[k] + Cardinality(ToSet(k)') <= Cardinality(Requests)
    BY <2>1, <2>4, <2>5, <2>6 DEF ResetInv
  <2> QED  BY <1>1, <2>7, <2>8 DEF ResetInv
<1> QED  BY <1>5, <1>6, <1>7

LEMMA InitReset == IsFiniteSet(Requests) /\ Init => ResetInv
<1> SUFFICES ASSUME IsFiniteSet(Requests), Init PROVE ResetInv
  OBVIOUS
<1>1. Types
  BY InitTypes
<1>2. \A r \in Requests : request[r].op = "idle"
  BY IdleIsNone DEF Init
<1>3. \A l \in Links : sets[l] = 0 /\ link[l] = "none"
  BY DEF Init
<1>4. \A l \in Links : Resetting(l) = {} /\ ToSet(l) = {}
  BY <1>2 DEF Resetting, ToSet
<1>5. Cardinality(Requests) \in Nat /\ Cardinality({}) = 0
  BY FS_CardinalityType, FS_EmptySet
<1>6. \A l \in Links : sets[l] + Cardinality(ToSet(l)) <= Cardinality(Requests)
  <2>1. \A l \in Links : sets[l] + Cardinality(ToSet(l)) = 0
    BY <1>3, <1>4, <1>5
  <2> QED  BY <1>5, <2>1
<1> QED  BY <1>1, <1>2, <1>3, <1>4, <1>6 DEF ResetInv

LEMMA NextPreservesResets ==
  ASSUME ResetInv, IsFiniteSet(Requests), Next
  PROVE  ResetInv'
<1>0. Types
  BY DEF ResetInv
<1>1. ASSUME NEW r \in Requests,
             \/ Attempt(r) \/ RecoverLock(r) \/ Unblock(r) \/ Check(r)
             \/ RecordFailure(r) \/ RecordSuccess(r)
      PROVE  ResetInv'
  <2>1. /\ user' \in AnyUser /\ link' = link /\ sets' = sets
        /\ request' \in [Requests -> AnyRequest \cup {Idle}]
        /\ request[r].op \in {"login", "idle"} /\ request'[r].op \in {"login", "idle"}
        /\ \A s \in Requests \ {r} : request'[s] = request[s]
    BY <1>0, <1>1, AttemptsKeepTypes
  <2>2. Types'
    BY <1>0, <2>1 DEF Types, AnyUser, AnyRequest, Idle
  <2> QED  BY <2>1, <2>2, OthersKeepResets
<1>2. ASSUME NEW r \in Requests, StartSetStatus(r) \/ Deactivate(r) \/ Activate(r)
      PROVE  ResetInv'
  <2>1. /\ user' \in AnyUser /\ link' = link /\ sets' = sets
        /\ request' \in [Requests -> AnyRequest \cup {Idle}]
        /\ request[r].op \in {"activate", "deactivate", "idle"}
        /\ request'[r].op \in {"activate", "deactivate", "idle"}
        /\ \A s \in Requests \ {r} : request'[s] = request[s]
    BY <1>0, <1>2, ActivationsKeepTypes
  <2>2. Types'
    BY <1>0, <2>1 DEF Types, AnyUser, AnyRequest, Idle
  <2> QED  BY <2>1, <2>2, OthersKeepResets
<1>3. ASSUME NEW r \in Requests, ForgotPassword(r) \/ CreateLink(r)
      PROVE  ResetInv'
  <2>1. Types'
    BY <1>0, <1>3, LinksKeepTypes DEF Types, AnyUser, AnyRequest, Idle
  <2>2. \A s \in Requests \ {r} : request'[s] = request[s]
    BY <1>0, <1>3, LinksKeepTypes
  <2>3. sets' = sets
    BY <1>3 DEF ForgotPassword, CreateLink, history
  <2>4. request[r].op # "reset" /\ request'[r].op # "reset"
    <3>1. CASE ForgotPassword(r)
      <4>1. Start(r, "forgot", "write", NULL)
        BY <3>1 DEF ForgotPassword
      <4> QED  BY <1>0, <4>1, StartChanges, IdleIsNone
    <3>2. CASE CreateLink(r)
      <4>1. Finish(r) /\ request[r].op = "forgot"
        BY <3>2 DEF CreateLink, Running
      <4> QED  BY <1>0, <4>1, FinishChanges
    <3> QED  BY <1>3, <3>1, <3>2
  <2>5. \A l \in Links : \/ link'[l] = link[l] \/ link[l] = "none"
                         \/ link'[l] \in {"expired", "used", "gone"}
    BY <1>0, <1>3 DEF ForgotPassword, CreateLink, Types
  <2> QED  BY <2>1, <2>2, <2>3, <2>4, <2>5, OthersKeepResets
<1>4. ASSUME NEW r \in Requests, ResetPassword(r) \/ SetPassword(r) \/ UseLink(r)
      PROVE  ResetInv'
  BY <1>4, ResetsPreserve
<1>5. CASE LockEnds \/ \E l \in Links : LinkExpires(l)
  <2>1. request' = request /\ sets' = sets
    BY <1>5 DEF LockEnds, LinkExpires, history
  <2>2. user' \in AnyUser
    BY <1>0, <1>5 DEF LockEnds, LinkExpires, Types, AnyUser
  <2>3. link' \in [Links -> {"none", "unused", "expired", "used", "gone"}]
    BY <1>0, <1>5 DEF LockEnds, LinkExpires, Types
  <2>4. Types'
    BY <1>0, <2>1, <2>2, <2>3 DEF Types, AnyUser, AnyRequest, Idle
  <2>5. \A l \in Links : link'[l] = link[l] \/ link'[l] = "expired"
    BY <1>0, <1>5 DEF LockEnds, LinkExpires, Types
  <2>6. \A l \in Links : Resetting(l)' = Resetting(l) /\ ToSet(l)' = ToSet(l)
    BY <2>1 DEF Resetting, ToSet
  <2> QED  BY <2>1, <2>4, <2>5, <2>6 DEF ResetInv
<1> QED  BY <1>1, <1>2, <1>3, <1>4, <1>5 DEF Next, Arrive, Step

LEMMA StutteringKeepsResets == ResetInv /\ UNCHANGED vars => ResetInv'
BY DEF vars, ResetInv, Types, Resetting, ToSet, AnyUser, AnyRequest, Idle

(* resetPassword: however resets of a link overlap one another, the sending*)
(* of a new link and its expiry, the link sets no more passwords than      *)
(* requests can be in progress at a time.                                  *)
THEOREM LinkUsesStayBounded ==
  ASSUME IsFiniteSet(Requests)
  PROVE  Spec => []LinkUsesAreBounded
<1>1. Init => ResetInv
  BY InitReset
<1>2. ResetInv /\ [Next]_vars => ResetInv'
  BY NextPreservesResets, StutteringKeepsResets
<1>3. ResetInv => LinkUsesAreBounded
  <2> SUFFICES ASSUME ResetInv, NEW l \in Links PROVE sets[l] <= Cardinality(Requests)
    BY DEF LinkUsesAreBounded
  <2>1. sets[l] + Cardinality(ToSet(l)) <= Cardinality(Requests) /\ sets[l] \in Nat
    BY DEF ResetInv, Types
  <2>2. ToSet(l) \in SUBSET Requests
    BY DEF ToSet, Resetting
  <2>3. IsFiniteSet(ToSet(l))
    BY <2>2, FS_Subset
  <2>4. Cardinality(ToSet(l)) \in Nat /\ Cardinality(Requests) \in Nat
    BY <2>3, FS_CardinalityType
  <2> QED  BY <2>1, <2>4
<1> QED  BY <1>1, <1>2, <1>3, PTL DEF Spec

-----------------------------------------------------------------------------
(* A deactivated administrator stays out. *)

LEMMA InitLogin == Init => LoginInv
<1> SUFFICES ASSUME Init PROVE LoginInv
  OBVIOUS
<1>1. Types
  BY InitTypes
<1>2. \A r \in Requests : request[r].op = "idle"
  BY IdleIsNone DEF Init
<1> QED  BY <1>1, <1>2 DEF LoginInv, Is

(* An attempt starts when the account is not inactive and no deactivation  *)
(* is in progress, and none of its steps makes the account inactive.       *)
LEMMA AttemptsKeepLogins ==
  ASSUME LoginInv, DeactivationWaitsForAttempts, NEW r \in Requests,
         \/ Attempt(r) \/ RecoverLock(r) \/ Unblock(r) \/ Check(r)
         \/ RecordFailure(r) \/ RecordSuccess(r)
  PROVE  /\ LoginInv'
         /\ user.status # "inactive" \/ user'.status = "inactive"
<1>1. /\ Types
      /\ user' \in AnyUser /\ link' = link /\ sets' = sets
      /\ request' \in [Requests -> AnyRequest \cup {Idle}]
      /\ request[r].op \in {"login", "idle"} /\ request'[r].op \in {"login", "idle"}
      /\ \A s \in Requests \ {r} : request'[s] = request[s]
  BY AttemptsKeepTypes DEF LoginInv
<1>2. Types'
  BY <1>1 DEF Types, AnyUser, AnyRequest, Idle
<1>3. CASE Attempt(r)
  <2>1. /\ user.status # "inactive" /\ user' = user
        /\ \E step \in {"recover", "unblock", "check"} : Start(r, "login", step, NULL)
    BY <1>3 DEF Attempt, FirstStep
  <2>2. \A s \in Requests : request[s].op # "deactivate"
    <3>1. ASSUME NEW s \in Requests, request[s].op = "deactivate" PROVE FALSE
      <4>1. PICK step \in {"recover", "unblock", "check"} : Start(r, "login", step, NULL)
        BY <2>1
      <4>2. request[s].op # "idle" => {"login", request[s].op} \notin Conflicts
        BY <1>1, <4>1, StartChanges
      <4> QED  BY <3>1, <4>2 DEF DeactivationWaitsForAttempts
    <3> QED  BY <3>1
  <2>3. \A s \in Requests : request'[s].op # "deactivate"
    BY <1>1, <2>2
  <2> QED  BY <1>2, <2>1, <2>3 DEF LoginInv, Is
<1>4. CASE \/ RecoverLock(r) \/ Unblock(r) \/ Check(r) \/ RecordFailure(r) \/ RecordSuccess(r)
  <2>1. request[r].op = "login"
    BY <1>4 DEF RecoverLock, Unblock, Check, RecordFailure, RecordSuccess, Running
  <2>2. user.status # "inactive" /\ \A s \in Requests : request[s].op # "deactivate"
    BY <2>1 DEF LoginInv, Is
  <2>3. user'.status # "inactive"
    <3>1. CASE RecordFailure(r)
      BY <3>1 DEF RecordFailure
    <3>2. CASE Unblock(r) \/ Check(r)
      BY <2>2, <3>2 DEF Unblock, Check
    <3>3. CASE RecoverLock(r)
      BY <1>1, <2>2, <3>3 DEF RecoverLock, Types, AnyUser
    <3>4. CASE RecordSuccess(r)
      BY <1>1, <2>2, <3>4 DEF RecordSuccess, Types, AnyUser
    <3> QED  BY <1>4, <3>1, <3>2, <3>3, <3>4
  <2>4. \A s \in Requests : request'[s].op # "deactivate"
    BY <1>1, <2>2
  <2> QED  BY <1>2, <2>2, <2>3, <2>4 DEF LoginInv, Is
<1> QED  BY <1>3, <1>4

(* Of root's steps only the last of an activation lets the account in.     *)
LEMMA ActivationsKeepLogins ==
  ASSUME LoginInv, DeactivationWaitsForAttempts, NEW r \in Requests,
         StartSetStatus(r) \/ Deactivate(r) \/ Activate(r)
  PROVE  /\ LoginInv'
         /\ \/ user.status # "inactive" \/ user'.status = "inactive"
            \/ Running(r, "activate", "write") /\ request'[r] = Idle
<1>1. /\ Types
      /\ user' \in AnyUser /\ link' = link /\ sets' = sets
      /\ request' \in [Requests -> AnyRequest \cup {Idle}]
      /\ request[r].op \in {"activate", "deactivate", "idle"}
      /\ request'[r].op \in {"activate", "deactivate", "idle"}
      /\ \A s \in Requests \ {r} : request'[s] = request[s]
  BY ActivationsKeepTypes DEF LoginInv
<1>2. Types'
  BY <1>1 DEF Types, AnyUser, AnyRequest, Idle
<1>3. \A s \in Requests : request'[s].op = "login" => s # r /\ request[s].op = "login"
  BY <1>1
<1>4. CASE StartSetStatus(r)
  <2>1. PICK op \in {"activate", "deactivate"} : Start(r, op, "write", NULL)
    BY <1>4 DEF StartSetStatus
  <2>2. /\ request'[r].op = op
        /\ \A s \in Requests : request[s].op # "idle" => {op, request[s].op} \notin Conflicts
    BY <1>1, <2>1, StartChanges
  <2>3. user' = user
    BY <1>4 DEF StartSetStatus
  <2>4. ASSUME NEW s \in Requests, request[s].op = "login" PROVE op # "deactivate"
    <3>1. {"deactivate", "login"} = {"login", "deactivate"}
      OBVIOUS
    <3> QED  BY <2>2, <2>4, <3>1 DEF DeactivationWaitsForAttempts
  <2>5. ASSUME NEW s \in Requests, NEW t \in Requests, request'[s].op = "login"
        PROVE  request'[t].op # "deactivate"
    BY <1>1, <1>3, <2>2, <2>4, <2>5 DEF LoginInv, Is
  <2>6. \A s \in Requests : request'[s].op = "login" => user'.status # "inactive"
    BY <1>3, <2>3 DEF LoginInv, Is
  <2> QED  BY <1>2, <2>3, <2>5, <2>6 DEF LoginInv, Is
<1>5. CASE Deactivate(r)
  <2>1. request[r].op = "deactivate"
    BY <1>5 DEF Deactivate, Running
  <2>2. \A s \in Requests : request'[s].op # "login"
    BY <1>3, <2>1 DEF LoginInv, Is
  <2>3. user'.status = "inactive"
    BY <1>1, <1>5 DEF Deactivate, Types, AnyUser
  <2> QED  BY <1>2, <2>2, <2>3 DEF LoginInv, Is
<1>6. CASE Activate(r)
  <2>1. Running(r, "activate", "write") /\ Finish(r)
    BY <1>6 DEF Activate
  <2>2. request'[r] = Idle /\ request'[r].op = "idle"
    BY <1>1, <2>1, FinishChanges
  <2>3. user'.status = "active"
    BY <1>1, <1>6 DEF Activate, Types, AnyUser
  <2>4. ASSUME NEW s \in Requests, NEW t \in Requests, request'[s].op = "login"
        PROVE  request'[t].op # "deactivate"
    BY <1>1, <1>3, <2>2, <2>4 DEF LoginInv, Is
  <2> QED  BY <1>2, <2>1, <2>2, <2>3, <2>4 DEF LoginInv, Is
<1> QED  BY <1>4, <1>5, <1>6

LEMMA OthersKeepLogins ==
  ASSUME LoginInv,
         \/ \E r \in Requests : \/ ForgotPassword(r) \/ CreateLink(r) \/ ResetPassword(r)
                               \/ SetPassword(r) \/ UseLink(r)
         \/ LockEnds \/ \E l \in Links : LinkExpires(l)
  PROVE  LoginInv' /\ user'.status = user.status
<1>0. Types
  BY DEF LoginInv
<1>1. ASSUME NEW r \in Requests,
             ForgotPassword(r) \/ CreateLink(r) \/ ResetPassword(r) \/ SetPassword(r) \/ UseLink(r)
      PROVE  LoginInv' /\ user' = user
  <2>1. Types' /\ user' = user /\ request'[r].op \in {"forgot", "reset", "idle"}
        /\ \A s \in Requests \ {r} : request'[s] = request[s]
    BY <1>0, <1>1, LinksKeepTypes DEF Types, AnyUser, AnyRequest, Idle
  <2>2. \A s \in Requests : request'[s].op \in {"login", "deactivate"} =>
                            request'[s].op = request[s].op
    BY <2>1
  <2> QED  BY <2>1, <2>2 DEF LoginInv, Is
<1>2. CASE LockEnds \/ \E l \in Links : LinkExpires(l)
  <2>1. request' = request /\ sets' = sets
    BY <1>2 DEF LockEnds, LinkExpires, history
  <2>2. user' \in AnyUser /\ user'.status = user.status
    BY <1>0, <1>2 DEF LockEnds, LinkExpires, Types, AnyUser
  <2>3. link' \in [Links -> {"none", "unused", "expired", "used", "gone"}]
    BY <1>0, <1>2 DEF LockEnds, LinkExpires, Types
  <2>4. Types'
    BY <1>0, <2>1, <2>2, <2>3 DEF Types, AnyUser, AnyRequest, Idle
  <2> QED  BY <2>1, <2>2, <2>4 DEF LoginInv, Is
<1> QED  BY <1>1, <1>2

(* What a step may do to an inactive account. *)
Guarded == user.status = "inactive" /\ user'.status # "inactive" =>
             \E r \in Requests : Running(r, "activate", "write") /\ request'[r] = Idle

LEMMA NextPreservesLogins ==
  ASSUME LoginInv, DeactivationWaitsForAttempts, Next
  PROVE  LoginInv' /\ Guarded
<1>1. ASSUME NEW r \in Requests,
             \/ Attempt(r) \/ RecoverLock(r) \/ Unblock(r) \/ Check(r)
             \/ RecordFailure(r) \/ RecordSuccess(r)
      PROVE  LoginInv' /\ Guarded
  BY <1>1, AttemptsKeepLogins DEF Guarded
<1>2. ASSUME NEW r \in Requests, StartSetStatus(r) \/ Deactivate(r) \/ Activate(r)
      PROVE  LoginInv' /\ Guarded
  BY <1>2, ActivationsKeepLogins DEF Guarded
<1>3. CASE \/ \E r \in Requests : \/ ForgotPassword(r) \/ CreateLink(r) \/ ResetPassword(r)
                                  \/ SetPassword(r) \/ UseLink(r)
           \/ LockEnds \/ \E l \in Links : LinkExpires(l)
  BY <1>3, OthersKeepLogins DEF Guarded
<1> QED  BY <1>1, <1>2, <1>3 DEF Next, Arrive, Step

LEMMA StutteringKeepsLogins == LoginInv /\ UNCHANGED vars => LoginInv'
BY DEF vars, LoginInv, Types, Is, AnyUser, AnyRequest, Idle

(* deactivateAdmin: whatever attempts to sign in, unblockings and resets   *)
(* follow, only root lets an inactive administrator in again, provided     *)
(* that root's deactivation does not overlap an attempt.                   *)
THEOREM InactiveStaysOut ==
  ASSUME DeactivationWaitsForAttempts
  PROVE  Spec => DeactivatedStaysOut
<1>1. LoginInv /\ [Next]_vars => LoginInv'
  BY NextPreservesLogins, StutteringKeepsLogins
<1>2. LoginInv /\ [Next]_vars => [Guarded]_vars
  BY NextPreservesLogins
<1>3. DeactivatedStaysOut <=> [][Guarded]_vars
  BY PTL DEF DeactivatedStaysOut, Guarded
<1> QED  BY <1>1, <1>2, <1>3, InitLogin, PTL DEF Spec
-----------------------------------------------------------------------------
(* Two attempts at a time try a bounded number of wrong passwords.         *)

(* How many failures there are to the lock, for a count of failures: as the*)
(* account has it, and as an attempt that is past its reading will write.  *)
FailuresLeft(failed) == IF failed < MaxFailed THEN MaxFailed - failed ELSE 1
Room == IF user.status = "active" THEN FailuresLeft(user.failedAttempts) ELSE 0
Past(r) == Is(r, "login") /\ request[r].step \in {"check", "fail", "succeed"}
Left(r) == IF Past(r) THEN FailuresLeft(request[r].failed) ELSE Room

(* Twice the number of wrong passwords that two requests may still try: one*)
(* of them holds the greater count back, so that the other one can go on   *)
(* to the lock, lifts it, and so on with one less.                         *)
Worth(m, n) == IF m >= n THEN m * (m + 1) + 2 * n ELSE n * (n + 1) + 2 * m

(* A wrong password that has been tried and is not written yet.            *)
Failing(r) == IF Running(r, "login", "fail") THEN 2 ELSE 0

Budget(r, s) ==
  2 * tries + Worth(Left(r), Left(s)) <= 2 * TriesBound + Failing(r) + Failing(s)

TriesInv(r, s) == Types /\ tries \in Nat /\ Budget(r, s)

LEMMA SquaresGrow ==
  ASSUME NEW m \in Nat, NEW n \in Nat, m <= n
  PROVE  m * (m + 1) <= n * (n + 1)
<1>1. PICK d \in Nat : n = m + d
  BY n - m \in Nat
<1>2. n * (n + 1) = m * (m + 1) + d * (2 * m + d + 1)
  BY <1>1
<1>3. d * (2 * m + d + 1) >= 0
  OBVIOUS
<1> QED  BY <1>2, <1>3

LEMMA WorthIsNatural ==
  ASSUME NEW m \in Nat, NEW n \in Nat
  PROVE  Worth(m, n) \in Nat /\ Worth(m, n) = Worth(n, m)
BY DEF Worth

LEMMA WorthGrows ==
  ASSUME NEW m \in Nat, NEW n \in Nat, NEW k \in Nat, m <= k
  PROVE  Worth(m, n) <= Worth(k, n)
<1>1. CASE m >= n
  BY <1>1, SquaresGrow DEF Worth
<1>2. CASE m < n /\ k >= n
  <2>1. n * (n + 1) <= k * (k + 1)
    BY <1>2, SquaresGrow
  <2>2. n * (n + 1) \in Nat /\ k * (k + 1) \in Nat
    OBVIOUS
  <2>3. Worth(m, n) = n * (n + 1) + 2 * m /\ Worth(k, n) = k * (k + 1) + 2 * n
    BY <1>2 DEF Worth
  <2> QED  BY <1>2, <2>1, <2>2, <2>3
<1>3. CASE k < n
  BY <1>3 DEF Worth
<1> QED  BY <1>1, <1>2, <1>3

(* Writing a failure costs at least that one, whoever else has read what.  *)
LEMMA WorthFalls ==
  ASSUME NEW m \in Nat \ {0}, NEW n \in Nat
  PROVE  /\ Worth(m - 1, n) <= Worth(m, n) - 2
         /\ Worth(m - 1, m - 1) <= Worth(m, n) - 2
         /\ Worth(m - 1, m - 1) <= Worth(m, m) - 4
<1>1. (m - 1) * m = m * (m + 1) - 2 * m /\ m * (m + 1) \in Nat
  OBVIOUS
<1>2. Worth(m - 1, m - 1) = m * (m + 1) - 2
  BY <1>1 DEF Worth
<1>3. Worth(m, m) = m * (m + 1) + 2 * m
  BY DEF Worth
<1>4. Worth(m, n) >= m * (m + 1)
  <2>1. CASE m >= n
    BY <2>1, <1>1 DEF Worth
  <2>2. CASE m < n
    <3>1. m * (m + 1) <= n * (n + 1) /\ n * (n + 1) \in Nat
      BY <2>2, SquaresGrow
    <3> QED  BY <1>1, <2>2, <3>1 DEF Worth
  <2> QED  BY <2>1, <2>2
<1>5. Worth(m, n) \in Nat
  BY WorthIsNatural
<1>6. Worth(m - 1, n) <= Worth(m, n) - 2
  <2>1. CASE m - 1 >= n
    <3>1. Worth(m - 1, n) = (m - 1) * m + 2 * n /\ Worth(m, n) = m * (m + 1) + 2 * n
      BY <2>1 DEF Worth
    <3> QED  BY <1>1, <3>1
  <2>2. CASE m - 1 < n
    <3>1. Worth(m - 1, n) = n * (n + 1) + 2 * (m - 1)
      BY <2>2 DEF Worth
    <3>2. Worth(m, n) = n * (n + 1) + 2 * m
      BY <2>2 DEF Worth
    <3>3. n * (n + 1) \in Nat
      OBVIOUS
    <3> QED  BY <3>1, <3>2, <3>3
  <2> QED  BY <2>1, <2>2
<1> QED  BY <1>1, <1>2, <1>3, <1>4, <1>5, <1>6

LEMMA WorthLowers ==
  ASSUME NEW m \in Nat, NEW n \in Nat
  PROVE  /\ Worth(m, n) >= 2 * m /\ Worth(m, n) >= 2 * n
         /\ m >= 1 /\ n >= 1 => Worth(m, n) >= 4
<1>1. \A i \in Nat : i * (i + 1) >= 2 * i
  <2> SUFFICES ASSUME NEW i \in Nat PROVE i * (i + 1) >= 2 * i
    OBVIOUS
  <2>1. CASE i = 0
    BY <2>1
  <2>2. CASE i # 0
    <3>1. 2 * i <= i * (i + 1)
      <4>1. i * (i + 1) = 2 * i + i * (i - 1)
        OBVIOUS
      <4>2. i * (i - 1) >= 0
        BY <2>2
      <4> QED  BY <4>1, <4>2
    <3> QED  BY <3>1
  <2> QED  BY <2>1, <2>2
<1>2. m * (m + 1) >= 2 * m /\ n * (n + 1) >= 2 * n
  BY <1>1
<1>3. m * (m + 1) \in Nat /\ n * (n + 1) \in Nat
  OBVIOUS
<1> QED  BY <1>2, <1>3 DEF Worth

LEMMA WorthIsBounded ==
  ASSUME NEW m \in 0..MaxFailed, NEW n \in 0..MaxFailed
  PROVE  Worth(m, n) <= MaxFailed * (MaxFailed + 3)
<1>1. MaxFailed \in Nat /\ m \in Nat /\ n \in Nat /\ m <= MaxFailed /\ n <= MaxFailed
  BY AccessConstants
<1>2. Worth(m, n) <= Worth(MaxFailed, n)
  BY <1>1, WorthGrows
<1>3. Worth(MaxFailed, n) = MaxFailed * (MaxFailed + 1) + 2 * n
  BY <1>1 DEF Worth
<1>4. MaxFailed * (MaxFailed + 3) = MaxFailed * (MaxFailed + 1) + 2 * MaxFailed
      /\ MaxFailed * (MaxFailed + 1) \in Nat
  BY <1>1
<1>5. Worth(m, n) \in Nat
  BY <1>1, WorthIsNatural
<1> QED  BY <1>1, <1>2, <1>3, <1>4, <1>5

InBounds ==
  \A r \in Requests :
    /\ Room \in 0..MaxFailed /\ Room \in Nat
    /\ Left(r) \in 0..MaxFailed /\ Left(r) \in Nat
    /\ Past(r) => Left(r) >= 1
    /\ Failing(r) \in {0, 2}

LEMMA LeftIsBounded == Types => InBounds
<1> SUFFICES ASSUME Types, NEW r \in Requests
             PROVE  /\ Room \in 0..MaxFailed /\ Room \in Nat
                    /\ Left(r) \in 0..MaxFailed /\ Left(r) \in Nat
                    /\ Past(r) => Left(r) >= 1
                    /\ Failing(r) \in {0, 2}
  BY DEF InBounds
<1>1. MaxFailed \in Nat \ {0}
  BY AccessConstants
<1>2. user.failedAttempts \in Nat
  BY DEF Types, AnyUser
<1>3. \A n \in Nat : FailuresLeft(n) \in 1..MaxFailed
  BY <1>1 DEF FailuresLeft
<1>4. Room \in 0..MaxFailed
  BY <1>1, <1>2, <1>3 DEF Room
<1>5. ASSUME Past(r) PROVE Left(r) \in 1..MaxFailed
  <2>1. request[r] \in AnyRequest
    BY <1>5, IdleIsNone DEF Types, Past, Is
  <2>2. request[r].failed \in Nat
    BY <2>1 DEF AnyRequest
  <2> QED  BY <1>3, <1>5, <2>2 DEF Left
<1>6. ~Past(r) => Left(r) = Room
  BY DEF Left
<1>7. Failing(r) \in {0, 2}
  BY DEF Failing
<1> QED  BY <1>1, <1>4, <1>5, <1>6, <1>7

(* The same of the next state.                                             *)
LEMMA LeftAfter == Types' => InBounds'
BY LeftIsBounded, PTL

(* Nothing is spent but what has become a failure to write.                *)
LEMMA Cheaper ==
  ASSUME NEW r \in Requests, NEW s \in Requests, TriesInv(r, s), Types', tries' \in Nat,
         Left(r)' <= Left(r), Left(s)' <= Left(s),
         2 * tries' + Failing(r) + Failing(s) <= 2 * tries + Failing(r)' + Failing(s)'
  PROVE  TriesInv(r, s)'
<1>1. Types /\ tries \in Nat /\ Budget(r, s)
  BY DEF TriesInv
<1>2. Left(r) \in Nat /\ Left(s) \in Nat /\ Failing(r) \in {0, 2} /\ Failing(s) \in {0, 2}
  BY <1>1, LeftIsBounded DEF InBounds
<1>3. Left(r)' \in Nat /\ Left(s)' \in Nat /\ Failing(r)' \in {0, 2} /\ Failing(s)' \in {0, 2}
  BY LeftAfter DEF InBounds
<1> DEFINE m == Left(r)  n == Left(s)  k == Left(r)'  l == Left(s)'
<1>4. m \in Nat /\ n \in Nat /\ k \in Nat /\ l \in Nat /\ k <= m /\ l <= n
  BY <1>2, <1>3
<1>5. /\ 2 * tries + Worth(m, n) <= 2 * TriesBound + Failing(r) + Failing(s)
      /\ Budget(r, s)' <=>
           2 * tries' + Worth(k, l) <= 2 * TriesBound + Failing(r)' + Failing(s)'
  BY <1>1 DEF Budget, Worth
<1> HIDE DEF m, n, k, l
<1>6. Worth(k, l) <= Worth(m, l) /\ Worth(l, m) <= Worth(n, m)
  BY <1>4, WorthGrows
<1>7. /\ Worth(k, l) \in Nat /\ Worth(m, l) \in Nat /\ Worth(m, n) \in Nat
      /\ Worth(m, l) = Worth(l, m) /\ Worth(n, m) = Worth(m, n)
  <2>1. Worth(k, l) \in Nat
    BY <1>4, WorthIsNatural
  <2>2. Worth(m, l) \in Nat /\ Worth(m, l) = Worth(l, m)
    BY <1>4, WorthIsNatural
  <2>3. Worth(m, n) \in Nat /\ Worth(m, n) = Worth(n, m)
    BY <1>4, WorthIsNatural
  <2> QED  BY <2>1, <2>2, <2>3
<1>8. Worth(k, l) <= Worth(m, n)
  BY <1>6, <1>7
<1>9. TriesBound \in Nat
  BY AccessConstants
<1>10. Budget(r, s)'
  BY <1>1, <1>2, <1>3, <1>5, <1>7, <1>8, <1>9
<1> QED  BY <1>10 DEF TriesInv

(* After a right password or the end of a lock all of it may be spent.     *)
LEMMA Afresh ==
  ASSUME NEW r \in Requests, NEW s \in Requests, Types', tries' = 0,
         MaxFailed * (MaxFailed + 3) <= 2 * TriesBound
  PROVE  TriesInv(r, s)'
<1>1. /\ Left(r)' \in 0..MaxFailed /\ Left(s)' \in 0..MaxFailed
      /\ Failing(r)' \in {0, 2} /\ Failing(s)' \in {0, 2}
  BY LeftAfter DEF InBounds
<1> DEFINE k == Left(r)'  l == Left(s)'
<1>2. Budget(r, s)' <=>
        2 * tries' + Worth(k, l) <= 2 * TriesBound + Failing(r)' + Failing(s)'
  BY DEF Budget, Worth
<1>3. k \in 0..MaxFailed /\ l \in 0..MaxFailed
  BY <1>1
<1> HIDE DEF k, l
<1>4. Worth(k, l) <= MaxFailed * (MaxFailed + 3) /\ MaxFailed \in Nat /\ TriesBound \in Nat
  BY <1>3, WorthIsBounded, AccessConstants
<1>5. Worth(k, l) \in Nat /\ MaxFailed * (MaxFailed + 3) \in Nat
  BY <1>3, <1>4, WorthIsNatural
<1>6. Budget(r, s)'
  BY <1>1, <1>2, <1>4, <1>5
<1> QED  BY <1>6 DEF TriesInv
LEMMA NextKeepsTypes == Types /\ Next => Types' /\ (tries \in Nat => tries' \in Nat)
<1> SUFFICES ASSUME Types, Next PROVE Types' /\ (tries \in Nat => tries' \in Nat)
  OBVIOUS
<1>1. ASSUME NEW r \in Requests, Arrive(r) \/ Step(r)
      PROVE  Types' /\ (tries \in Nat => tries' \in Nat)
  <2>1. tries \in Nat => tries' \in Nat
    BY <1>1 DEF Arrive, Step, Attempt, RecoverLock, Unblock, Check, RecordFailure,
       RecordSuccess, StartSetStatus, Deactivate, Activate, ForgotPassword, CreateLink,
       ResetPassword, SetPassword, UseLink, history
  <2>2. CASE \/ Attempt(r) \/ RecoverLock(r) \/ Unblock(r) \/ Check(r)
             \/ RecordFailure(r) \/ RecordSuccess(r)
    BY <2>1, <2>2, AttemptsKeepTypes DEF Types, AnyUser, AnyRequest, Idle
  <2>3. CASE StartSetStatus(r) \/ Deactivate(r) \/ Activate(r)
    BY <2>1, <2>3, ActivationsKeepTypes DEF Types, AnyUser, AnyRequest, Idle
  <2>4. CASE \/ ForgotPassword(r) \/ CreateLink(r) \/ ResetPassword(r)
             \/ SetPassword(r) \/ UseLink(r)
    BY <2>1, <2>4, LinksKeepTypes DEF Types, AnyUser, AnyRequest, Idle
  <2> QED  BY <1>1, <2>2, <2>3, <2>4 DEF Arrive, Step
<1>2. CASE LockEnds \/ \E l \in Links : LinkExpires(l)
  <2>1. request' = request /\ sets' = sets /\ tries' = tries
    BY <1>2 DEF LockEnds, LinkExpires, history
  <2>2. user' \in AnyUser
    BY <1>2 DEF LockEnds, LinkExpires, Types, AnyUser
  <2>3. link' \in [Links -> {"none", "unused", "expired", "used", "gone"}]
    BY <1>2 DEF LockEnds, LinkExpires, Types
  <2> QED  BY <2>1, <2>2, <2>3 DEF Types, AnyUser, AnyRequest, Idle
<1> QED  BY <1>1, <1>2 DEF Next

(* A request that has not moved.                                           *)
LEMMA Unmoved ==
  ASSUME Types, Types', NEW s \in Requests, request'[s] = request[s]
  PROVE  /\ Failing(s)' = Failing(s)
         /\ Past(s) => Left(s)' = Left(s)
         /\ ~Past(s) => Left(s) = Room /\ Left(s)' = Room'
         /\ Room' <= Room => Left(s)' <= Left(s)
<1>1. /\ Failing(s)' = Failing(s)
      /\ Past(s) => Left(s)' = Left(s)
      /\ ~Past(s) => Left(s) = Room /\ Left(s)' = Room'
  BY DEF Failing, Past, Left, Is, Running
<1>2. Left(s)' \in Nat /\ Left(s) \in Nat
  BY LeftIsBounded, LeftAfter DEF InBounds
<1> QED  BY <1>1, <1>2

(* A request that is not about to judge a password, before and after, and  *)
(* gives no room for more of them.                                         *)
LEMMA Aside ==
  ASSUME NEW r \in Requests, NEW s \in Requests, Requests = {r, s}, TriesInv(r, s),
         Types', tries' = tries, Room' <= Room, ~Past(r), ~Past(r)',
         \A q \in Requests \ {r} : request'[q] = request[q]
  PROVE  TriesInv(r, s)'
<1>1. Types /\ tries \in Nat
  BY DEF TriesInv
<1>2. Failing(r) = 0 /\ Failing(r)' = 0 /\ Left(r) = Room /\ Left(r)' = Room'
  BY DEF Failing, Past, Left, Is, Running
<1>3. Failing(s)' = Failing(s) /\ Left(s)' <= Left(s)
  <2>1. CASE s = r
    BY <1>2, <2>1
  <2>2. CASE s # r
    BY <1>1, <2>2, Unmoved
  <2> QED  BY <2>1, <2>2
<1>4. Failing(s) \in Nat
  BY <1>1, LeftIsBounded DEF InBounds
<1>5. 2 * tries' + Failing(r) + Failing(s) <= 2 * tries + Failing(r)' + Failing(s)'
  BY <1>1, <1>2, <1>3, <1>4
<1> QED  BY <1>1, <1>2, <1>3, <1>5, Cheaper

(* A request begins that is not an attempt, or ends.                       *)
LEMMA OthersSpendNothing ==
  ASSUME NEW r \in Requests, NEW s \in Requests, Requests = {r, s}, TriesInv(r, s), Types',
         \/ StartSetStatus(r) \/ ForgotPassword(r) \/ ResetPassword(r)
         \/ CreateLink(r) \/ SetPassword(r) \/ UseLink(r) \/ RecoverLock(r) \/ Deactivate(r)
  PROVE  TriesInv(r, s)'
<1>1. Types
  BY DEF TriesInv
<1>2. tries' = tries
  BY DEF StartSetStatus, ForgotPassword, ResetPassword, CreateLink, SetPassword, UseLink,
         RecoverLock, Deactivate, history
<1>3. user'.failedAttempts = user.failedAttempts
      /\ (user'.status = user.status \/ user'.status = "inactive")
  BY <1>1 DEF StartSetStatus, ForgotPassword, ResetPassword, CreateLink, SetPassword, UseLink,
     RecoverLock, Deactivate, Types, AnyUser
<1>4. Room' = Room \/ Room' = 0
  BY <1>3 DEF Room
<1>5. Room \in Nat
  BY <1>1, LeftIsBounded DEF InBounds
<1>6. CASE StartSetStatus(r) \/ ForgotPassword(r) \/ ResetPassword(r)
  <2>1. PICK op \in {"forgot", "reset", "activate", "deactivate"}, l \in Links \cup {NULL} :
          Start(r, op, "write", l)
    BY <1>6 DEF StartSetStatus, ForgotPassword, ResetPassword
  <2>2. /\ request[r] = Idle /\ request'[r].op = op
        /\ \A q \in Requests \ {r} : request'[q] = request[q]
    BY <1>1, <2>1, StartChanges
  <2>3. ~Past(r) /\ ~Past(r)'
    BY <2>2, IdleIsNone DEF Past, Is
  <2> QED  BY <1>2, <1>4, <1>5, <2>2, <2>3, Aside
<1>7. CASE SetPassword(r)
  <2>1. request[r].op = "reset" /\ GoTo(r, "use")
    BY <1>7 DEF SetPassword, Running
  <2>2. request'[r].op = "reset" /\ \A q \in Requests \ {r} : request'[q] = request[q]
    BY <1>1, <2>1, GoToChanges
  <2>3. ~Past(r) /\ ~Past(r)'
    BY <2>1, <2>2 DEF Past, Is
  <2> QED  BY <1>2, <1>4, <1>5, <2>2, <2>3, Aside
<1>8. CASE CreateLink(r) \/ UseLink(r) \/ RecoverLock(r) \/ Deactivate(r)
  <2>1. Finish(r) /\ ~Past(r)
    BY <1>8 DEF CreateLink, UseLink, RecoverLock, Deactivate, Running, Past, Is
  <2>2. request'[r].op = "idle" /\ \A q \in Requests \ {r} : request'[q] = request[q]
    BY <1>1, <2>1, FinishChanges
  <2>3. ~Past(r)'
    BY <2>2 DEF Past, Is
  <2> QED  BY <1>2, <1>4, <1>5, <2>1, <2>2, <2>3, Aside
<1> QED  BY <1>6, <1>7, <1>8
LEMMA TimeSpendsNothing ==
  ASSUME NEW r \in Requests, NEW s \in Requests, TriesInv(r, s), Types',
         LockEnds \/ \E l \in Links : LinkExpires(l)
  PROVE  TriesInv(r, s)'
<1>1. Types /\ tries \in Nat
  BY DEF TriesInv
<1>2. request' = request /\ tries' = tries
  BY DEF LockEnds, LinkExpires, history
<1>3. user'.failedAttempts = user.failedAttempts /\ user'.status = user.status
  BY <1>1 DEF LockEnds, LinkExpires, Types, AnyUser
<1>4. Room' = Room /\ Room \in Nat
  <2>1. Room \in Nat
    BY <1>1, LeftIsBounded DEF InBounds
  <2> QED  BY <1>3, <2>1 DEF Room
<1>5. /\ Left(r)' <= Left(r) /\ Failing(r)' = Failing(r)
      /\ Left(s)' <= Left(s) /\ Failing(s)' = Failing(s)
  BY <1>1, <1>2, <1>4, Unmoved
<1>6. Failing(r) \in Nat /\ Failing(s) \in Nat
  BY <1>1, LeftIsBounded DEF InBounds
<1> QED  BY <1>1, <1>2, <1>5, <1>6, Cheaper

(* An attempt that begins has read what the account had left.              *)
LEMMA BeginningSpendsNothing ==
  ASSUME NEW r \in Requests, NEW s \in Requests, Requests = {r, s}, TriesInv(r, s), Types',
         Attempt(r)
  PROVE  TriesInv(r, s)'
<1>1. Types /\ tries \in Nat
  BY DEF TriesInv
<1>2. user' = user /\ tries' = tries
  BY DEF Attempt, history
<1>3. Room' = Room /\ Room \in Nat
  <2>1. Room \in Nat
    BY <1>1, LeftIsBounded DEF InBounds
  <2> QED  BY <1>2, <2>1 DEF Room
<1>4. PICK step \in {"recover", "unblock", "check"} :
        Start(r, "login", step, NULL) /\ (step = "check" => user.status = "active")
  BY DEF Attempt, FirstStep
<1>5. /\ request[r] = Idle /\ request'[r].op = "login" /\ request'[r].step = step
      /\ \A q \in Requests \ {r} : request'[q] = request[q]
  BY <1>1, <1>4, StartChanges
<1>6. ~Past(r) /\ Left(r) = Room /\ Failing(r) = 0 /\ Failing(r)' = 0
  BY <1>5, IdleIsNone DEF Past, Is, Left, Failing, Running
<1>7. Left(r)' = Room
  <2>1. CASE step = "check"
    <3>1. request'[r].failed = user.failedAttempts
      BY <1>1, <1>4, <2>1 DEF Start, Types
    <3>2. Past(r)'
      BY <1>5, <2>1 DEF Past, Is
    <3> QED  BY <1>4, <2>1, <3>1, <3>2 DEF Left, Room
  <2>2. CASE step # "check"
    <3>1. ~Past(r)'
      BY <1>5, <2>2 DEF Past, Is
    <3> QED  BY <1>3, <3>1 DEF Left
  <2> QED  BY <2>1, <2>2
<1>8. Left(s)' <= Left(s) /\ Failing(s)' = Failing(s)
  <2>1. CASE s = r
    BY <1>3, <1>6, <1>7, <2>1
  <2>2. CASE s # r
    BY <1>1, <1>3, <1>5, <2>2, Unmoved
  <2> QED  BY <2>1, <2>2
<1>9. Failing(s) \in Nat
  BY <1>1, LeftIsBounded DEF InBounds
<1>10. 2 * tries' + Failing(r) + Failing(s) <= 2 * tries + Failing(r)' + Failing(s)'
  BY <1>1, <1>2, <1>6, <1>8, <1>9
<1> QED  BY <1>1, <1>2, <1>3, <1>6, <1>7, <1>8, <1>10, Cheaper

(* A wrong password becomes a failure to write; a right one that has       *)
(* something to write keeps its place.                                     *)
LEMMA CheckSpendsOne ==
  ASSUME NEW r \in Requests, NEW s \in Requests, Requests = {r, s}, TriesInv(r, s), Types',
         MaxFailed * (MaxFailed + 3) <= 2 * TriesBound, Check(r)
  PROVE  TriesInv(r, s)'
<1>1. Types /\ tries \in Nat
  BY DEF TriesInv
<1>2. request[r].op = "login" /\ request[r].step = "check" /\ user' = user
  BY DEF Check, Running
<1>3. CASE tries' = 0
  BY <1>3, Afresh
<1>4. CASE tries' # 0
  <2>1. PICK step \in {"fail", "succeed"} :
          /\ GoTo(r, step)
          /\ tries' = tries \/ (step = "fail" /\ tries' \in {tries, tries + 1})
    BY <1>4 DEF Check
  <2>2. /\ request'[r].op = "login" /\ request'[r].step = step
        /\ \A q \in Requests \ {r} : request'[q] = request[q]
    BY <1>1, <1>2, <2>1, GoToChanges
  <2>3. request'[r].failed = request[r].failed
    <3>1. request[r] \in AnyRequest
      BY <1>1, <1>2, IdleIsNone DEF Types
    <3> QED  BY <1>1, <2>1, <3>1 DEF GoTo, Types, AnyRequest
  <2>4. Past(r) /\ Past(r)' /\ Left(r)' = Left(r)
    BY <1>2, <2>2, <2>3 DEF Past, Is, Left
  <2>5. Failing(r) = 0 /\ Failing(r)' \in {0, 2} /\ (step = "fail" => Failing(r)' = 2)
    BY <1>2, <2>2 DEF Failing, Running
  <2>6. Left(r) \in Nat /\ Left(s) \in Nat /\ Failing(s) \in Nat /\ Room \in Nat
    BY <1>1, LeftIsBounded DEF InBounds
  <2>7. Room' = Room
    BY <1>2 DEF Room
  <2>8. Left(s)' <= Left(s) /\ (s # r => Failing(s)' = Failing(s))
    <3>1. CASE s = r
      BY <2>4, <2>6, <3>1
    <3>2. CASE s # r
      BY <1>1, <2>2, <2>6, <2>7, <3>2, Unmoved
    <3> QED  BY <3>1, <3>2
  <2>9. tries' \in Nat /\ 2 * tries' <= 2 * tries + Failing(r)'
    BY <1>1, <2>1, <2>5
  <2>10. 2 * tries' + Failing(r) + Failing(s) <= 2 * tries + Failing(r)' + Failing(s)'
    <3>1. CASE s = r
      BY <1>1, <2>5, <2>9, <3>1
    <3>2. CASE s # r
      BY <1>1, <2>5, <2>6, <2>8, <2>9, <3>2
    <3> QED  BY <3>1, <3>2
  <2>11. Left(r)' <= Left(r)
    BY <2>4, <2>6
  <2> QED  BY <2>8, <2>9, <2>10, <2>11, Cheaper
<1> QED  BY <1>3, <1>4

(* The failure is written over whatever the account has become: there is   *)
(* one less to the lock than the attempt had read.                         *)
LEMMA FailureSpendsOne ==
  ASSUME NEW r \in Requests, NEW s \in Requests, Requests = {r, s}, TriesInv(r, s), Types',
         RecordFailure(r)
  PROVE  TriesInv(r, s)'
<1>1. Types /\ tries \in Nat /\ Budget(r, s)
  BY DEF TriesInv
<1>2. request[r].op = "login" /\ request[r].step = "fail" /\ Finish(r) /\ tries' = tries
  BY DEF RecordFailure, Running, history
<1>3. request'[r].op = "idle" /\ \A q \in Requests \ {r} : request'[q] = request[q]
  BY <1>1, <1>2, FinishChanges
<1> DEFINE m == Left(r)  n == Left(s)  k == Left(r)'  l == Left(s)'
<1>4. m \in Nat /\ n \in Nat /\ m >= 1 /\ Failing(r) = 2 /\ Failing(s) \in {0, 2}
  <2>1. Past(r) /\ Failing(r) = 2
    BY <1>2 DEF Past, Is, Failing, Running
  <2> QED  BY <1>1, <2>1, LeftIsBounded DEF InBounds
<1>5. Room' = m - 1
  <2>1. m = FailuresLeft(request[r].failed)
    BY <1>2 DEF Left, Past, Is
  <2>2. request[r] \in AnyRequest
    BY <1>1, <1>2, IdleIsNone DEF Types
  <2>3. request[r].failed \in Nat
    BY <2>2 DEF AnyRequest
  <2> DEFINE f == request[r].failed
  <2>4. user' = IF f + 1 >= MaxFailed
                THEN [status |-> "blocked", failedAttempts |-> f + 1, blockedUntil |-> "future"]
                ELSE [status |-> "active", failedAttempts |-> f + 1, blockedUntil |-> NULL]
    BY DEF RecordFailure, ShouldBlock
  <2> HIDE DEF f, m
  <2>5. MaxFailed \in Nat /\ f \in Nat /\ m = FailuresLeft(f)
    BY <2>1, <2>3, AccessConstants DEF f
  <2>6. CASE f + 1 >= MaxFailed
    <3>1. Room' = 0
      BY <2>4, <2>6 DEF Room
    <3>2. m = 1
      BY <2>5, <2>6 DEF FailuresLeft
    <3> QED  BY <3>1, <3>2
  <2>7. CASE f + 1 < MaxFailed
    <3>1. user'.status = "active" /\ user'.failedAttempts = f + 1
      BY <2>4, <2>5, <2>7
    <3>2. Room' = FailuresLeft(f + 1)
      BY <3>1 DEF Room
    <3> QED  BY <2>5, <2>7, <3>2 DEF FailuresLeft
  <2> QED  BY <2>5, <2>6, <2>7
<1>6. k = m - 1 /\ Failing(r)' = 0
  <2>1. ~Past(r)' /\ Failing(r)' = 0
    BY <1>3 DEF Past, Is, Failing, Running
  <2> QED  BY <1>5, <2>1 DEF Left
<1>7. s = r => n = m /\ l = k /\ Failing(s) = 2 /\ Failing(s)' = 0
  BY <1>4, <1>6
<1>8. s # r => Failing(s)' = Failing(s) /\ (l = n \/ l = m - 1)
  BY <1>1, <1>3, <1>5, Unmoved
<1>9. /\ 2 * tries + Worth(m, n) <= 2 * TriesBound + Failing(r) + Failing(s)
      /\ Budget(r, s)' <=>
           2 * tries' + Worth(k, l) <= 2 * TriesBound + Failing(r)' + Failing(s)'
  BY <1>1 DEF Budget, Worth
<1> HIDE DEF m, n, k, l
<1>10. /\ Worth(m - 1, n) <= Worth(m, n) - 2
       /\ Worth(m - 1, m - 1) <= Worth(m, n) - 2
       /\ Worth(m - 1, m - 1) <= Worth(m, m) - 4
  <2>1. m \in Nat \ {0} /\ n \in Nat
    BY <1>4
  <2> QED  BY <2>1, WorthFalls
<1>11. Worth(m, n) \in Nat /\ Worth(m - 1, n) \in Nat /\ Worth(m - 1, m - 1) \in Nat
  <2>1. m - 1 \in Nat
    BY <1>4
  <2> HIDE DEF Worth
  <2>2. Worth(m, n) \in Nat
    BY <1>4, WorthIsNatural
  <2>3. Worth(m - 1, n) \in Nat
    BY <1>4, <2>1, WorthIsNatural
  <2>4. Worth(m - 1, m - 1) \in Nat
    BY <2>1, WorthIsNatural
  <2> QED  BY <2>2, <2>3, <2>4
<1>12. TriesBound \in Nat
  BY AccessConstants
<1>13. Budget(r, s)'
  <2>1. CASE s = r
    <3>1. k = m - 1 /\ l = m - 1 /\ n = m /\ Failing(s) = 2 /\ Failing(s)' = 0
      BY <1>6, <1>7, <2>1
    <3>2. Worth(k, l) = Worth(m - 1, m - 1) /\ Worth(m, n) = Worth(m, m)
      BY <3>1
    <3> QED  BY <1>1, <1>2, <1>4, <1>6, <1>9, <1>10, <1>11, <1>12, <3>1, <3>2
  <2>2. CASE s # r
    <3>1. Failing(s)' = Failing(s) /\ (Worth(k, l) = Worth(m - 1, n)
                                       \/ Worth(k, l) = Worth(m - 1, m - 1))
      BY <1>6, <1>8, <2>2
    <3> QED  BY <1>1, <1>2, <1>4, <1>6, <1>9, <1>10, <1>11, <1>12, <3>1
  <2> QED  BY <2>1, <2>2
<1> QED  BY <1>1, <1>2, <1>13 DEF TriesInv

LEMMA NextSpends ==
  ASSUME NEW r \in Requests, NEW s \in Requests, Requests = {r, s},
         MaxFailed * (MaxFailed + 3) <= 2 * TriesBound,
         TriesInv(r, s), Types', Arrive(r) \/ Step(r)
  PROVE  TriesInv(r, s)'
<1>1. CASE Unblock(r) \/ RecordSuccess(r) \/ Activate(r)
  <2>1. tries' = 0
    BY <1>1 DEF Unblock, RecordSuccess, Activate
  <2> QED  BY <2>1, Afresh
<1>2. CASE \/ StartSetStatus(r) \/ ForgotPassword(r) \/ ResetPassword(r)
           \/ CreateLink(r) \/ SetPassword(r) \/ UseLink(r) \/ RecoverLock(r) \/ Deactivate(r)
  BY <1>2, OthersSpendNothing
<1>3. CASE Attempt(r)
  BY <1>3, BeginningSpendsNothing
<1>4. CASE Check(r)
  BY <1>4, CheckSpendsOne
<1>5. CASE RecordFailure(r)
  BY <1>5, FailureSpendsOne
<1> QED  BY <1>1, <1>2, <1>3, <1>4, <1>5 DEF Arrive, Step

(* Which of the two is named first does not matter.                        *)
LEMMA BudgetIsCommon == Types => \A r, s \in Requests : Budget(r, s) <=> Budget(s, r)
<1> SUFFICES ASSUME Types, NEW r \in Requests, NEW s \in Requests
             PROVE  Budget(r, s) <=> Budget(s, r)
  OBVIOUS
<1>1. Left(r) \in Nat /\ Left(s) \in Nat /\ Failing(r) \in Nat /\ Failing(s) \in Nat
  BY LeftIsBounded DEF InBounds
<1>2. Worth(Left(r), Left(s)) = Worth(Left(s), Left(r))
  BY <1>1, WorthIsNatural
<1>3. Failing(r) + Failing(s) = Failing(s) + Failing(r)
  BY <1>1
<1> DEFINE x == Worth(Left(r), Left(s))
<1>4. /\ Budget(r, s) <=> 2 * tries + x <= 2 * TriesBound + Failing(r) + Failing(s)
      /\ Budget(s, r) <=> 2 * tries + x <= 2 * TriesBound + Failing(s) + Failing(r)
  BY <1>2 DEF Budget
<1>5. TriesBound \in Nat
  BY AccessConstants
<1> HIDE DEF x
<1>6. 2 * TriesBound + Failing(r) + Failing(s) = 2 * TriesBound + Failing(s) + Failing(r)
  BY <1>1, <1>5
<1> QED  BY <1>4, <1>6

LEMMA BudgetIsCommonAfter ==
  Types' => (\A r, s \in Requests : Budget(r, s) <=> Budget(s, r))'
BY BudgetIsCommon, PTL

(* validateUser: two requests at a time, whose late failures undo the      *)
(* counting and even the lock of the other one, try at most M(M + 3) / 2   *)
(* wrong passwords for a limit of M before one is right, the lock has been *)
(* sat out, or root steps in.                                              *)
THEOREM TwoTryABoundedNumber ==
  ASSUME NEW a, NEW b, Requests = {a, b}, MaxFailed * (MaxFailed + 3) <= 2 * TriesBound
  PROVE  Spec => []TriesAreBounded
<1>0. a \in Requests /\ b \in Requests /\ Requests = {b, a}
  OBVIOUS
<1>1. Init => TriesInv(a, b)
  <2> SUFFICES ASSUME Init PROVE TriesInv(a, b)
    OBVIOUS
  <2>1. Types /\ tries = 0
    BY InitTypes DEF Init
  <2>2. Left(a) \in 0..MaxFailed /\ Left(b) \in 0..MaxFailed
        /\ Failing(a) \in Nat /\ Failing(b) \in Nat
    BY <1>0, <2>1, LeftIsBounded DEF InBounds
  <2>3. Worth(Left(a), Left(b)) <= MaxFailed * (MaxFailed + 3)
    BY <2>2, WorthIsBounded
  <2>4. Worth(Left(a), Left(b)) \in Nat /\ MaxFailed \in Nat /\ TriesBound \in Nat
    BY <1>0, <2>1, LeftIsBounded, WorthIsNatural, AccessConstants DEF InBounds
  <2>5. MaxFailed * (MaxFailed + 3) \in Nat
    BY <2>4
  <2>6. Budget(a, b)
    BY <2>1, <2>2, <2>3, <2>4, <2>5 DEF Budget
  <2> QED  BY <2>1, <2>6 DEF TriesInv
<1>2. TriesInv(a, b) /\ [Next]_vars => TriesInv(a, b)'
  <2> SUFFICES ASSUME TriesInv(a, b), [Next]_vars PROVE TriesInv(a, b)'
    OBVIOUS
  <2>1. Types /\ tries \in Nat /\ Budget(a, b) /\ Budget(b, a)
    BY <1>0, BudgetIsCommon DEF TriesInv
  <2>2. CASE UNCHANGED vars
    BY <2>1, <2>2 DEF vars, TriesInv, Types, Budget, Left, Past, Room, Failing, Running, Is,
       AnyUser, AnyRequest, Idle
  <2>3. CASE Next
    <3>1. Types'
      BY <2>1, <2>3, NextKeepsTypes
    <3>2. CASE Arrive(a) \/ Step(a)
      BY <1>0, <2>1, <3>1, <3>2, NextSpends
    <3>3. CASE Arrive(b) \/ Step(b)
      <4>1. TriesInv(b, a)
        BY <2>1 DEF TriesInv
      <4>2. TriesInv(b, a)'
        BY <1>0, <3>1, <3>3, <4>1, NextSpends
      <4>3. Budget(a, b)' <=> Budget(b, a)'
        BY <1>0, <3>1, BudgetIsCommonAfter
      <4> QED  BY <4>2, <4>3 DEF TriesInv
    <3>4. CASE LockEnds \/ \E l \in Links : LinkExpires(l)
      BY <1>0, <3>1, <3>4, TimeSpendsNothing
    <3> QED  BY <2>3, <3>2, <3>3, <3>4 DEF Next
  <2> QED  BY <2>2, <2>3
<1>3. TriesInv(a, b) => TriesAreBounded
  <2> SUFFICES ASSUME TriesInv(a, b) PROVE tries <= TriesBound
    BY DEF TriesAreBounded
  <2>1. Types /\ tries \in Nat /\ Budget(a, b)
    BY DEF TriesInv
  <2>2. /\ Left(a) \in Nat /\ Left(b) \in Nat
        /\ Failing(a) \in {0, 2} /\ Failing(b) \in {0, 2}
        /\ Past(a) => Left(a) >= 1
        /\ Past(b) => Left(b) >= 1
    BY <1>0, <2>1, LeftIsBounded DEF InBounds
  <2>3. /\ Failing(a) = 2 => Left(a) >= 1
        /\ Failing(b) = 2 => Left(b) >= 1
    BY <2>2 DEF Failing, Past, Running, Is
  <2> DEFINE m == Left(a)  n == Left(b)
  <2>4. 2 * tries + Worth(m, n) <= 2 * TriesBound + Failing(a) + Failing(b)
    BY <2>1 DEF Budget
  <2>5. m \in Nat /\ n \in Nat
    BY <2>2
  <2> HIDE DEF m, n
  <2>6. Worth(m, n) >= 2 * m /\ Worth(m, n) >= 2 * n /\ Worth(m, n) \in Nat
        /\ (m >= 1 /\ n >= 1 => Worth(m, n) >= 4)
    BY <2>5, WorthLowers, WorthIsNatural
  <2>7. TriesBound \in Nat
    BY AccessConstants
  <2> QED  BY <2>1, <2>2, <2>3, <2>4, <2>5, <2>6, <2>7 DEF m, n
<1> QED  BY <1>1, <1>2, <1>3, PTL DEF Spec
=============================================================================
