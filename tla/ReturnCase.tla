----------------------------- MODULE ReturnCase -----------------------------
(***************************************************************************)
(* What the shop promises about giving a purchase back: a purchase is      *)
(* returned at most once, a return is decided once, and the client gets    *)
(* what was paid exactly when the return ends as refunded.                 *)
(***************************************************************************)
EXTENDS Integers

CONSTANTS Purchases, Clients,
          Owner,   \* the client of each purchase
          Total    \* what each purchase cost, in cents

VARIABLES phase,   \* how far the return of each purchase has come
          balance  \* what each client has been given back

Init == /\ phase = [p \in Purchases |-> "none"]
        /\ balance = [c \in Clients |-> 0]

Decide(p, from, to) == /\ phase[p] = from
                       /\ phase' = [phase EXCEPT ![p] = to]
                       /\ UNCHANGED balance

Ask(p) == Decide(p, "none", "asked")
Accept(p) == Decide(p, "asked", "accepted")
Refuse(p) == \E from \in {"asked", "accepted"} : Decide(p, from, "refused")

PayBack(p) == /\ phase[p] = "accepted"
              /\ phase' = [phase EXCEPT ![p] = "refunded"]
              /\ balance' = [balance EXCEPT ![Owner[p]] = @ + Total[p]]

Next == \E p \in Purchases : Ask(p) \/ Accept(p) \/ Refuse(p) \/ PayBack(p)

Spec == Init /\ [][Next]_<<phase, balance>>
=============================================================================
