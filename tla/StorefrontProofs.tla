-------------------------- MODULE StorefrontProofs --------------------------
(***************************************************************************)
(* Proofs that the shop's tables keep their types, that no copy of a book  *)
(* appears or vanishes, and that the ledger explains the wallet, for any   *)
(* number of clients, books, stores, handlers and requests.                *)
(***************************************************************************)
EXTENDS Storefront, WellFoundedInduction, SequenceTheorems, FiniteSetTheorems, TLAPS

-----------------------------------------------------------------------------
(* Sums over finite sets.                                                  *)

(* The element of s a sum takes first.                                     *)
Pick(s) == CHOOSE x \in s : TRUE

(* g[s] is the sum of f over s, for each subset s of S: the recursion behind*)
(* SumFunctionOnSet.                                                       *)
IsSum(g, f, S) ==
  g = [s \in SUBSET S |-> IF s = {} THEN 0 ELSE f[Pick(s)] + g[s \ {Pick(s)}]]

(* What is picked of a set is in it.                                       *)
LEMMA PickIn == ASSUME NEW s, s # {} PROVE Pick(s) \in s
BY DEF Pick

(* The sum of the community modules is a value of that recursion.          *)
LEMMA SumIter ==
  ASSUME NEW f, NEW S
  PROVE  SumFunctionOnSet(f, S) = (CHOOSE g : IsSum(g, f, S))[S]
BY DEF SumFunctionOnSet, FoldFunctionOnSet, MapThenFoldSet, IsSum, Pick

(* Of some subsets of a finite set, one contains none of the others: where *)
(* a proof about sums takes a smallest counterexample, for want of an      *)
(* induction theorem the provers can instantiate.                          *)
LEMMA SmallestSubset ==
  ASSUME NEW S, IsFiniteSet(S), NEW C, C \subseteq SUBSET S, C # {}
  PROVE  \E T \in C : \A U \in C : ~(U \subseteq T /\ U # T)
<1>1. IsWellFoundedOn(StrictSubsetOrdering(S), SUBSET S)
  BY FS_StrictSubsetOrderingWellFounded, FS_FiniteSubsetsOfFinite
<1>2. \E T \in C : \A U \in C : ~(<<U, T>> \in StrictSubsetOrdering(S))
  BY <1>1, WFMin
<1> QED  BY <1>2 DEF StrictSubsetOrdering

(* Recursions over a set and over a part of it agree on that part.         *)
LEMMA SumsAgree ==
  ASSUME NEW f, NEW S, IsFiniteSet(S), NEW T, T \subseteq S,
         NEW g, IsSum(g, f, S), NEW h, IsSum(h, f, T)
  PROVE  \A s \in SUBSET T : g[s] = h[s]
<1> DEFINE C == {s \in SUBSET T : g[s] # h[s]}
<1> SUFFICES ASSUME C # {} PROVE FALSE
  OBVIOUS
<1>1. C \subseteq SUBSET S
  OBVIOUS
<1>2. PICK s \in C : \A u \in C : ~(u \subseteq s /\ u # s)
  <2> HIDE DEF C
  <2> QED  BY <1>1, SmallestSubset
<1>3. s # {}
  BY DEF IsSum
<1>4. Pick(s) \in s
  BY <1>3, PickIn
<1>5. g[s \ {Pick(s)}] = h[s \ {Pick(s)}]
  BY <1>2, <1>4
<1>6. g[s] = f[Pick(s)] + g[s \ {Pick(s)}] /\ h[s] = f[Pick(s)] + h[s \ {Pick(s)}]
  BY <1>3 DEF IsSum
<1> QED  BY <1>5, <1>6

(* There is such a recursion.                                              *)
LEMMA SumExists ==
  ASSUME NEW f, NEW S, IsFiniteSet(S)
  PROVE  \E g : IsSum(g, f, S)
<1> DEFINE C == {T \in SUBSET S : ~\E g : IsSum(g, f, T)}
<1> SUFFICES ASSUME C # {} PROVE FALSE
  OBVIOUS
<1>2. PICK T \in C : \A u \in C : ~(u \subseteq T /\ u # T)
  <2>1. C \subseteq SUBSET S
    OBVIOUS
  <2> HIDE DEF C
  <2> QED  BY <2>1, SmallestSubset
<1>3. \A u : u \subseteq T /\ u # T => \E g : IsSum(g, f, u)
  BY <1>2
<1> DEFINE sub(u) == CHOOSE g : IsSum(g, f, u)
           value(s) == IF s = {} THEN 0 ELSE f[Pick(s)] + sub(s \ {Pick(s)})[s \ {Pick(s)}]
           G == [s \in SUBSET T |-> value(s)]
<1>4. \A u : u \subseteq T /\ u # T => IsSum(sub(u), f, u)
  BY <1>3
<1>5. ASSUME NEW s \in SUBSET T, s # {}
      PROVE  G[s] = f[Pick(s)] + G[s \ {Pick(s)}]
  <2> DEFINE u == s \ {Pick(s)}
  <2>1. Pick(s) \in s
    BY <1>5, PickIn
  <2>2. u \subseteq T /\ u # T
    BY <2>1
  <2>3. IsSum(sub(u), f, u)
    BY <2>2, <1>4
  <2>4. CASE u = {}
    <3>1. sub(u)[u] = 0
      BY <2>3, <2>4 DEF IsSum
    <3> QED  BY <2>2, <2>4, <3>1, <1>5
  <2>5. CASE u # {}
    <3> DEFINE v == u \ {Pick(u)}
    <3>1. Pick(u) \in u
      BY <2>5, PickIn
    <3>2. v \subseteq T /\ v # T /\ v \subseteq u
      BY <3>1, <2>2
    <3>3. IsSum(sub(v), f, v)
      BY <3>2, <1>4
    <3>4. IsFiniteSet(u)
      BY <2>2, FS_Subset
    <3>5. sub(u)[v] = sub(v)[v]
      <4> HIDE DEF sub, u, v
      <4> QED  BY <2>3, <3>2, <3>3, <3>4, SumsAgree
    <3>6. sub(u)[u] = f[Pick(u)] + sub(u)[v]
      <4> HIDE DEF sub
      <4> QED  BY <2>3, <2>5 DEF IsSum
    <3>7. G[u] = f[Pick(u)] + sub(v)[v]
      <4> HIDE DEF sub
      <4> QED BY <2>2, <2>5
    <3> HIDE DEF sub
    <3> QED  BY <3>5, <3>6, <3>7, <1>5
  <2> QED  BY <2>4, <2>5
<1>6. IsSum(G, f, T)
  <2>1. G[{}] = 0
    OBVIOUS
  <2> DEFINE H == [s \in SUBSET T |-> IF s = {} THEN 0 ELSE f[Pick(s)] + G[s \ {Pick(s)}]]
  <2>3. G = [s \in SUBSET T |-> G[s]]
    OBVIOUS
  <2> HIDE DEF G
  <2>2. \A s \in SUBSET T : G[s] = IF s = {} THEN 0 ELSE f[Pick(s)] + G[s \ {Pick(s)}]
    BY <2>1, <1>5
  <2>4. G = H
    BY <2>2, <2>3
  <2> QED  BY <2>4 DEF IsSum
<1> HIDE DEF G
<1> QED  BY <1>2, <1>6

(* So a sum is what was picked and the sum of the others.                  *)
LEMMA SumRecursion ==
  ASSUME NEW f, NEW S, IsFiniteSet(S)
  PROVE  SumFunctionOnSet(f, S) =
           IF S = {} THEN 0 ELSE f[Pick(S)] + SumFunctionOnSet(f, S \ {Pick(S)})
<1> DEFINE g(T) == CHOOSE h : IsSum(h, f, T)
           T == S \ {Pick(S)}
<1>1. IsSum(g(S), f, S)
  BY SumExists
<1>2. SumFunctionOnSet(f, S) = g(S)[S] /\ SumFunctionOnSet(f, T) = g(T)[T]
  BY SumIter
<1>3. IsFiniteSet(T)
  BY FS_Subset
<1>4. IsSum(g(T), f, T)
  BY <1>3, SumExists
<1>5. g(S)[T] = g(T)[T]
  <2> HIDE DEF g
  <2> QED  BY <1>1, <1>4, SumsAgree
<1> HIDE DEF g
<1> QED  BY <1>1, <1>2, <1>5 DEF IsSum

(* The sum of nothing.                                                     *)
LEMMA SumEmpty == ASSUME NEW f PROVE SumFunctionOnSet(f, {}) = 0
BY SumRecursion, FS_EmptySet

(* A sum of integers is an integer.                                        *)
LEMMA SumType ==
  ASSUME NEW S, IsFiniteSet(S), NEW f, \A x \in S : f[x] \in Int
  PROVE  SumFunctionOnSet(f, S) \in Int
<1> DEFINE C == {T \in SUBSET S : SumFunctionOnSet(f, T) \notin Int}
<1> SUFFICES ASSUME C # {} PROVE FALSE
  OBVIOUS
<1>2. PICK T \in C : \A u \in C : ~(u \subseteq T /\ u # T)
  <2>1. C \subseteq SUBSET S
    OBVIOUS
  <2> HIDE DEF C
  <2> QED  BY <2>1, SmallestSubset
<1>3. IsFiniteSet(T)
  BY FS_Subset
<1>4. T # {}
  BY SumEmpty
<1>5. Pick(T) \in T
  BY <1>4, PickIn
<1>6. SumFunctionOnSet(f, T \ {Pick(T)}) \in Int
  BY <1>2, <1>5
<1> QED  BY <1>3, <1>4, <1>5, <1>6, SumRecursion

(* Any element can be taken out of a sum.                                  *)
LEMMA SumRemove ==
  ASSUME NEW S, IsFiniteSet(S), NEW f, \A x \in S : f[x] \in Int, NEW x \in S
  PROVE  SumFunctionOnSet(f, S) = f[x] + SumFunctionOnSet(f, S \ {x})
<1> DEFINE C == {T \in SUBSET S : \E y \in T :
                   SumFunctionOnSet(f, T) # f[y] + SumFunctionOnSet(f, T \ {y})}
<1> SUFFICES ASSUME C # {} PROVE FALSE
  OBVIOUS
<1>2. PICK T \in C : \A u \in C : ~(u \subseteq T /\ u # T)
  <2>1. C \subseteq SUBSET S
    OBVIOUS
  <2> HIDE DEF C
  <2> QED  BY <2>1, SmallestSubset
<1>3. PICK y \in T : SumFunctionOnSet(f, T) # f[y] + SumFunctionOnSet(f, T \ {y})
  BY <1>2
<1> DEFINE p == Pick(T)
<1>4. p \in T
  BY <1>3, PickIn
<1>5. IsFiniteSet(T)
  BY FS_Subset
<1>6. SumFunctionOnSet(f, T) = f[p] + SumFunctionOnSet(f, T \ {p})
  BY <1>4, <1>5, SumRecursion
<1>7. p # y
  BY <1>3, <1>6
<1> HIDE DEF p
<1>a. ASSUME NEW u, u \subseteq T, u # T, NEW z \in u
      PROVE  SumFunctionOnSet(f, u) = f[z] + SumFunctionOnSet(f, u \ {z})
  <2>1. u \notin C /\ u \in SUBSET S
    BY <1>2, <1>a
  <2> QED  BY <2>1, <1>a
<1>b. T \subseteq S
  OBVIOUS
<1> HIDE DEF C
<1>8. SumFunctionOnSet(f, T \ {p}) = f[y] + SumFunctionOnSet(f, (T \ {p}) \ {y})
  BY <1>a, <1>3, <1>4, <1>7
<1>9. SumFunctionOnSet(f, T \ {y}) = f[p] + SumFunctionOnSet(f, (T \ {y}) \ {p})
  BY <1>a, <1>3, <1>4, <1>7
<1>10. (T \ {p}) \ {y} = (T \ {y}) \ {p}
  OBVIOUS
<1>11. SumFunctionOnSet(f, (T \ {y}) \ {p}) \in Int
  <2>1. IsFiniteSet((T \ {y}) \ {p}) /\ (T \ {y}) \ {p} \subseteq S
    BY <1>5, <1>b, FS_Subset
  <2> QED  BY <2>1, SumType
<1>12. f[p] \in Int /\ f[y] \in Int
  BY <1>3, <1>4 DEF C
<1> DEFINE R == SumFunctionOnSet(f, (T \ {y}) \ {p})
<1>13. SumFunctionOnSet(f, T) = f[p] + (f[y] + R)
  BY <1>6, <1>8, <1>10
<1>14. SumFunctionOnSet(f, T \ {y}) = f[p] + R
  BY <1>9
<1>15. R \in Int
  BY <1>11
<1> HIDE DEF R
<1> QED  BY <1>3, <1>12, <1>13, <1>14, <1>15

(* The sum of a function to the integers.                                  *)
LEMMA SumFunctionType ==
  ASSUME NEW S, IsFiniteSet(S), NEW f \in [S -> Int]
  PROVE  SumFunction(f) \in Int
BY SumType DEF SumFunction

(* A sum depends on the values it sums.                                    *)
LEMMA SumSame ==
  ASSUME NEW S, IsFiniteSet(S), NEW f, NEW g, \A x \in S : f[x] \in Int /\ f[x] = g[x]
  PROVE  SumFunctionOnSet(f, S) = SumFunctionOnSet(g, S)
<1> DEFINE C == {T \in SUBSET S : SumFunctionOnSet(f, T) # SumFunctionOnSet(g, T)}
<1> SUFFICES ASSUME C # {} PROVE FALSE
  OBVIOUS
<1>2. PICK T \in C : \A u \in C : ~(u \subseteq T /\ u # T)
  <2>1. C \subseteq SUBSET S
    OBVIOUS
  <2> HIDE DEF C
  <2> QED  BY <2>1, SmallestSubset
<1>3. IsFiniteSet(T)
  BY FS_Subset
<1>4. T # {}
  BY SumEmpty
<1>5. Pick(T) \in T
  BY <1>4, PickIn
<1>6. SumFunctionOnSet(f, T \ {Pick(T)}) = SumFunctionOnSet(g, T \ {Pick(T)})
  BY <1>2, <1>5
<1> QED  BY <1>3, <1>4, <1>5, <1>6, SumRecursion

(* One value changes: the sum changes by as much.                          *)
LEMMA SumChange ==
  ASSUME NEW S, IsFiniteSet(S), NEW f \in [S -> Int], NEW g \in [S -> Int], NEW x \in S,
         \A y \in S \ {x} : f[y] = g[y]
  PROVE  SumFunction(g) = SumFunction(f) + (g[x] - f[x])
<1>1. SumFunctionOnSet(f, S) = f[x] + SumFunctionOnSet(f, S \ {x})
  BY SumRemove
<1>2. SumFunctionOnSet(g, S) = g[x] + SumFunctionOnSet(g, S \ {x})
  BY SumRemove
<1>3. IsFiniteSet(S \ {x})
  BY FS_Subset
<1>4. SumFunctionOnSet(f, S \ {x}) = SumFunctionOnSet(g, S \ {x})
  BY <1>3, SumSame
<1>5. SumFunctionOnSet(f, S \ {x}) \in Int
  BY <1>3, SumType
<1>6. DOMAIN f = S /\ DOMAIN g = S
  OBVIOUS
<1> QED  BY <1>1, <1>2, <1>4, <1>5, <1>6 DEF SumFunction

(* Sums compare as their values do.                                        *)
LEMMA SumAtMost ==
  ASSUME NEW S, IsFiniteSet(S), NEW f \in [S -> Int], NEW g \in [S -> Int],
         \A x \in S : f[x] <= g[x]
  PROVE  SumFunction(f) <= SumFunction(g)
<1> DEFINE C == {T \in SUBSET S : ~(SumFunctionOnSet(f, T) <= SumFunctionOnSet(g, T))}
<1>1. SUFFICES ASSUME C # {} PROVE FALSE
  BY DEF SumFunction
<1>2. PICK T \in C : \A u \in C : ~(u \subseteq T /\ u # T)
  <2>1. C \subseteq SUBSET S
    OBVIOUS
  <2> HIDE DEF C
  <2> QED  BY <1>1, <2>1, SmallestSubset
<1>3. IsFiniteSet(T)
  BY FS_Subset
<1>4. T # {}
  BY SumEmpty
<1>5. Pick(T) \in T /\ Pick(T) \in S
  BY <1>4, PickIn
<1> DEFINE p == Pick(T)  u == T \ {p}  a == SumFunctionOnSet(f, u)  b == SumFunctionOnSet(g, u)
<1>6. a <= b
  BY <1>2, <1>5
<1>7. a \in Int /\ b \in Int
  <2>1. IsFiniteSet(u) /\ u \subseteq S
    BY <1>3, FS_Subset
  <2> QED  BY <2>1, SumType
<1>8. SumFunctionOnSet(f, T) = f[p] + a /\ SumFunctionOnSet(g, T) = g[p] + b
  BY <1>3, <1>4, SumRecursion
<1>9. f[p] \in Int /\ g[p] \in Int /\ f[p] <= g[p]
  BY <1>5
<1>10. ~(SumFunctionOnSet(f, T) <= SumFunctionOnSet(g, T))
  OBVIOUS
<1> HIDE DEF a, b, p
<1> QED  BY <1>6, <1>7, <1>8, <1>9, <1>10

(* A sum of zeros.                                                         *)
LEMMA SumZero ==
  ASSUME NEW S, IsFiniteSet(S)
  PROVE  SumFunction([x \in S |-> 0]) = 0
<1> DEFINE f == [x \in S |-> 0]
           C == {T \in SUBSET S : SumFunctionOnSet(f, T) # 0}
<1>1. SUFFICES ASSUME C # {} PROVE FALSE
  BY DEF SumFunction
<1>2. PICK T \in C : \A u \in C : ~(u \subseteq T /\ u # T)
  <2>1. C \subseteq SUBSET S
    OBVIOUS
  <2> HIDE DEF C
  <2> QED  BY <1>1, <2>1, SmallestSubset
<1>3. IsFiniteSet(T)
  BY FS_Subset
<1>4. T # {}
  BY SumEmpty
<1>5. Pick(T) \in T
  BY <1>4, PickIn
<1>6. SumFunctionOnSet(f, T \ {Pick(T)}) = 0
  BY <1>2, <1>5
<1>7. SumFunctionOnSet(f, T) = f[Pick(T)] + SumFunctionOnSet(f, T \ {Pick(T)})
  BY <1>3, <1>4, SumRecursion
<1> QED  BY <1>5, <1>6, <1>7

(* A sum of natural numbers is one.                                        *)
LEMMA SumNat ==
  ASSUME NEW S, IsFiniteSet(S), NEW f \in [S -> Nat]
  PROVE  SumFunction(f) \in Nat
<1> DEFINE z == [x \in S |-> 0]
<1>1. z \in [S -> Int] /\ f \in [S -> Int] /\ \A x \in S : z[x] <= f[x]
  OBVIOUS
<1>2. SumFunction(z) = 0
  BY SumZero
<1>3. SumFunction(f) \in Int
  BY <1>1, SumFunctionType
<1> HIDE DEF z
<1>4. SumFunction(z) <= SumFunction(f)
  BY <1>1, SumAtMost
<1> QED  BY <1>2, <1>3, <1>4

-----------------------------------------------------------------------------
(* The variables of a handler.                                             *)

(* A handler keeps its type when one of its variables is set to a value of *)
(* the right type: each statement sets some of them.                       *)
LEMMA SetFields ==
  ASSUME NEW s \in HandlerState
  PROVE  /\ \A x \in PC : [s EXCEPT !.pc = x] \in HandlerState
         /\ \A x \in Clients \cup {NULL} : [s EXCEPT !.actor = x] \in HandlerState
         /\ \A x \in Dto : [s EXCEPT !.dto = x] \in HandlerState
         /\ \A x \in [Books -> Nat] : [s EXCEPT !.want = x] \in HandlerState
         /\ \A x \in [Books -> Nat] : [s EXCEPT !.need = x] \in HandlerState
         /\ \A x \in SUBSET Counted : [s EXCEPT !.own = x] \in HandlerState
         /\ \A x \in SUBSET (ItemEntry \cup StockEntry) :
              [s EXCEPT !.todo = x] \in HandlerState
         /\ \A x \in SUBSET ItemEntry : [s EXCEPT !.left = x] \in HandlerState
         /\ \A x \in SUBSET Reservations : [s EXCEPT !.convert = x] \in HandlerState
         /\ \A x \in Reservations \cup {NULL} : [s EXCEPT !.res = x] \in HandlerState
         /\ \A x \in SUBSET Reservations : [s EXCEPT !.queue = x] \in HandlerState
         /\ \A x \in SUBSET ItemEntry : [s EXCEPT !.snapshot = x] \in HandlerState
         /\ \A x \in BOOLEAN : [s EXCEPT !.waitlisted = x] \in HandlerState
         /\ \A x \in Attempts \cup {NULL} : [s EXCEPT !.attempt = x] \in HandlerState
         /\ \A x \in AttemptStatus : [s EXCEPT !.webhook = x] \in HandlerState
         /\ \A x \in Purchases \cup {NULL} : [s EXCEPT !.purchaseId = x] \in HandlerState
BY DEF HandlerState

(* A handler that finished is a handler, without uncommitted writes.       *)
LEMMA IdleHandlerType ==
  /\ IdleHandler \in HandlerState
  /\ \A d : d = NoDelta => Coherent(IdleHandler, d)
<1>1. IdleHandler \in HandlerState
  BY DEF IdleHandler, HandlerState, PC, Dto, NoDto, NoBooks, AttemptStatus
<1>2. ASSUME NEW d, d = NoDelta PROVE Coherent(IdleHandler, d)
  BY <1>2 DEF Coherent, IdleHandler, NoDelta
<1> QED  BY <1>1, <1>2

(* No uncommitted writes are uncommitted writes.                           *)
LEMMA NoDeltaType == NoDelta \in [Rows -> DeltaRow]
BY DEF NoDelta, DeltaRow

-----------------------------------------------------------------------------
(* Steps by what they change.                                              *)

(* A handler goes on from state s, and its uncommitted writes become d.    *)
Moves(h, s, d) ==
  /\ handler' = [handler EXCEPT ![h] = s]
  /\ delta' = [delta EXCEPT ![h] = d]
  /\ s \in HandlerState
  /\ d \in [Rows -> DeltaRow]
  /\ Coherent(s, d)

(* The other handlers stay as they are, so all keep their types and agree  *)
(* with their uncommitted writes.                                          *)
LEMMA MovesPreserve ==
  ASSUME IInv, NEW h \in Handlers, NEW s, NEW d, Moves(h, s, d)
  PROVE  /\ handler' \in [Handlers -> HandlerState]
         /\ delta' \in [Handlers -> [Rows -> DeltaRow]]
         /\ \A g \in Handlers : Coherent(handler'[g], delta'[g])
<1>1. /\ handler \in [Handlers -> HandlerState]
      /\ delta \in [Handlers -> [Rows -> DeltaRow]]
  BY DEF IInv, TypeOK, DeltaRow
<1>2. \A g \in Handlers : Coherent(handler[g], delta[g])
  BY DEF IInv
<1>3. /\ handler' = [handler EXCEPT ![h] = s] /\ s \in HandlerState
      /\ delta' = [delta EXCEPT ![h] = d] /\ d \in [Rows -> DeltaRow]
      /\ Coherent(s, d)
  BY DEF Moves
<1> QED  BY <1>1, <1>2, <1>3

(* A step that leaves the tables alone.                                    *)
LEMMA TablesUnchanged ==
  ASSUME IInv, NEW h \in Handlers, NEW s, NEW d, Moves(h, s, d),
         UNCHANGED dbVars, locks' \in [Handlers -> SUBSET Lockable]
  PROVE  IInv'
<1>1. /\ handler' \in [Handlers -> HandlerState]
      /\ delta' \in [Handlers -> [Rows -> DeltaRow]]
      /\ \A g \in Handlers : Coherent(handler'[g], delta'[g])
  BY MovesPreserve
<1>2. UNCHANGED <<inventory, reservation, cart, wallet, ledger, voucher,
                  purchase, attempt, shelf, added>>
  BY DEF dbVars
<1>3. TypeOK'
  BY <1>1, <1>2 DEF IInv, TypeOK, DeltaRow
<1>4. CopiesConserved'
  BY <1>2 DEF IInv, CopiesConserved
<1>5. LedgerExplainsWallet'
  BY <1>2 DEF IInv, LedgerExplainsWallet, Discrepancy
<1> QED  BY <1>1, <1>3, <1>4, <1>5 DEF IInv

(* A statement that only reads.                                            *)
LEMMA ReadPreserves ==
  ASSUME IInv, NEW h \in Handlers, NEW s \in HandlerState,
         Coherent(s, delta[h]),
         handler' = [handler EXCEPT ![h] = s],
         UNCHANGED <<dbVars, delta, locks>>
  PROVE  IInv'
<1>1. /\ delta \in [Handlers -> [Rows -> DeltaRow]]
      /\ locks \in [Handlers -> SUBSET Lockable]
  BY DEF IInv, TypeOK, DeltaRow
<1>2. Moves(h, s, delta[h])
  BY <1>1 DEF Moves
<1> QED  BY <1>1, <1>2, TablesUnchanged

(* A transaction that is rolled back, or a request that ends.              *)
LEMMA RollbackPreserves ==
  ASSUME IInv, NEW h \in Handlers, NEW s \in HandlerState,
         Coherent(s, NoDelta),
         handler' = [handler EXCEPT ![h] = s],
         DiscardInventory(h), UNCHANGED dbVars
  PROVE  IInv'
<1>1. Moves(h, s, NoDelta)
  BY NoDeltaType DEF Moves, DiscardInventory
<1>2. locks' \in [Handlers -> SUBSET Lockable]
  BY DEF IInv, TypeOK, DiscardInventory
<1> QED  BY <1>1, <1>2, TablesUnchanged

(* A relative write of the stock.                                          *)
LEMMA UpdateInventoryPreserves ==
  ASSUME IInv, NEW h \in Handlers, NEW s \in HandlerState, NEW w \in Rows,
         NEW a \in Int, NEW r \in Int, NEW n \in Int, a + r + n = 0,
         UpdateInventory(h, w, a, r, n),
         handler' = [handler EXCEPT ![h] = s], UNCHANGED dbVars,
         Coherent(s, NoDelta), s.pc \in InTransaction,
         s.pc = "allocateInventory" => handler[h].pc = "allocateInventory" /\ r >= 0
  PROVE  IInv'
<1>1. /\ delta \in [Handlers -> [Rows -> DeltaRow]]
      /\ locks \in [Handlers -> SUBSET Lockable]
      /\ \A x \in Rows : delta[h][x].available + delta[h][x].reserved + delta[h][x].sold = 0
  BY DEF IInv, TypeOK, Coherent
<1>2. /\ delta[h] \in [Rows -> DeltaRow]
      /\ \A x \in Rows : delta[h][x].available + delta[h][x].reserved + delta[h][x].sold = 0
      /\ \A x \in Rows : delta[h][x].reserved \in Int
  BY <1>1 DEF DeltaRow
<1> DEFINE e == delta[h]
           row == [available |-> e[w].available + a, reserved |-> e[w].reserved + r,
                   sold |-> e[w].sold + n]
           d == [e EXCEPT ![w] = row]
<1>3. delta' = [delta EXCEPT ![h] = d]
  BY DEF UpdateInventory
<1>4. /\ d \in [Rows -> DeltaRow]
      /\ \A x \in Rows :
           /\ d[x].available + d[x].reserved + d[x].sold = 0
           /\ d[x].reserved = IF x = w THEN e[x].reserved + r ELSE e[x].reserved
  <2>1. e \in [Rows -> DeltaRow] /\ \A x \in Rows : e[x].available + e[x].reserved + e[x].sold = 0
    BY <1>2
  <2> HIDE DEF e
  <2>2. /\ e[w].available \in Int /\ e[w].reserved \in Int /\ e[w].sold \in Int
        /\ e[w].available + e[w].reserved + e[w].sold = 0
    BY <2>1 DEF DeltaRow
  <2>3. row \in DeltaRow
    BY <2>2 DEF DeltaRow
  <2>4. row.available + row.reserved + row.sold = 0 /\ row.reserved = e[w].reserved + r
    <3> DEFINE x == e[w].available  y == e[w].reserved  z == e[w].sold
    <3>1. x \in Int /\ y \in Int /\ z \in Int /\ x + y + z = 0
      BY <2>2
    <3> HIDE DEF x, y, z
    <3>2. (x + a) + (y + r) + (z + n) = 0
      BY <3>1
    <3> QED  BY <3>2 DEF x, y, z
  <2> HIDE DEF row
  <2> QED  BY <2>1, <2>3, <2>4
<1> HIDE DEF d
<1>5. Coherent(s, d)
  <2>1. ASSUME s.pc = "allocateInventory", NEW x \in Rows
        PROVE  d[x].reserved >= 0
    <3>1. delta[h][x].reserved >= 0
      BY <2>1 DEF IInv, Coherent
    <3> QED  BY <1>2, <1>4, <2>1, <3>1
  <2> QED  BY <1>4, <2>1 DEF Coherent
<1>6. Moves(h, s, d)
  BY <1>3, <1>4, <1>5 DEF Moves
<1>7. locks' \in [Handlers -> SUBSET Lockable]
  <2>1. {<<"inventory", w>>} \subseteq Lockable
    BY DEF Lockable
  <2>2. locks' = [locks EXCEPT ![h] = @ \cup {<<"inventory", w>>}]
    BY DEF UpdateInventory, Lock
  <2> QED  BY <1>1, <2>1, <2>2
<1> QED  BY <1>6, <1>7, TablesUnchanged

(* A commit makes balanced writes visible: available and reserved copies   *)
(* still add up to those on the shelf.                                     *)
LEMMA CommitConserves ==
  ASSUME IInv, NEW h \in Handlers, CommitInventory(h)
  PROVE  /\ inventory' \in [Rows -> InventoryRow]
         /\ shelf' \in [Rows -> Int]
         /\ locks' \in [Handlers -> SUBSET Lockable]
         /\ CopiesConserved'
<1>1. /\ inventory \in [Rows -> InventoryRow]
      /\ shelf \in [Rows -> Int]
      /\ delta[h] \in [Rows -> DeltaRow]
      /\ locks \in [Handlers -> SUBSET Lockable]
      /\ \A w \in Rows : delta[h][w].available + delta[h][w].reserved + delta[h][w].sold = 0
      /\ \A w \in Rows : inventory[w].available + inventory[w].reserved = shelf[w]
  BY DEF IInv, TypeOK, Coherent, CopiesConserved
<1>2. \A w \in Rows : /\ inventory[w].available \in Int /\ inventory[w].reserved \in Int
                      /\ delta[h][w].available \in Int /\ delta[h][w].reserved \in Int
                      /\ delta[h][w].sold \in Int
  BY <1>1 DEF InventoryRow, DeltaRow
<1>3. /\ inventory' = [w \in Rows |->
           [available |-> inventory[w].available + delta[h][w].available,
            reserved |-> inventory[w].reserved + delta[h][w].reserved]]
      /\ shelf' = [w \in Rows |-> shelf[w] - delta[h][w].sold]
      /\ locks' = [locks EXCEPT ![h] = {}]
  BY DEF CommitInventory, Available, Reserved
<1>4. inventory' \in [Rows -> InventoryRow]
  BY <1>2, <1>3 DEF InventoryRow
<1>5. shelf' \in [Rows -> Int]
  BY <1>1, <1>2, <1>3
<1>6. locks' \in [Handlers -> SUBSET Lockable]
  BY <1>1, <1>3
<1>7. CopiesConserved'
  <2> SUFFICES ASSUME NEW w \in Rows
               PROVE  inventory'[w].available + inventory'[w].reserved = shelf'[w]
    BY DEF CopiesConserved
  <2>1. /\ inventory'[w].available = inventory[w].available + delta[h][w].available
        /\ inventory'[w].reserved = inventory[w].reserved + delta[h][w].reserved
        /\ shelf'[w] = shelf[w] - delta[h][w].sold
    BY <1>3
  <2>2. /\ delta[h][w].available + delta[h][w].reserved + delta[h][w].sold = 0
        /\ inventory[w].available + inventory[w].reserved = shelf[w]
        /\ shelf[w] \in Int
    BY <1>1
  <2>3. /\ inventory[w].available \in Int /\ inventory[w].reserved \in Int
        /\ delta[h][w].available \in Int /\ delta[h][w].reserved \in Int
        /\ delta[h][w].sold \in Int
    BY <1>2
  <2> QED  BY <2>1, <2>2, <2>3
<1> QED  BY <1>4, <1>5, <1>6, <1>7

-----------------------------------------------------------------------------
(* The ledger.                                                             *)

(* A rounded amount is a whole number of cents, and not negative if the    *)
(* amount is not.                                                          *)
LEMMA ToCentsType ==
  ASSUME NEW amount \in Int
  PROVE  /\ ToCents(amount) \in Int
         /\ amount >= 0 => ToCents(amount) \in Nat
BY DEF ToCents

(* Rounding a balance and an amount apart loses a cent at most.            *)
LEMMA RoundedApart ==
  ASSUME NEW balance \in Int, NEW amount \in Int, amount > 0
  PROVE  /\ ToCents(Exact(balance) - amount) - (balance - ToCents(amount)) \in -1..1
         /\ ToCents(Exact(balance) + amount) - (balance + ToCents(amount)) \in -1..1
BY DEF ToCents, Exact

(* One more movement: the ledger still explains the wallet.                *)
LEMMA RecordMovementExplains ==
  ASSUME IInv, NEW c \in Clients \cup {NULL}, NEW type \in {"payment", "topUp"},
         NEW amount \in Int, NEW p \in Purchases \cup {NULL},
         NEW a \in Attempts \cup {NULL}, RecordMovement(c, type, amount, p, a)
  PROVE  /\ wallet' \in [Clients -> Int]
         /\ ledger' \in [Clients -> Seq(Movement)]
         /\ LedgerExplainsWallet'
<1> DEFINE next == ToCents(IF type = "payment" THEN Exact(wallet[c]) - amount
                           ELSE Exact(wallet[c]) + amount)
           m == [type |-> type, amount |-> ToCents(amount), balanceAfter |-> next,
                 purchaseId |-> p, gatewayReference |-> a]
<1>1. /\ wallet \in [Clients -> Int]
      /\ ledger \in [Clients -> Seq(Movement)]
      /\ LedgerExplainsWallet
  BY DEF IInv, TypeOK
<1>2. /\ amount > 0
      /\ wallet' = [wallet EXCEPT ![c] = next]
      /\ ledger' = [ledger EXCEPT ![c] = Append(@, m)]
  BY DEF RecordMovement
<1>3. CASE c \notin Clients
  <2>1. wallet' = wallet /\ ledger' = ledger
    BY <1>1, <1>2, <1>3
  <2> QED  BY <1>1, <2>1 DEF LedgerExplainsWallet, Discrepancy
<1>4. CASE c \in Clients
  <2>1. wallet[c] \in Int /\ next \in Int /\ ToCents(amount) \in Nat
    <3>1. wallet[c] \in Int
      BY <1>1, <1>4
    <3>2. Exact(wallet[c]) - amount \in Int /\ Exact(wallet[c]) + amount \in Int
      BY <3>1 DEF Exact
    <3>3. next \in Int
      BY <3>2, ToCentsType
    <3>4. ToCents(amount) \in Nat
      BY <1>2, ToCentsType
    <3> QED  BY <3>1, <3>3, <3>4
  <2>2. m \in Movement
    BY <2>1 DEF Movement
  <2>3. wallet' \in [Clients -> Int]
    BY <1>1, <1>2, <2>1
  <2>4. ledger' \in [Clients -> Seq(Movement)]
    <3>1. Append(ledger[c], m) \in Seq(Movement)
      BY <1>1, <1>4, <2>2
    <3> HIDE DEF m
    <3> QED  BY <1>1, <1>2, <3>1
  <2>5. ASSUME NEW d \in Clients
        PROVE  /\ wallet'[d] = IF ledger'[d] = <<>> THEN 0
                               ELSE ledger'[d][Len(ledger'[d])].balanceAfter
               /\ \A i \in DOMAIN ledger'[d] : Discrepancy(d, i)' \in -1..1
    <3>1. CASE d # c
      <4>1. wallet'[d] = wallet[d] /\ ledger'[d] = ledger[d]
        BY <1>1, <1>2, <3>1
      <4> QED  BY <1>1, <4>1 DEF LedgerExplainsWallet, Discrepancy
    <3>2. CASE d = c
      <4> DEFINE old == ledger[c]
                 before == IF old = <<>> THEN 0 ELSE old[Len(old)].balanceAfter
      <4>1. /\ ledger'[c] = Append(old, m)
            /\ wallet'[c] = next
            /\ old \in Seq(Movement)
            /\ wallet[c] = before
            /\ \A i \in DOMAIN old : Discrepancy(c, i) \in -1..1
        BY <1>1, <1>2, <1>4 DEF LedgerExplainsWallet
      <4>2. /\ Append(old, m) # <<>>
            /\ Len(Append(old, m)) = Len(old) + 1
            /\ \A i \in 1..Len(old) : Append(old, m)[i] = old[i]
            /\ Append(old, m)[Len(old) + 1] = m
            /\ DOMAIN Append(old, m) = 1..Len(old) + 1
            /\ DOMAIN old = 1..Len(old)
            /\ Len(old) \in Nat
            /\ old = <<>> <=> Len(old) = 0
        BY <2>2, <4>1
      <4>3. wallet'[c] = ledger'[c][Len(ledger'[c])].balanceAfter
        BY <4>1, <4>2
      <4>4. ASSUME NEW i \in 1..Len(old)
            PROVE  Discrepancy(c, i)' \in -1..1
        <5>1. ledger'[c][i] = ledger[c][i]
          BY <4>1, <4>2
        <5>2. i # 1 => ledger'[c][i - 1] = ledger[c][i - 1]
          BY <4>1, <4>2
        <5>3. Discrepancy(c, i)' = Discrepancy(c, i)
          BY <5>1, <5>2 DEF Discrepancy
        <5> QED  BY <4>1, <4>2, <5>3
      <4>5. PICK k \in Nat : k = Len(old) + 1
        BY <4>2
      <4>6. Discrepancy(c, k)' \in -1..1
        <5>1. /\ ledger'[c][k] = m
              /\ wallet[c] = IF k = 1 THEN 0 ELSE ledger'[c][k - 1].balanceAfter
          BY <4>1, <4>2, <4>5
        <5>2. Discrepancy(c, k)' =
                next - (IF type = "payment" THEN wallet[c] - ToCents(amount)
                        ELSE wallet[c] + ToCents(amount))
          <6>1. m.type = type /\ m.amount = ToCents(amount) /\ m.balanceAfter = next
            OBVIOUS
          <6> HIDE DEF m, next
          <6> QED  BY <5>1, <6>1 DEF Discrepancy
        <5>3. CASE type = "payment"
          BY <1>2, <2>1, <5>2, <5>3, RoundedApart
        <5>4. CASE type = "topUp"
          BY <1>2, <2>1, <5>2, <5>4, RoundedApart
        <5> QED  BY <5>3, <5>4
      <4>7. ASSUME NEW i \in DOMAIN ledger'[c]
            PROVE  Discrepancy(c, i)' \in -1..1
        <5>1. i \in 1..Len(old) \/ i = k
          BY <4>1, <4>2, <4>5
        <5> QED  BY <4>4, <4>6, <5>1
      <4>8. /\ wallet'[d] = IF ledger'[d] = <<>> THEN 0
                            ELSE ledger'[d][Len(ledger'[d])].balanceAfter
            /\ DOMAIN ledger'[d] = DOMAIN ledger'[c]
        BY <3>2, <4>1, <4>2, <4>3
      <4>9. \A i \in DOMAIN ledger'[d] : Discrepancy(d, i)' \in -1..1
        BY <3>2, <4>7, <4>8 DEF Discrepancy
      <4> QED  BY <4>8, <4>9
    <3> QED  BY <3>1, <3>2
  <2> QED  BY <2>3, <2>4, <2>5 DEF LedgerExplainsWallet
<1> QED  BY <1>3, <1>4

-----------------------------------------------------------------------------
(* The cart.                                                               *)

(* The types of what a handler remembers.                                  *)
LEMMA FieldTypes ==
  ASSUME IInv, NEW h \in Handlers
  PROVE  /\ handler[h] \in HandlerState
         /\ Coherent(handler[h], delta[h])
         /\ handler[h].pc \in PC
         /\ handler[h].actor \in Clients \cup {NULL}
         /\ handler[h].dto \in Dto
         /\ handler[h].want \in [Books -> Nat]
         /\ handler[h].need \in [Books -> Nat]
         /\ handler[h].todo \in SUBSET (ItemEntry \cup StockEntry)
         /\ handler[h].left \in SUBSET ItemEntry
         /\ handler[h].convert \in SUBSET Reservations
         /\ handler[h].queue \in SUBSET Reservations
         /\ handler[h].snapshot \in SUBSET ItemEntry
         /\ handler[h].attempt \in Attempts \cup {NULL}
         /\ handler[h].webhook \in AttemptStatus
         /\ handler[h].purchaseId \in Purchases \cup {NULL}
BY DEF IInv, TypeOK, HandlerState

(* A statement that writes a client's cart.                                *)
LEMMA WriteCartPreserves ==
  ASSUME IInv, NEW h \in Handlers, NEW row \in CartRow, NEW next \in HandlerState,
         Coherent(next, delta[h]), WriteCart(h, row, next),
         added' \in [Clients -> [Books -> Nat]]
  PROVE  IInv'
<1>1. /\ cart' = [cart EXCEPT ![handler[h].actor] = row]
      /\ handler' = [handler EXCEPT ![h] = next]
      /\ UNCHANGED <<inventory, reservation, wallet, ledger, voucher, purchase,
                     attempt, shelf, delta, locks>>
  BY DEF WriteCart
<1>2. Moves(h, next, delta[h])
  BY <1>1 DEF Moves, IInv, TypeOK
<1>3. /\ handler' \in [Handlers -> HandlerState]
      /\ delta' \in [Handlers -> [Rows -> DeltaRow]]
      /\ \A g \in Handlers : Coherent(handler'[g], delta'[g])
  BY <1>2, MovesPreserve
<1>4. cart' \in [Clients -> CartRow]
  BY <1>1 DEF IInv, TypeOK
<1>5. TypeOK'
  BY <1>1, <1>3, <1>4 DEF IInv, TypeOK
<1>6. CopiesConserved'
  BY <1>1 DEF IInv, CopiesConserved
<1>7. LedgerExplainsWallet'
  BY <1>1 DEF IInv, LedgerExplainsWallet, Discrepancy
<1> QED  BY <1>3, <1>5, <1>6, <1>7 DEF IInv

(* A request that starts: where it is, whose it is, what it is about.      *)
LEMMA RequestType ==
  ASSUME NEW pc \in PC, NEW c \in Clients \cup {NULL}, NEW want \in [Books -> Nat]
  PROVE  [IdleHandler EXCEPT !.pc = pc, !.actor = c, !.want = want] \in HandlerState
BY IdleHandlerType, SetFields

(* What cart handlers count is a set of stock rows.                        *)
LEMMA AvailableAcrossStoresType ==
  ASSUME IInv, NEW b \in Books
  PROVE  AvailableAcrossStores(b) \in SUBSET Counted
<1>1. inventory \in [Rows -> InventoryRow]
  BY DEF IInv, TypeOK
<1> QED  BY <1>1 DEF AvailableAcrossStores, Counted, InventoryRow, Rows

(* addItem, updateItem and removeItem start: they read.                    *)
LEMMA CartRequestPreserves ==
  ASSUME IInv, NEW h \in Handlers, CartRequest(h)
  PROVE  IInv'
<1>1. PICK c \in Clients, b \in Books :
        \/ \E quantity \in CartQuantities :
             StartAddItem(h, c, b, quantity) \/ StartUpdateItem(h, c, b, quantity)
        \/ StartRemoveItem(h, c, b)
  BY DEF CartRequest
<1>2. ASSUME NEW quantity \in CartQuantities, StartAddItem(h, c, b, quantity)
      PROVE  IInv'
  <2> DEFINE want == [NoBooks EXCEPT ![b] = quantity]
             s == [IdleHandler EXCEPT !.pc = "ensureActiveCart", !.actor = c, !.want = want,
                                      !.own = AvailableAcrossStores(b)]
  <2>1. want \in [Books -> Nat]
    BY CartQuantitiesAreNatural DEF NoBooks
  <2>2. "ensureActiveCart" \in PC
    BY DEF PC
  <2>3. s \in HandlerState
    <3> HIDE DEF want
    <3> QED  BY <2>1, <2>2, RequestType, SetFields, AvailableAcrossStoresType
  <2>4. Coherent(s, delta[h])
    BY <1>2, FieldTypes DEF Coherent, StartAddItem, MayStart, InTransaction, IdleHandler
  <2> QED  BY <1>2, <2>3, <2>4, ReadPreserves DEF StartAddItem
<1>3. ASSUME NEW quantity \in CartQuantities, StartUpdateItem(h, c, b, quantity)
      PROVE  IInv'
  <2> DEFINE want == [NoBooks EXCEPT ![b] = quantity]
             need == [NoBooks EXCEPT ![b] = cart[c].items[b]]
             s == [IdleHandler EXCEPT !.pc = "writeItem", !.actor = c, !.want = want,
                                      !.need = need]
  <2>1. /\ want \in [Books -> Nat]
        /\ want \in [Books -> 0..MaxCopies]
    BY <1>3, CartQuantitiesAreNatural, BoundsAreNaturals DEF NoBooks, StartUpdateItem
  <2>2. need \in [Books -> Nat]
    BY BoundsAreNaturals DEF NoBooks, IInv, TypeOK, CartRow
  <2>3. "writeItem" \in PC
    BY DEF PC
  <2>4. s \in HandlerState
    <3> HIDE DEF want, need
    <3> QED  BY <2>1, <2>2, <2>3, RequestType, SetFields
  <2>5. Coherent(s, delta[h])
    <3> HIDE DEF want, need
    <3> QED  BY <1>3, <2>1, FieldTypes
             DEF Coherent, StartUpdateItem, MayStart, InTransaction, IdleHandler
  <2> QED  BY <1>3, <2>4, <2>5, ReadPreserves DEF StartUpdateItem
<1>4. CASE StartRemoveItem(h, c, b)
  <2> DEFINE want == [NoBooks EXCEPT ![b] = 1]
             s == [IdleHandler EXCEPT !.pc = "removeItem", !.actor = c, !.want = want]
  <2>1. want \in [Books -> Nat]
    BY DEF NoBooks
  <2>2. "removeItem" \in PC
    BY DEF PC
  <2>3. s \in HandlerState
    <3> HIDE DEF want
    <3> QED  BY <2>1, <2>2, RequestType
  <2>4. Coherent(s, delta[h])
    BY <1>4, FieldTypes DEF Coherent, StartRemoveItem, MayStart, InTransaction, IdleHandler
  <2> QED  BY <1>4, <2>3, <2>4, ReadPreserves DEF StartRemoveItem
<1> QED  BY <1>1, <1>2, <1>3, <1>4

(* A handler that only goes on to another statement.                       *)
LEMMA GotoType ==
  ASSUME IInv, NEW h \in Handlers, NEW pc \in PC
  PROVE  [handler[h] EXCEPT !.pc = pc] \in HandlerState
BY FieldTypes, SetFields

(* Every statement of a cart's request.                                    *)
LEMMA CartStepPreserves ==
  ASSUME IInv, NEW h \in Handlers, CartStep(h)
  PROVE  IInv'
<1> DEFINE c == handler[h].actor
<1>1. CASE EnsureActiveCart(h)
  <2>1. PICK pc \in {"findItem", "emptyCart"} :
          handler' = [handler EXCEPT ![h] = [handler[h] EXCEPT !.pc = pc]]
    BY <1>1 DEF EnsureActiveCart, Goto
  <2>2. [handler[h] EXCEPT !.pc = pc] \in HandlerState
    BY <2>1, GotoType DEF PC
  <2>3. Coherent([handler[h] EXCEPT !.pc = pc], delta[h])
    BY <1>1, <2>1, FieldTypes DEF EnsureActiveCart, Coherent, InTransaction, HandlerState
  <2> QED  BY <1>1, <2>1, <2>2, <2>3, ReadPreserves DEF EnsureActiveCart
<1>2. CASE EmptyCart(h)
  <2> DEFINE row == [cart[c] EXCEPT !.items = NoBooks]
             s == [handler[h] EXCEPT !.pc = "activateCart"]
  <2>1. c \in Clients /\ cart[c] \in CartRow
    BY <1>2, FieldTypes DEF EmptyCart, Coherent, IInv, TypeOK
  <2>2. row \in CartRow
    BY <2>1, BoundsAreNaturals DEF CartRow, NoBooks
  <2>3. s \in HandlerState
    BY GotoType DEF PC
  <2>4. Coherent(s, delta[h])
    BY <1>2, FieldTypes DEF EmptyCart, Coherent, InTransaction, HandlerState
  <2> QED  BY <1>2, <2>2, <2>3, <2>4, WriteCartPreserves DEF EmptyCart, IInv, TypeOK
<1>3. CASE ActivateCart(h)
  <2> DEFINE row == [cart[c] EXCEPT !.status = "active"]
             s == [handler[h] EXCEPT !.pc = "findItem"]
  <2>1. c \in Clients /\ cart[c] \in CartRow
    BY <1>3, FieldTypes DEF ActivateCart, Coherent, IInv, TypeOK
  <2>2. row \in CartRow
    BY <2>1 DEF CartRow
  <2>3. s \in HandlerState
    BY GotoType DEF PC
  <2>4. Coherent(s, delta[h])
    BY <1>3, FieldTypes DEF ActivateCart, Coherent, InTransaction, HandlerState
  <2> QED  BY <1>3, <2>2, <2>3, <2>4, WriteCartPreserves DEF ActivateCart, IInv, TypeOK
<1>4. CASE FindItem(h)
  <2>1. PICK b \in Books :
          /\ handler[h].pc = "findItem"
          /\ handler' = [handler EXCEPT ![h] =
               IF cart[c].items[b] + handler[h].want[b] > MaxCopies
                    \/ cart[c].items[b] + handler[h].want[b] > CopiesIn(handler[h].own, b)
               THEN IdleHandler
               ELSE [@ EXCEPT !.pc = "writeItem", !.need[b] = cart[c].items[b],
                              !.want = [NoBooks EXCEPT ![b] = cart[c].items[b]
                                                              + handler[h].want[b]]]]
          /\ UNCHANGED <<dbVars, delta, locks>>
    BY <1>4 DEF FindItem
  <2> DEFINE existing == cart[c].items[b]
             nextQuantity == existing + handler[h].want[b]
             need == [handler[h].need EXCEPT ![b] = existing]
             want == [NoBooks EXCEPT ![b] = nextQuantity]
             s == [handler[h] EXCEPT !.pc = "writeItem", !.need = need, !.want = want]
  <2>2. c \in Clients /\ existing \in Nat /\ nextQuantity \in Nat
    <3>1. c \in Clients /\ handler[h].want[b] \in Nat
      BY <2>1, FieldTypes DEF Coherent
    <3>2. cart[c].items[b] \in 0..MaxCopies
      BY <2>1, <3>1 DEF IInv, TypeOK, CartRow
    <3> HIDE DEF c
    <3> QED  BY <3>1, <3>2, BoundsAreNaturals
  <2>3. need \in [Books -> Nat] /\ want \in [Books -> Nat]
    BY <2>2, FieldTypes DEF NoBooks
  <2>4. CASE nextQuantity > MaxCopies \/ nextQuantity > CopiesIn(handler[h].own, b)
    <3>1. handler' = [handler EXCEPT ![h] = IdleHandler]
      BY <2>1, <2>4
    <3>2. delta[h] = NoDelta
      BY <2>1, FieldTypes DEF Coherent, InTransaction
    <3> QED  BY <2>1, <3>1, <3>2, IdleHandlerType, ReadPreserves
  <2>5. CASE ~(nextQuantity > MaxCopies \/ nextQuantity > CopiesIn(handler[h].own, b))
    <3>1. handler' = [handler EXCEPT ![h] = s]
      BY <2>1, <2>5
    <3>2. want \in [Books -> 0..MaxCopies]
      BY <2>2, <2>5, BoundsAreNaturals DEF NoBooks
    <3>3. "writeItem" \in PC
      BY DEF PC
    <3> HIDE DEF need, want
    <3>4. s \in HandlerState
      BY <2>3, <3>3, FieldTypes, SetFields
    <3>5. Coherent(s, delta[h])
      BY <2>1, <2>2, <3>2, FieldTypes DEF Coherent, InTransaction, HandlerState
    <3> QED  BY <2>1, <3>1, <3>4, <3>5, ReadPreserves
  <2> QED  BY <2>4, <2>5
<1>5. CASE WriteItem(h)
  <2>1. PICK b \in Books :
          /\ handler[h].pc = "writeItem"
          /\ \/ /\ WriteCart(h, [cart[c] EXCEPT !.items[b] = handler[h].want[b]], IdleHandler)
                /\ added' = [added EXCEPT ![c][b] =
                     @ + (IF handler[h].want[b] > cart[c].items[b]
                          THEN handler[h].want[b] - cart[c].items[b] ELSE 0)]
             \/ WriteCart(h, cart[c], IdleHandler) /\ UNCHANGED added
    BY <1>5 DEF WriteItem
  <2> DEFINE items == [cart[c].items EXCEPT ![b] = handler[h].want[b]]
             more == IF handler[h].want[b] > cart[c].items[b]
                     THEN handler[h].want[b] - cart[c].items[b] ELSE 0
  <2>2. /\ c \in Clients /\ cart[c] \in CartRow
        /\ cart[c].items \in [Books -> 0..MaxCopies]
        /\ handler[h].want[b] \in 0..MaxCopies
        /\ added \in [Clients -> [Books -> Nat]]
    BY <2>1, FieldTypes DEF Coherent, IInv, TypeOK, CartRow
  <2>3. items \in [Books -> 0..MaxCopies]
    BY <2>2
  <2>4. [cart[c] EXCEPT !.items = items] \in CartRow
    <3> HIDE DEF items
    <3> QED  BY <2>2, <2>3 DEF CartRow
  <2>5. more \in Nat
    BY <2>2, BoundsAreNaturals
  <2>6. [added EXCEPT ![c][b] = @ + more] \in [Clients -> [Books -> Nat]]
    <3>1. [added[c] EXCEPT ![b] = added[c][b] + more] \in [Books -> Nat]
      <4> HIDE DEF more
      <4> QED  BY <2>2, <2>5
    <3> HIDE DEF more
    <3> QED  BY <2>2, <3>1
  <2>7. Coherent(IdleHandler, delta[h])
    BY <2>1, FieldTypes, IdleHandlerType DEF Coherent, InTransaction
  <2>8. CASE WriteCart(h, [cart[c] EXCEPT !.items = items], IdleHandler)
             /\ added' = [added EXCEPT ![c][b] = @ + more]
    BY <2>4, <2>6, <2>7, <2>8, IdleHandlerType, WriteCartPreserves
  <2>9. CASE WriteCart(h, cart[c], IdleHandler) /\ UNCHANGED added
    BY <2>2, <2>7, <2>9, IdleHandlerType, WriteCartPreserves
  <2> QED  BY <2>1, <2>8, <2>9
<1>6. CASE RemoveItem(h)
  <2>1. PICK b \in Books :
          /\ handler[h].pc = "removeItem"
          /\ WriteCart(h, [cart[c] EXCEPT !.items[b] = 0], IdleHandler)
          /\ UNCHANGED added
    BY <1>6 DEF RemoveItem
  <2> DEFINE items == [cart[c].items EXCEPT ![b] = 0]
  <2>2. c \in Clients /\ cart[c] \in CartRow /\ added \in [Clients -> [Books -> Nat]]
    BY <2>1, FieldTypes DEF Coherent, IInv, TypeOK
  <2>3. items \in [Books -> 0..MaxCopies]
    BY <2>2, BoundsAreNaturals DEF CartRow
  <2>4. [cart[c] EXCEPT !.items = items] \in CartRow
    <3> HIDE DEF items
    <3> QED  BY <2>2, <2>3 DEF CartRow
  <2>5. Coherent(IdleHandler, delta[h])
    BY <2>1, FieldTypes, IdleHandlerType DEF Coherent, InTransaction
  <2> QED  BY <2>1, <2>2, <2>4, <2>5, IdleHandlerType, WriteCartPreserves
<1> QED  BY <1>1, <1>2, <1>3, <1>4, <1>5, <1>6 DEF CartStep

-----------------------------------------------------------------------------
(* Reservations.                                                           *)

(* The parts of a row that was read.                                       *)
LEMMA EntryTypes ==
  /\ \A e \in ItemEntry \cup StockEntry :
       /\ e.row \in Rows /\ e.row[1] \in Books /\ e.cap \in Nat
       /\ e.res \in Reservations \cup {NULL}
  /\ \A e \in ItemEntry : e.res \in Reservations
BY DEF ItemEntry, StockEntry, Rows

(* The items of a reservation are rows of ReservationItem.                 *)
LEMMA ItemsOfType ==
  ASSUME IInv, NEW r \in Reservations
  PROVE  ItemsOf(r) \in SUBSET ItemEntry
<1>1. reservation[r].items \in [Rows -> Nat]
  BY DEF IInv, TypeOK, ReservationRow
<1> QED  BY <1>1 DEF ItemsOf, ItemEntry

(* Of some reservations, one has the smallest id.                          *)
LEMMA SmallestReservation ==
  ASSUME NEW S \in SUBSET Reservations, S # {}
  PROVE  \E r \in S : \A q \in S : r <= q
<1>1. S \subseteq Nat
  BY IdsAreOrdered
<1> DEFINE Less == {ss \in Nat \X Nat : ss[1] < ss[2]}
<1>2. IsWellFoundedOn(Less, Nat)
  BY NatLessThanWellFounded, Zenon DEF OpToRel
<1>3. PICK r \in S : \A q \in S : <<q, r>> \notin Less
  <2> HIDE DEF Less
  <2> QED  BY <1>1, <1>2, WFMin, Zenon
<1>4. ASSUME NEW q \in S
      PROVE  r <= q
  <2>1. q \in Nat /\ r \in Nat
    BY <1>1
  <2>2. <<q, r>> \notin Less
    BY <1>3
  <2>3. ~ (q < r)
    <3>1. <<q, r>> \in Nat \X Nat /\ <<q, r>>[1] = q /\ <<q, r>>[2] = r
      BY <2>1
    <3> QED  BY <2>2, <3>1, Zenon
  <2> QED  BY <2>1, <2>3
<1> QED  BY <1>4

(* The cron goes on with a reservation that exists, or ends.               *)
LEMMA NextExpiredType ==
  ASSUME NEW s \in HandlerState
  PROVE  /\ NextExpired(s) \in HandlerState
         /\ Coherent(NextExpired(s), NoDelta)
<1> DEFINE r == CHOOSE q \in s.queue : \A other \in s.queue : q <= other
           n == [s EXCEPT !.pc = "release", !.res = r, !.queue = s.queue \ {r},
                          !.todo = {e \in s.snapshot : e.res = r}]
<1>1. CASE s.queue = {}
  BY <1>1, IdleHandlerType DEF NextExpired
<1>2. CASE s.queue # {}
  <2>1. s.queue \in SUBSET Reservations /\ s.snapshot \in SUBSET ItemEntry
    BY DEF HandlerState
  <2>2. r \in Reservations
    BY <1>2, <2>1, SmallestReservation
  <2>3. "release" \in PC
    BY DEF PC
  <2>4. n \in HandlerState
    <3> HIDE DEF r
    <3> QED  BY <2>1, <2>2, <2>3, SetFields
  <2>5. n.pc = "release"
    BY DEF HandlerState
  <2>6. Coherent(n, NoDelta)
    BY <2>5 DEF Coherent, InTransaction, NoDelta
  <2>7. NextExpired(s) = n
    BY <1>2 DEF NextExpired
  <2> QED  BY <2>4, <2>6, <2>7
<1> QED  BY <1>1, <1>2

(* createReservation, cancelReservation and the cron start: they read.     *)
LEMMA ReservationRequestPreserves ==
  ASSUME IInv, NEW h \in Handlers, ReservationRequest(h)
  PROVE  IInv'
<1>1. ASSUME NEW c \in Clients, NEW want \in ReserveOrders, StartReservation(h, c, want)
      PROVE  IInv'
  <2> DEFINE s == [IdleHandler EXCEPT !.pc = "assertInventoryAvailability",
                                      !.actor = c, !.want = want, !.need = want]
  <2>1. want \in [Books -> Nat]
    BY BoundsAreNaturals
  <2>2. "assertInventoryAvailability" \in PC
    BY DEF PC
  <2>3. s \in HandlerState
    BY <2>1, <2>2, RequestType, SetFields
  <2>4. Coherent(s, delta[h])
    BY <1>1, FieldTypes DEF Coherent, StartReservation, MayStart, InTransaction, IdleHandler
  <2> QED  BY <1>1, <2>3, <2>4, ReadPreserves DEF StartReservation
<1>2. ASSUME NEW c \in Clients, NEW r \in Reservations, StartCancel(h, c, r)
      PROVE  IInv'
  <2> DEFINE s == [IdleHandler EXCEPT !.pc = "release", !.actor = c, !.res = r,
                                      !.todo = ItemsOf(r)]
  <2>1. ItemsOf(r) \in SUBSET (ItemEntry \cup StockEntry)
    BY ItemsOfType
  <2>2. "release" \in PC
    BY DEF PC
  <2>3. s \in HandlerState
    BY <2>1, <2>2, IdleHandlerType, SetFields
  <2>4. Coherent(s, delta[h])
    BY <1>2, FieldTypes DEF Coherent, StartCancel, MayStart, InTransaction, IdleHandler
  <2> QED  BY <1>2, <2>3, <2>4, ReadPreserves DEF StartCancel
<1>3. CASE StartExpireCron(h)
  <2> DEFINE snapshot == UNION {ItemsOf(r) : r \in ExpiredReservations}
             s == [IdleHandler EXCEPT !.queue = ExpiredReservations, !.snapshot = snapshot]
  <2>1. ExpiredReservations \in SUBSET Reservations
    BY DEF ExpiredReservations
  <2>2. snapshot \in SUBSET ItemEntry
    BY <2>1, ItemsOfType
  <2>3. s \in HandlerState
    <3> HIDE DEF snapshot
    <3> QED  BY <2>1, <2>2, IdleHandlerType, SetFields
  <2>4. handler' = [handler EXCEPT ![h] = NextExpired(s)]
    BY <1>3 DEF StartExpireCron
  <2>5. delta[h] = NoDelta
    BY <1>3, FieldTypes DEF StartExpireCron, MayStart, Coherent, InTransaction
  <2>6. UNCHANGED <<dbVars, delta, locks>>
    BY <1>3 DEF StartExpireCron
  <2> HIDE DEF s
  <2> QED  BY <2>3, <2>4, <2>5, <2>6, NextExpiredType, ReadPreserves
<1> QED  BY <1>1, <1>2, <1>3 DEF ReservationRequest

(* A request that fails: Reject, Throw and SkipExpired roll back.          *)
LEMMA RejectPreserves ==
  ASSUME IInv, NEW h \in Handlers, Reject(h)
  PROVE  IInv'
BY IdleHandlerType, RollbackPreserves DEF Reject

(* The cron rolls one reservation back and goes on with the next.          *)
LEMMA SkipExpiredPreserves ==
  ASSUME IInv, NEW h \in Handlers, SkipExpired(h)
  PROVE  IInv'
BY FieldTypes, NextExpiredType, RollbackPreserves DEF SkipExpired

(* A transaction that commits.                                             *)
LEMMA CommitPreserves ==
  ASSUME IInv, NEW h \in Handlers, NEW s \in HandlerState, Coherent(s, NoDelta),
         CommitInventory(h), handler' = [handler EXCEPT ![h] = s],
         reservation' \in [Reservations -> ReservationRow],
         cart' \in [Clients -> CartRow],
         wallet' \in [Clients -> Int],
         ledger' \in [Clients -> Seq(Movement)],
         voucher' \in [Vouchers -> VoucherRow],
         purchase' \in [Purchases -> PurchaseRow],
         UNCHANGED <<attempt, added>>,
         LedgerExplainsWallet'
  PROVE  IInv'
<1>1. Moves(h, s, NoDelta)
  BY NoDeltaType DEF Moves, CommitInventory
<1>2. /\ handler' \in [Handlers -> HandlerState]
      /\ delta' \in [Handlers -> [Rows -> DeltaRow]]
      /\ \A g \in Handlers : Coherent(handler'[g], delta'[g])
  BY <1>1, MovesPreserve
<1>3. /\ inventory' \in [Rows -> InventoryRow]
      /\ shelf' \in [Rows -> Int]
      /\ locks' \in [Handlers -> SUBSET Lockable]
      /\ CopiesConserved'
  BY CommitConserves
<1>4. TypeOK'
  BY <1>2, <1>3 DEF IInv, TypeOK
<1> QED  BY <1>2, <1>3, <1>4 DEF IInv

(* What one row of a loop gives is a natural number, and so is what is     *)
(* still missing after it.                                                 *)
LEMMA SmallerType ==
  ASSUME NEW m \in Nat, NEW n \in Nat
  PROVE  /\ Smaller(m, n) \in Nat
         /\ m - Smaller(m, n) \in Nat
         /\ n - Smaller(m, n) \in Nat
BY DEF Smaller

(* The rows of the stock that a handler reads because they have copies.    *)
LEMMA StockEntryType ==
  ASSUME IInv, NEW h \in Handlers, NEW w \in Rows
  PROVE  /\ Available(h, w) \in Int
         /\ Reserved(h, w) \in Int
         /\ Available(h, w) > 0 =>
              [res |-> NULL, row |-> w, cap |-> Available(h, w)] \in StockEntry
<1>1. inventory[w] \in InventoryRow /\ delta[h][w] \in DeltaRow
  BY DEF IInv, TypeOK
<1>2. Available(h, w) \in Int /\ Reserved(h, w) \in Int
  BY <1>1 DEF InventoryRow, DeltaRow, Available, Reserved
<1> QED  BY <1>2 DEF StockEntry

(* A reservation that is closed.                                           *)
LEMMA ClosePreserves ==
  ASSUME IInv, NEW h \in Handlers, NEW status \in {"cancelled", "expired"},
         NEW next \in HandlerState, Coherent(next, NoDelta), Close(h, status, next)
  PROVE  IInv'
<1> DEFINE r == handler[h].res
<1>1. /\ reservation \in [Reservations -> ReservationRow]
      /\ reservation' = [reservation EXCEPT ![r].status = status]
  BY DEF IInv, TypeOK, Close
<1>2. reservation' \in [Reservations -> ReservationRow]
  <2>1. \A row \in ReservationRow : [row EXCEPT !.status = status] \in ReservationRow
    BY DEF ReservationRow, ReservationStatus
  <2> QED  BY <1>1, <2>1
<1>3. UNCHANGED <<cart, wallet, ledger, voucher, purchase, attempt, added>>
  BY DEF Close
<1>4. /\ cart' \in [Clients -> CartRow]
      /\ wallet' \in [Clients -> Int]
      /\ ledger' \in [Clients -> Seq(Movement)]
      /\ voucher' \in [Vouchers -> VoucherRow]
      /\ purchase' \in [Purchases -> PurchaseRow]
  BY <1>3 DEF IInv, TypeOK
<1>5. LedgerExplainsWallet'
  BY <1>3 DEF IInv, LedgerExplainsWallet, Discrepancy
<1>6. CommitInventory(h) /\ handler' = [handler EXCEPT ![h] = next]
  BY DEF Close
<1> QED  BY <1>2, <1>3, <1>4, <1>5, <1>6, CommitPreserves

(* Every statement of a reservation, a cancellation and a tick of the cron.*)
LEMMA ReservationStepPreserves ==
  ASSUME IInv, NEW h \in Handlers, ReservationStep(h)
  PROVE  IInv'
<1>1. CASE AssertInventoryAvailability(h)
  <2>1. /\ handler[h].pc = "assertInventoryAvailability"
        /\ \/ handler' = [handler EXCEPT ![h] = [@ EXCEPT !.pc = "allocateInventory"]]
           \/ handler' = [handler EXCEPT ![h] = IdleHandler]
        /\ UNCHANGED <<dbVars, delta, locks>>
    BY <1>1 DEF AssertInventoryAvailability
  <2> DEFINE s == [handler[h] EXCEPT !.pc = "allocateInventory"]
  <2>2. delta[h] = NoDelta
    BY <2>1, FieldTypes DEF Coherent, InTransaction
  <2>3. s \in HandlerState
    BY GotoType DEF PC
  <2>4. Coherent(s, delta[h])
    BY <2>1, <2>2, FieldTypes DEF Coherent, InTransaction, HandlerState, NoDelta
  <2> QED  BY <2>1, <2>2, <2>3, <2>4, IdleHandlerType, ReadPreserves
<1>2. CASE ReadAllocation(h)
  <2>1. PICK b \in Books :
          /\ handler[h].pc = "allocateInventory"
          /\ handler' = [handler EXCEPT ![h].todo =
               {[res |-> NULL, row |-> w, cap |-> Available(h, w)] :
                  w \in {x \in {b} \X Stores : Available(h, x) > 0}}]
          /\ UNCHANGED <<dbVars, delta, locks>>
    BY <1>2 DEF ReadAllocation
  <2> DEFINE todo == {[res |-> NULL, row |-> w, cap |-> Available(h, w)] :
                        w \in {x \in {b} \X Stores : Available(h, x) > 0}}
             s == [handler[h] EXCEPT !.todo = todo]
  <2>2. todo \in SUBSET (ItemEntry \cup StockEntry)
    BY StockEntryType DEF Rows
  <2> HIDE DEF todo
  <2>3. s \in HandlerState
    BY <2>2, FieldTypes, SetFields
  <2>4. Coherent(s, delta[h])
    BY <2>1, FieldTypes DEF Coherent, InTransaction, HandlerState
  <2> QED  BY <2>1, <2>3, <2>4, ReadPreserves DEF todo
<1>3. CASE AllocateRow(h)
  <2>1. PICK e \in handler[h].todo :
          LET b == e.row[1]
              take == Smaller(handler[h].need[b], e.cap)
              remaining == handler[h].need[b] - take
          IN
          /\ handler[h].pc = "allocateInventory"
          /\ UpdateInventory(h, e.row, -take, take, 0)
          /\ handler' = [handler EXCEPT
               ![h].need[b] = remaining,
               ![h].todo = IF remaining = 0 THEN {} ELSE @ \ {e}]
          /\ UNCHANGED dbVars
    BY <1>3 DEF AllocateRow
  <2> DEFINE b == e.row[1]
             take == Smaller(handler[h].need[b], e.cap)
             remaining == handler[h].need[b] - take
             need == [handler[h].need EXCEPT ![b] = remaining]
             todo == IF remaining = 0 THEN {} ELSE handler[h].todo \ {e}
             s == [handler[h] EXCEPT !.need = need, !.todo = todo]
  <2>2. b \in Books /\ e.row \in Rows /\ take \in Nat /\ remaining \in Nat
    BY FieldTypes, EntryTypes, SmallerType
  <2>3. need \in [Books -> Nat] /\ todo \in SUBSET (ItemEntry \cup StockEntry)
    BY <2>2, FieldTypes
  <2>4. handler' = [handler EXCEPT ![h] = s]
    BY <2>1, FieldTypes DEF IInv, TypeOK, HandlerState
  <2>5. s \in HandlerState /\ s.pc = "allocateInventory" /\ s.actor = handler[h].actor
    <3> HIDE DEF need, todo
    <3>1. s \in HandlerState
      BY <2>3, FieldTypes, SetFields
    <3> QED  BY <2>1, <3>1, FieldTypes DEF HandlerState
  <2>6. Coherent(s, NoDelta)
    <3> HIDE DEF s
    <3> QED  BY <2>1, <2>5, FieldTypes DEF Coherent, InTransaction, NoDelta
  <2>7. /\ UpdateInventory(h, e.row, -take, take, 0) /\ UNCHANGED dbVars
        /\ handler[h].pc = "allocateInventory"
    BY <2>1
  <2> HIDE DEF take, s
  <2>8. /\ -take \in Int /\ take \in Int /\ 0 \in Int /\ -take + take + 0 = 0
        /\ take >= 0 /\ s.pc \in InTransaction
    BY <2>2, <2>5 DEF InTransaction
  <2> QED  BY <2>2, <2>4, <2>5, <2>6, <2>7, <2>8, UpdateInventoryPreserves
<1>4. CASE FailAllocation(h)
  BY <1>4, RejectPreserves DEF FailAllocation
<1>5. CASE CreateReservation(h)
  <2> DEFINE c == handler[h].actor
             row == [status |-> "active", client |-> c, due |-> FALSE,
                     madeAt |-> Len(ledger[c]),
                     items |-> [w \in Rows |-> delta[h][w].reserved]]
  <2>1. PICK r \in Reservations :
          /\ handler[h].pc = "allocateInventory"
          /\ reservation' = [reservation EXCEPT ![r] = row]
          /\ CommitInventory(h)
          /\ handler' = [handler EXCEPT ![h] = IdleHandler]
          /\ UNCHANGED <<cart, wallet, ledger, voucher, purchase, attempt, added>>
    BY <1>5 DEF CreateReservation
  <2>2. c \in Clients
    BY <2>1, FieldTypes DEF Coherent
  <2>3. \A w \in Rows : delta[h][w].reserved \in Nat
    BY <2>1, FieldTypes DEF Coherent, IInv, TypeOK, DeltaRow
  <2>4. Len(ledger[c]) \in Nat
    BY <2>2 DEF IInv, TypeOK
  <2>5. row \in ReservationRow
    BY <2>2, <2>3, <2>4 DEF ReservationRow, ReservationStatus
  <2>6. reservation' \in [Reservations -> ReservationRow]
    <3> HIDE DEF row
    <3> QED  BY <2>1, <2>5 DEF IInv, TypeOK
  <2>7. /\ cart' \in [Clients -> CartRow]
        /\ wallet' \in [Clients -> Int]
        /\ ledger' \in [Clients -> Seq(Movement)]
        /\ voucher' \in [Vouchers -> VoucherRow]
        /\ purchase' \in [Purchases -> PurchaseRow]
    BY <2>1 DEF IInv, TypeOK
  <2>8. LedgerExplainsWallet'
    BY <2>1 DEF IInv, LedgerExplainsWallet, Discrepancy
  <2> QED  BY <2>1, <2>6, <2>7, <2>8, IdleHandlerType, CommitPreserves
<1>6. CASE ReadRelease(h)
  <2>1. /\ handler[h].pc = "release"
        /\ handler' = [handler EXCEPT ![h] = [@ EXCEPT !.pc = "releaseRow"]]
        /\ UNCHANGED <<dbVars, delta, locks>>
    BY <1>6 DEF ReadRelease, Goto
  <2> DEFINE s == [handler[h] EXCEPT !.pc = "releaseRow"]
  <2>2. s \in HandlerState
    BY GotoType DEF PC
  <2>3. Coherent(s, delta[h])
    BY <2>1, FieldTypes DEF Coherent, InTransaction, HandlerState
  <2> QED  BY <2>1, <2>2, <2>3, ReadPreserves
<1>7. CASE ReleaseRow(h)
  <2>1. PICK e \in handler[h].todo :
          /\ UpdateInventory(h, e.row, e.cap, -e.cap, 0)
          /\ handler' = [handler EXCEPT ![h].pc = "release", ![h].todo = @ \ {e}]
          /\ UNCHANGED dbVars
    BY <1>7 DEF ReleaseRow
  <2> DEFINE s == [handler[h] EXCEPT !.pc = "release", !.todo = handler[h].todo \ {e}]
  <2>2. handler' = [handler EXCEPT ![h] = s]
    BY <2>1, FieldTypes DEF IInv, TypeOK, HandlerState
  <2>3. s \in HandlerState /\ s.pc = "release"
    <3>1. handler[h].todo \ {e} \in SUBSET (ItemEntry \cup StockEntry) /\ "release" \in PC
      BY FieldTypes DEF PC
    <3>2. s \in HandlerState
      BY <3>1, FieldTypes, SetFields
    <3> QED  BY <3>2, FieldTypes DEF HandlerState
  <2> HIDE DEF s
  <2>4. Coherent(s, NoDelta)
    BY <2>3 DEF Coherent, InTransaction, NoDelta
  <2>5. e.row \in Rows /\ e.cap \in Nat
    BY FieldTypes, EntryTypes
  <2>6. /\ e.cap \in Int /\ -e.cap \in Int /\ 0 \in Int /\ e.cap + -e.cap + 0 = 0
        /\ s.pc \in InTransaction
    BY <2>3, <2>5 DEF InTransaction
  <2> QED  BY <2>1, <2>2, <2>3, <2>4, <2>5, <2>6, UpdateInventoryPreserves
<1>8. CASE FinishCancel(h)
  <2>1. Close(h, "cancelled", IdleHandler)
    BY <1>8 DEF FinishCancel
  <2> QED  BY <2>1, IdleHandlerType, ClosePreserves
<1>9. CASE FailRelease(h)
  BY <1>9, RejectPreserves DEF FailRelease
<1>10. CASE FinishExpire(h)
  <2>1. Close(h, "expired", NextExpired(handler[h]))
    BY <1>10 DEF FinishExpire
  <2> QED  BY <2>1, FieldTypes, NextExpiredType, ClosePreserves
<1>11. CASE FailExpire(h)
  BY <1>11, SkipExpiredPreserves DEF FailExpire
<1> QED  BY <1>1, <1>2, <1>3, <1>4, <1>5, <1>6, <1>7, <1>8, <1>9, <1>10, <1>11
         DEF ReservationStep

-----------------------------------------------------------------------------
(* Purchases.                                                              *)

(* A purchase that throws ends, or leaves a webhook to mark its attempt.   *)
LEMMA FailedType ==
  ASSUME NEW s \in HandlerState
  PROVE  Failed(s) \in HandlerState /\ Coherent(Failed(s), NoDelta)
<1> DEFINE f == [IdleHandler EXCEPT !.pc = "fail", !.actor = s.actor,
                                    !.attempt = s.attempt, !.webhook = s.webhook]
<1>1. CASE s.attempt = NULL
  BY <1>1, IdleHandlerType DEF Failed
<1>2. CASE s.attempt # NULL
  <2>1. /\ s.actor \in Clients \cup {NULL} /\ s.attempt \in Attempts \cup {NULL}
        /\ s.webhook \in AttemptStatus /\ "fail" \in PC
    BY DEF HandlerState, PC
  <2>2. f \in HandlerState
    BY <2>1, IdleHandlerType, SetFields
  <2>3. f.pc = "fail"
    BY DEF IdleHandler
  <2>4. Failed(s) = f
    BY <1>2 DEF Failed
  <2> HIDE DEF f
  <2> QED  BY <2>2, <2>3, <2>4 DEF Coherent, InTransaction, NoDelta
<1> QED  BY <1>1, <1>2

(* A purchase that commits ends, or leaves a webhook to approve its attempt.*)
LEMMA CompletedType ==
  ASSUME NEW s \in HandlerState, NEW p \in Purchases
  PROVE  Completed(s, p) \in HandlerState /\ Coherent(Completed(s, p), NoDelta)
<1> DEFINE f == [IdleHandler EXCEPT !.pc = "approve", !.actor = s.actor,
                                    !.attempt = s.attempt, !.webhook = s.webhook,
                                    !.purchaseId = p]
<1>1. CASE s.attempt = NULL
  BY <1>1, IdleHandlerType DEF Completed
<1>2. CASE s.attempt # NULL
  <2>1. /\ s.actor \in Clients \cup {NULL} /\ s.attempt \in Attempts \cup {NULL}
        /\ s.webhook \in AttemptStatus /\ "approve" \in PC
    BY DEF HandlerState, PC
  <2>2. f \in HandlerState
    BY <2>1, IdleHandlerType, SetFields
  <2>3. f.pc = "approve"
    BY DEF IdleHandler
  <2>4. Completed(s, p) = f
    BY <1>2 DEF Completed
  <2> HIDE DEF f
  <2> QED  BY <2>2, <2>3, <2>4 DEF Coherent, InTransaction, NoDelta
<1> QED  BY <1>1, <1>2

(* A purchase that throws is rolled back.                                  *)
LEMMA ThrowPreserves ==
  ASSUME IInv, NEW h \in Handlers, Throw(h)
  PROVE  IInv'
BY FieldTypes, FailedType, RollbackPreserves DEF Throw

(* The reservation items a purchase may use are rows of ReservationItem.   *)
LEMMA UsableItemsType ==
  ASSUME IInv, NEW h \in Handlers
  PROVE  UsableItems(h) \in SUBSET ItemEntry
<1>1. \A r \in Reservations : reservation[r].items \in [Rows -> Nat]
  BY DEF IInv, TypeOK, ReservationRow
<1> QED  BY <1>1 DEF UsableItems, ItemEntry

(* createPurchase starts: it reads the cart.                               *)
LEMMA PurchaseRequestPreserves ==
  ASSUME IInv, NEW h \in Handlers, PurchaseRequest(h)
  PROVE  IInv'
<1>1. PICK c \in Clients, dto \in PurchaseDtos : StartPurchase(h, c, dto)
  BY DEF PurchaseRequest
<1> DEFINE s == [IdleHandler EXCEPT !.pc = "recheckCart", !.actor = c, !.dto = dto,
                                    !.want = cart[c].items]
<1>2. cart[c].items \in [Books -> 0..MaxCopies] /\ cart[c].items \in [Books -> Nat]
  BY BoundsAreNaturals DEF IInv, TypeOK, CartRow
<1>3. s \in HandlerState
  <2>1. "recheckCart" \in PC /\ dto \in Dto
    BY BodiesAreDtos DEF PC
  <2> QED  BY <1>2, <2>1, IdleHandlerType, SetFields
<1>4. Coherent(s, delta[h])
  BY <1>1, <1>2, FieldTypes DEF Coherent, StartPurchase, MayStart, InTransaction, IdleHandler
<1> QED  BY <1>1, <1>3, <1>4, ReadPreserves DEF StartPurchase

(* A handler goes on inside createPurchaseFromCartItems.                   *)
LEMMA GoOnBuying ==
  ASSUME IInv, NEW h \in Handlers, NEW s \in HandlerState,
         handler[h].pc \in {"recheckCart", "getReservedQuantities", "validateInventory",
                           "readReserved", "consumeReserved", "createRecord",
                           "readInventory", "decrementInventory"},
         s.pc \in {"getReservedQuantities", "validateInventory", "readReserved",
                  "consumeReserved", "createRecord", "readInventory",
                  "decrementInventory"},
         s.pc = "consumeReserved" => s.todo \subseteq ItemEntry,
         s.want = handler[h].want
  PROVE  Coherent(s, delta[h]) /\ Coherent(s, NoDelta)
BY FieldTypes DEF Coherent, InTransaction, NoDelta

(* The price of a cart is a whole number of cents.                         *)
LEMMA SubtotalType ==
  ASSUME NEW items \in [Books -> 0..MaxCopies]
  PROVE  Subtotal(items) \in Nat
<1>1. \A m \in Nat, n \in Nat : m * n \in Nat
  OBVIOUS
<1>2. ASSUME NEW b \in Books PROVE items[b] * UnitPrice[b] \in Nat
  BY <1>1, BoundsAreNaturals
<1> DEFINE f == [b \in Books |-> items[b] * UnitPrice[b]]
<1>3. f \in [Books -> Nat]
  BY <1>2
<1> HIDE DEF f
<1>4. SumFunction(f) \in Nat
  BY <1>3, IdsAreFinite, SumNat
<1> QED  BY <1>4 DEF Subtotal, f

(* The amount of a purchase is a whole number of ten-thousandths of a cent.*)
LEMMA TotalAmountType ==
  ASSUME NEW items \in [Books -> 0..MaxCopies], NEW v
  PROVE  TotalAmount(items, v) \in Nat
<1>1. Subtotal(items) \in Nat
  BY SubtotalType
<1>2. PercentLeft(v) \in Nat
  BY PercentagesAreNatural DEF PercentLeft
<1>3. 100 + TaxPercent \in Nat
  BY PercentagesAreNatural
<1> DEFINE x == Subtotal(items)  y == 100 + TaxPercent  z == PercentLeft(v)
<1>4. x \in Nat /\ y \in Nat /\ z \in Nat
  BY <1>1, <1>2, <1>3
<1> HIDE DEF x, y, z
<1>5. x * y \in Nat
  BY <1>4
<1>6. (x * y) * z \in Nat
  BY <1>4, <1>5
<1> QED  BY <1>6 DEF TotalAmount, x, y, z

(* The items a purchase leaves of a reservation are those it rewrote, and  *)
(* those it did not touch.                                                 *)
LEMMA LeftItemsType ==
  ASSUME IInv, NEW left \in SUBSET ItemEntry, NEW r \in Reservations
  PROVE  [w \in Rows |->
            IF \E e \in left : e.res = r /\ e.row = w
            THEN (CHOOSE e \in left : e.res = r /\ e.row = w).cap
            ELSE reservation[r].items[w]] \in [Rows -> Nat]
<1>1. reservation[r].items \in [Rows -> Nat]
  BY DEF IInv, TypeOK, ReservationRow
<1>2. ASSUME NEW w \in Rows, \E e \in left : e.res = r /\ e.row = w
      PROVE  (CHOOSE e \in left : e.res = r /\ e.row = w).cap \in Nat
  <2>1. (CHOOSE e \in left : e.res = r /\ e.row = w) \in left
    BY <1>2
  <2> QED  BY <2>1, EntryTypes
<1> QED  BY <1>1, <1>2

(* The commit of a purchase: the movement that pays for it, the copies it  *)
(* took and what it leaves of the reservations become visible together.    *)
LEMMA CommitPurchasePreserves ==
  ASSUME IInv, NEW h \in Handlers, CommitPurchase(h)
  PROVE  IInv'
<1> DEFINE c == handler[h].actor
           want == handler[h].want
           v == handler[h].dto.voucherCode
           left == handler[h].left
           amount == TotalAmount(want, v)
           itemsOf(r) == [w \in Rows |->
                            IF \E e \in left : e.res = r /\ e.row = w
                            THEN (CHOOSE e \in left : e.res = r /\ e.row = w).cap
                            ELSE reservation[r].items[w]]
           row == [client |-> c, items |-> want, total |-> ToCents(amount), voucher |-> v,
                   waitlisted |-> handler[h].waitlisted,
                   taken |-> [w \in Rows |-> delta[h][w].sold]]
           rest(r) == [reservation[r] EXCEPT
                         !.items = itemsOf(r),
                         !.status = IF r \in handler[h].convert THEN "converted" ELSE @]
<1>1. PICK p \in Purchases :
        /\ handler[h].pc = "decrementInventory"
        /\ RecordMovement(c, "payment", amount, p, handler[h].attempt)
        /\ purchase' = [purchase EXCEPT ![p] = row]
        /\ reservation' = [r \in Reservations |-> rest(r)]
        /\ cart' = BoughtCart(c)
        /\ voucher' = IF v = NULL THEN voucher ELSE [voucher EXCEPT ![v].isUsed = TRUE]
        /\ CommitInventory(h)
        /\ handler' = [handler EXCEPT ![h] = Completed(handler[h], p)]
        /\ UNCHANGED <<attempt, added>>
  BY DEF CommitPurchase
<1>2. /\ want \in [Books -> 0..MaxCopies] /\ want \in [Books -> Nat]
      /\ c \in Clients \cup {NULL}
      /\ v \in Vouchers \cup {NULL}
      /\ left \in SUBSET ItemEntry
      /\ handler[h].waitlisted \in BOOLEAN
      /\ handler[h].attempt \in Attempts \cup {NULL}
  BY <1>1, FieldTypes DEF Coherent, Dto, HandlerState
<1>3. amount \in Nat /\ ToCents(amount) \in Nat
  <2>1. amount \in Nat
    BY <1>2, TotalAmountType
  <2> HIDE DEF amount
  <2> QED  BY <2>1, ToCentsType
<1>4. /\ wallet' \in [Clients -> Int]
      /\ ledger' \in [Clients -> Seq(Movement)]
      /\ LedgerExplainsWallet'
  <2>1. RecordMovement(c, "payment", amount, p, handler[h].attempt)
    BY <1>1
  <2>2. /\ c \in Clients \cup {NULL} /\ "payment" \in {"payment", "topUp"}
        /\ amount \in Int /\ p \in Purchases \cup {NULL}
        /\ handler[h].attempt \in Attempts \cup {NULL}
    BY <1>2, <1>3
  <2> HIDE DEF amount, c
  <2> QED  BY <2>1, <2>2, RecordMovementExplains
<1>5. purchase' \in [Purchases -> PurchaseRow]
  <2>1. [w \in Rows |-> delta[h][w].sold] \in [Rows -> Int]
    BY DEF IInv, TypeOK, DeltaRow
  <2>2. row \in PurchaseRow
    <3> HIDE DEF amount
    <3> QED  BY <1>2, <1>3, <2>1 DEF PurchaseRow
  <2> HIDE DEF row
  <2> QED  BY <1>1, <2>2 DEF IInv, TypeOK
<1>6. reservation' \in [Reservations -> ReservationRow]
  <2>1. ASSUME NEW r \in Reservations PROVE rest(r) \in ReservationRow
    <3>1. itemsOf(r) \in [Rows -> Nat]
      BY <1>2, LeftItemsType
    <3>2. reservation[r] \in ReservationRow
      BY DEF IInv, TypeOK
    <3> HIDE DEF itemsOf
    <3> QED  BY <3>1, <3>2 DEF ReservationRow, ReservationStatus
  <2> HIDE DEF rest
  <2> QED  BY <1>1, <2>1
<1>7. cart' \in [Clients -> CartRow]
  <2>1. [status |-> "processed", items |-> NoBooks] \in CartRow
    BY BoundsAreNaturals DEF CartRow, NoBooks
  <2> QED  BY <1>1, <2>1 DEF BoughtCart, IInv, TypeOK
<1>8. voucher' \in [Vouchers -> VoucherRow]
  <2>1. voucher \in [Vouchers -> VoucherRow]
    BY DEF IInv, TypeOK
  <2>2. ASSUME NEW x \in Vouchers PROVE [voucher[x] EXCEPT !.isUsed = TRUE] \in VoucherRow
    BY <2>1 DEF VoucherRow
  <2>3. voucher' = IF v = NULL THEN voucher ELSE [voucher EXCEPT ![v].isUsed = TRUE]
    BY <1>1
  <2>4. v = NULL \/ v \in Vouchers
    BY <1>2
  <2> HIDE DEF v
  <2> QED  BY <2>1, <2>2, <2>3, <2>4
<1>9. Completed(handler[h], p) \in HandlerState /\ Coherent(Completed(handler[h], p), NoDelta)
  BY FieldTypes, CompletedType
<1> QED  BY <1>1, <1>4, <1>5, <1>6, <1>7, <1>8, <1>9, CommitPreserves

(* Every statement of a purchase.                                          *)
LEMMA PurchaseStepPreserves ==
  ASSUME IInv, NEW h \in Handlers, PurchaseStep(h)
  PROVE  IInv'
<1>1. CASE RecheckCart(h)
  <2>1. /\ handler[h].pc = "recheckCart"
        /\ \/ handler' = [handler EXCEPT ![h] = [@ EXCEPT !.pc = "getReservedQuantities"]]
           \/ handler' = [handler EXCEPT ![h] = Failed(@)]
        /\ UNCHANGED <<dbVars, delta, locks>>
    BY <1>1 DEF RecheckCart, Goto
  <2> DEFINE s == [handler[h] EXCEPT !.pc = "getReservedQuantities"]
  <2>2. delta[h] = NoDelta
    BY <2>1, FieldTypes DEF Coherent, InTransaction
  <2>3. s \in HandlerState
    BY GotoType DEF PC
  <2>4. s.pc = "getReservedQuantities" /\ s.want = handler[h].want
    BY FieldTypes DEF HandlerState
  <2> HIDE DEF s
  <2>5. Coherent(s, delta[h])
    BY <2>1, <2>3, <2>4, GoOnBuying
  <2>6. CASE handler' = [handler EXCEPT ![h] = s]
    BY <2>1, <2>3, <2>5, <2>6, ReadPreserves
  <2>7. CASE handler' = [handler EXCEPT ![h] = Failed(handler[h])]
    BY <2>1, <2>2, <2>7, FieldTypes, FailedType, ReadPreserves
  <2> QED  BY <2>1, <2>6, <2>7 DEF s
<1>2. CASE GetReservedQuantities(h)
  <2> DEFINE s == [handler[h] EXCEPT !.pc = "validateInventory", !.own = UsableItems(h)]
  <2>1. CASE Throw(h)
    BY <2>1, ThrowPreserves
  <2>2. CASE ~Throw(h)
    <3>1. /\ handler[h].pc = "getReservedQuantities"
          /\ handler' = [handler EXCEPT ![h].pc = "validateInventory",
                                        ![h].own = UsableItems(h)]
          /\ UNCHANGED <<dbVars, delta, locks>>
      BY <1>2, <2>2 DEF GetReservedQuantities
    <3>2. handler' = [handler EXCEPT ![h] = s]
      BY <3>1, FieldTypes DEF IInv, TypeOK, HandlerState
    <3>3. UsableItems(h) \in SUBSET Counted
      BY UsableItemsType DEF ItemEntry, Counted
    <3>4. s \in HandlerState
      <4>1. "validateInventory" \in PC
        BY DEF PC
      <4> QED  BY <3>3, <4>1, FieldTypes, SetFields
    <3>5. s.pc = "validateInventory" /\ s.want = handler[h].want
      BY FieldTypes DEF HandlerState
    <3> HIDE DEF s
    <3>6. Coherent(s, delta[h])
      BY <3>1, <3>4, <3>5, GoOnBuying
    <3> QED  BY <3>1, <3>2, <3>4, <3>6, ReadPreserves
  <2> QED  BY <2>1, <2>2
<1>3. CASE ValidateInventory(h)
  <2>1. CASE Throw(h)
    BY <2>1, ThrowPreserves
  <2>2. CASE ~Throw(h)
    <3>1. /\ handler[h].pc = "validateInventory"
          /\ \E waitlisted \in BOOLEAN :
               handler' = [handler EXCEPT ![h].pc = "readReserved",
                                          ![h].waitlisted = waitlisted,
                                          ![h].own = {}]
          /\ UNCHANGED <<dbVars, delta, locks>>
      BY <1>3, <2>2 DEF ValidateInventory
    <3>2. PICK waitlisted \in BOOLEAN :
            handler' = [handler EXCEPT ![h].pc = "readReserved",
                                       ![h].waitlisted = waitlisted, ![h].own = {}]
      BY <3>1
    <3> DEFINE s == [handler[h] EXCEPT !.pc = "readReserved", !.waitlisted = waitlisted,
                                       !.own = {}]
    <3>3. handler' = [handler EXCEPT ![h] = s]
      BY <3>2, FieldTypes DEF IInv, TypeOK, HandlerState
    <3>4. s \in HandlerState
      <4>1. "readReserved" \in PC /\ {} \in SUBSET Counted
        BY DEF PC
      <4> QED  BY <4>1, FieldTypes, SetFields
    <3>5. s.pc = "readReserved" /\ s.want = handler[h].want
      BY FieldTypes DEF HandlerState
    <3> HIDE DEF s
    <3>6. Coherent(s, delta[h])
      BY <3>1, <3>4, <3>5, GoOnBuying
    <3> QED  BY <3>1, <3>3, <3>4, <3>6, ReadPreserves
  <2> QED  BY <2>1, <2>2
<1>4. CASE ReadReserved(h)
  <2>1. /\ handler[h].pc = "readReserved"
        /\ handler' = [handler EXCEPT ![h].pc = "consumeReserved",
                                      ![h].need = handler[h].want,
                                      ![h].todo = UsableItems(h)]
        /\ UNCHANGED <<dbVars, delta, locks>>
    BY <1>4 DEF ReadReserved
  <2> DEFINE s == [handler[h] EXCEPT !.pc = "consumeReserved", !.need = handler[h].want,
                                     !.todo = UsableItems(h)]
  <2>2. handler' = [handler EXCEPT ![h] = s]
    BY <2>1, FieldTypes DEF IInv, TypeOK, HandlerState
  <2>3. UsableItems(h) \in SUBSET ItemEntry
    BY UsableItemsType
  <2>4. s \in HandlerState
    <3>1. "consumeReserved" \in PC /\ UsableItems(h) \in SUBSET (ItemEntry \cup StockEntry)
      BY <2>3 DEF PC
    <3> QED  BY <3>1, FieldTypes, SetFields
  <2>5. s.pc = "consumeReserved" /\ s.want = handler[h].want /\ s.todo = UsableItems(h)
    BY FieldTypes DEF HandlerState
  <2> HIDE DEF s
  <2>6. Coherent(s, delta[h])
    BY <2>1, <2>3, <2>4, <2>5, GoOnBuying
  <2> QED  BY <2>1, <2>2, <2>4, <2>6, ReadPreserves
<1>5. CASE ConsumeItem(h)
  <2>1. PICK e \in handler[h].todo :
          LET b == e.row[1]
              take == Smaller(handler[h].need[b], e.cap)
              remaining == handler[h].need[b] - take
          IN
          /\ handler[h].pc = "consumeReserved"
          /\ UpdateInventory(h, e.row, 0, -take, take)
          /\ handler' = [handler EXCEPT
               ![h].need[b] = remaining,
               ![h].left = @ \cup {[e EXCEPT !.cap = @ - take]},
               ![h].todo = {f \in @ \ {e} : f.row[1] = b => remaining > 0}]
          /\ UNCHANGED dbVars
    BY <1>5 DEF ConsumeItem
  <2> DEFINE b == e.row[1]
             take == Smaller(handler[h].need[b], e.cap)
             remaining == handler[h].need[b] - take
             need == [handler[h].need EXCEPT ![b] = remaining]
             left == handler[h].left \cup {[e EXCEPT !.cap = e.cap - take]}
             todo == {f \in handler[h].todo \ {e} : f.row[1] = b => remaining > 0}
             s == [handler[h] EXCEPT !.need = need, !.left = left, !.todo = todo]
  <2>2. handler[h].todo \subseteq ItemEntry /\ e \in ItemEntry
    BY <2>1, FieldTypes DEF Coherent
  <2>3. /\ b \in Books /\ e.row \in Rows /\ take \in Nat /\ remaining \in Nat
        /\ e.cap - take \in Nat
    BY <2>2, FieldTypes, EntryTypes, SmallerType
  <2>4. [e EXCEPT !.cap = e.cap - take] \in ItemEntry
    <3> DEFINE cap == e.cap - take
    <3>1. cap \in Nat
      BY <2>3
    <3> HIDE DEF cap
    <3>2. [e EXCEPT !.cap = cap] \in ItemEntry
      BY <2>2, <3>1 DEF ItemEntry
    <3> QED  BY <3>2 DEF cap
  <2>5. /\ need \in [Books -> Nat] /\ left \in SUBSET ItemEntry
        /\ todo \in SUBSET ItemEntry /\ todo \in SUBSET (ItemEntry \cup StockEntry)
    BY <2>2, <2>3, <2>4, FieldTypes
  <2>6. handler' = [handler EXCEPT ![h] = s]
    BY <2>1, FieldTypes DEF IInv, TypeOK, HandlerState
  <2>7. /\ s \in HandlerState /\ s.pc = "consumeReserved" /\ s.want = handler[h].want
        /\ s.todo \subseteq ItemEntry
    <3> HIDE DEF need, left, todo
    <3>1. s \in HandlerState
      BY <2>5, FieldTypes, SetFields
    <3> QED  BY <2>1, <2>5, <3>1, FieldTypes DEF HandlerState
  <2> HIDE DEF s
  <2>8. Coherent(s, NoDelta)
    BY <2>1, <2>7, GoOnBuying
  <2>9. UpdateInventory(h, e.row, 0, -take, take) /\ UNCHANGED dbVars
    BY <2>1
  <2> HIDE DEF take
  <2>10. /\ 0 \in Int /\ -take \in Int /\ take \in Int /\ 0 + -take + take = 0
         /\ s.pc \in InTransaction /\ s.pc # "allocateInventory"
    BY <2>3, <2>7 DEF InTransaction
  <2> QED  BY <2>3, <2>6, <2>7, <2>8, <2>9, <2>10, UpdateInventoryPreserves
<1>6. CASE RewriteItems(h)
  <2> DEFINE left == handler[h].left
             s == [handler[h] EXCEPT !.pc = "createRecord", !.convert = Emptied(left)]
  <2>1. CASE Throw(h)
    BY <2>1, ThrowPreserves
  <2>2. CASE ~Throw(h)
    <3>1. /\ handler[h].pc = "consumeReserved"
          /\ Lock(h, RewriteLocks(left))
          /\ handler' = [handler EXCEPT ![h].pc = "createRecord",
                                        ![h].convert = Emptied(left)]
          /\ UNCHANGED <<dbVars, delta>>
      BY <1>6, <2>2 DEF RewriteItems
    <3>2. handler' = [handler EXCEPT ![h] = s]
      BY <3>1, FieldTypes DEF IInv, TypeOK, HandlerState
    <3>3. left \in SUBSET ItemEntry
      BY FieldTypes
    <3>4. Emptied(left) \in SUBSET Reservations
      BY <3>3, EntryTypes DEF Emptied
    <3>5. RewriteLocks(left) \in SUBSET Lockable
      BY <3>3, <3>4, EntryTypes DEF RewriteLocks, Lockable
    <3> HIDE DEF left
    <3>6. s \in HandlerState
      <4>1. "createRecord" \in PC
        BY DEF PC
      <4> QED  BY <3>4, <4>1, FieldTypes, SetFields
    <3>7. s.pc = "createRecord" /\ s.want = handler[h].want
      BY FieldTypes DEF HandlerState
    <3> HIDE DEF s
    <3>8. Coherent(s, delta[h])
      BY <3>1, <3>6, <3>7, GoOnBuying
    <3>9. delta \in [Handlers -> [Rows -> DeltaRow]] /\ locks \in [Handlers -> SUBSET Lockable]
      BY DEF IInv, TypeOK
    <3>10. Moves(h, s, delta[h])
      BY <3>1, <3>2, <3>6, <3>8, <3>9 DEF Moves
    <3>11. locks' \in [Handlers -> SUBSET Lockable]
      BY <3>1, <3>5, <3>9 DEF Lock
    <3> QED  BY <3>1, <3>10, <3>11, TablesUnchanged
  <2> QED  BY <2>1, <2>2
<1>7. CASE CreateRecord(h)
  <2>1. CASE Throw(h)
    BY <2>1, ThrowPreserves
  <2>2. CASE ~Throw(h)
    <3> DEFINE s == [handler[h] EXCEPT !.pc = "readInventory"]
    <3>1. /\ handler[h].pc = "createRecord"
          /\ handler' = [handler EXCEPT ![h] = s]
          /\ UNCHANGED <<dbVars, delta, locks>>
      BY <1>7, <2>2 DEF CreateRecord, Goto
    <3>2. s \in HandlerState
      BY GotoType DEF PC
    <3>3. s.pc = "readInventory" /\ s.want = handler[h].want
      BY FieldTypes DEF HandlerState
    <3> HIDE DEF s
    <3>4. Coherent(s, delta[h])
      BY <3>1, <3>2, <3>3, GoOnBuying
    <3> QED  BY <3>1, <3>2, <3>4, ReadPreserves
  <2> QED  BY <2>1, <2>2
<1>8. CASE ReadInventory(h)
  <2> DEFINE todo == {[res |-> NULL, row |-> w, cap |-> Available(h, w)] :
                        w \in StockRows(h, handler[h].need)}
             s == [handler[h] EXCEPT !.pc = "decrementInventory", !.todo = todo]
  <2>1. /\ handler[h].pc = "readInventory"
        /\ handler' = [handler EXCEPT ![h].pc = "decrementInventory", ![h].todo = todo]
        /\ UNCHANGED <<dbVars, delta, locks>>
    BY <1>8 DEF ReadInventory
  <2>2. todo \in SUBSET (ItemEntry \cup StockEntry)
    BY StockEntryType DEF StockRows
  <2> HIDE DEF todo
  <2>3. handler' = [handler EXCEPT ![h] = s]
    BY <2>1, FieldTypes DEF IInv, TypeOK, HandlerState
  <2>4. s \in HandlerState
    <3>1. "decrementInventory" \in PC
      BY DEF PC
    <3> QED  BY <2>2, <3>1, FieldTypes, SetFields
  <2>5. s.pc = "decrementInventory" /\ s.want = handler[h].want
    BY FieldTypes DEF HandlerState
  <2> HIDE DEF s
  <2>6. Coherent(s, delta[h])
    BY <2>1, <2>4, <2>5, GoOnBuying
  <2> QED  BY <2>1, <2>3, <2>4, <2>6, ReadPreserves
<1>9. CASE DecrementInventory(h)
  <2>1. PICK e \in handler[h].todo :
          LET b == e.row[1]
              take == Smaller(handler[h].need[b], e.cap)
              remaining == handler[h].need[b] - take
          IN
          /\ handler[h].pc = "decrementInventory"
          /\ UpdateInventory(h, e.row, -take, 0, take)
          /\ handler' = [handler EXCEPT
               ![h].need[b] = remaining,
               ![h].todo = {f \in @ \ {e} : f.row[1] = b => remaining > 0}]
          /\ UNCHANGED dbVars
    BY <1>9 DEF DecrementInventory
  <2> DEFINE b == e.row[1]
             take == Smaller(handler[h].need[b], e.cap)
             remaining == handler[h].need[b] - take
             need == [handler[h].need EXCEPT ![b] = remaining]
             todo == {f \in handler[h].todo \ {e} : f.row[1] = b => remaining > 0}
             s == [handler[h] EXCEPT !.need = need, !.todo = todo]
  <2>2. b \in Books /\ e.row \in Rows /\ take \in Nat /\ remaining \in Nat
    BY FieldTypes, EntryTypes, SmallerType
  <2>3. need \in [Books -> Nat] /\ todo \in SUBSET (ItemEntry \cup StockEntry)
    BY <2>2, FieldTypes
  <2>4. handler' = [handler EXCEPT ![h] = s]
    BY <2>1, FieldTypes DEF IInv, TypeOK, HandlerState
  <2>5. s \in HandlerState /\ s.pc = "decrementInventory" /\ s.want = handler[h].want
    <3> HIDE DEF need, todo
    <3>1. s \in HandlerState
      BY <2>3, FieldTypes, SetFields
    <3> QED  BY <2>1, <3>1, FieldTypes DEF HandlerState
  <2> HIDE DEF s
  <2>6. Coherent(s, NoDelta)
    BY <2>1, <2>5, GoOnBuying
  <2>7. UpdateInventory(h, e.row, -take, 0, take) /\ UNCHANGED dbVars
    BY <2>1
  <2> HIDE DEF take
  <2>8. /\ 0 \in Int /\ -take \in Int /\ take \in Int /\ -take + 0 + take = 0
        /\ s.pc \in InTransaction /\ s.pc # "allocateInventory"
    BY <2>2, <2>5 DEF InTransaction
  <2> QED  BY <2>2, <2>4, <2>5, <2>6, <2>7, <2>8, UpdateInventoryPreserves
<1>10. CASE FailShipment(h)
  BY <1>10, ThrowPreserves DEF FailShipment
<1>11. CASE CommitPurchase(h)
  BY <1>11, CommitPurchasePreserves
<1> QED  BY <1>1, <1>2, <1>3, <1>4, <1>5, <1>6, <1>7, <1>8, <1>9, <1>10, <1>11
         DEF PurchaseStep

-----------------------------------------------------------------------------
(* Payments.                                                               *)

(* A step that changes payment attempts and one handler, and nothing else. *)
LEMMA AttemptsPreserve ==
  ASSUME IInv, NEW h \in Handlers, NEW s \in HandlerState, Coherent(s, delta[h]),
         handler' = [handler EXCEPT ![h] = s],
         attempt' \in [Attempts -> AttemptRow],
         UNCHANGED <<inventory, reservation, cart, wallet, ledger, voucher,
                     purchase, shelf, added, delta, locks>>
  PROVE  IInv'
<1>1. Moves(h, s, delta[h])
  BY DEF Moves, IInv, TypeOK
<1>2. /\ handler' \in [Handlers -> HandlerState]
      /\ delta' \in [Handlers -> [Rows -> DeltaRow]]
      /\ \A g \in Handlers : Coherent(handler'[g], delta'[g])
  BY <1>1, MovesPreserve
<1>3. TypeOK'
  BY <1>2 DEF IInv, TypeOK
<1>4. CopiesConserved'
  BY DEF IInv, CopiesConserved
<1>5. LedgerExplainsWallet'
  BY DEF IInv, LedgerExplainsWallet, Discrepancy
<1> QED  BY <1>2, <1>3, <1>4, <1>5 DEF IInv

(* The write of the handler's own attempt, if it has one.                  *)
LEMMA WriteAttemptPreserves ==
  ASSUME IInv, NEW h \in Handlers, NEW row, NEW s \in HandlerState,
         Coherent(s, delta[h]), WriteAttempt(h, row, s),
         handler[h].attempt \in Attempts => row \in AttemptRow
  PROVE  IInv'
<1>1. /\ attempt \in [Attempts -> AttemptRow]
      /\ attempt' = [attempt EXCEPT ![handler[h].attempt] = row]
  BY DEF IInv, TypeOK, WriteAttempt
<1>2. attempt' \in [Attempts -> AttemptRow]
  BY <1>1
<1> QED  BY <1>2, AttemptsPreserve DEF WriteAttempt

(* The amount a client is asked for is a whole number of cents.            *)
LEMMA PaymentAmountType ==
  ASSUME NEW items \in [Books -> 0..MaxCopies], NEW v
  PROVE  PaymentAmount(items, v) \in Int
<1> DEFINE t == TotalAmount(items, NULL)  x == ToCents(t)  y == PercentLeft(v)
<1>1. t \in Nat
  BY TotalAmountType
<1>2. x \in Int
  <2> HIDE DEF t
  <2> QED  BY <1>1, ToCentsType
<1>3. y \in Int
  BY PercentagesAreNatural DEF PercentLeft
<1> HIDE DEF x, y
<1>4. (x * 100) * y \in Int
  <2>1. x * 100 \in Int
    BY <1>2
  <2> DEFINE n == x * 100
  <2>2. n \in Int
    BY <2>1
  <2> HIDE DEF n
  <2>3. n * y \in Int
    BY <1>3, <2>2
  <2> QED  BY <2>3 DEF n
<1>5. ToCents((x * 100) * y) \in Int
  <2> DEFINE m == (x * 100) * y
  <2>1. m \in Int
    BY <1>4
  <2> HIDE DEF m
  <2>2. ToCents(m) \in Int
    BY <2>1, ToCentsType
  <2> QED  BY <2>2 DEF m
<1> QED  BY <1>5 DEF PaymentAmount, x, y, t

(* initiatePayment and the receipt of a webhook.                           *)
LEMMA PaymentRequestPreserves ==
  ASSUME IInv, NEW h \in Handlers, PaymentRequest(h)
  PROVE  IInv'
<1>1. ASSUME NEW c \in Clients, NEW dto \in PurchaseDtos, InitiatePayment(h, c, dto)
      PROVE  IInv'
  <2> DEFINE row == [status |-> "pending", client |-> c, items |-> cart[c].items,
                     dto |-> [dto EXCEPT !.pickupStoreId =
                                IF dto.deliveryMode = "storePickup" THEN @ ELSE NULL],
                     amount |-> PaymentAmount(cart[c].items, dto.voucherCode),
                     referenced |-> FALSE, purchaseId |-> NULL]
  <2>1. PICK a \in Attempts :
          /\ MayStart(h, c)
          /\ attempt' = [attempt EXCEPT ![a] = row]
          /\ handler' = [handler EXCEPT ![h] =
               [IdleHandler EXCEPT !.pc = "createCheckoutSession", !.actor = c,
                                   !.attempt = a]]
          /\ UNCHANGED <<inventory, reservation, cart, wallet, ledger, voucher,
                         purchase, shelf, added, delta, locks>>
    BY <1>1 DEF InitiatePayment
  <2> DEFINE s == [IdleHandler EXCEPT !.pc = "createCheckoutSession", !.actor = c,
                                      !.attempt = a]
  <2>2. cart[c].items \in [Books -> 0..MaxCopies]
    BY DEF IInv, TypeOK, CartRow
  <2>3. PaymentAmount(cart[c].items, dto.voucherCode) \in Int
    BY <2>2, PaymentAmountType
  <2>4. [dto EXCEPT !.pickupStoreId =
           IF dto.deliveryMode = "storePickup" THEN @ ELSE NULL] \in Dto
    BY BodiesAreDtos DEF Dto
  <2>5. row \in AttemptRow
    BY <2>2, <2>3, <2>4 DEF AttemptRow, AttemptStatus
  <2>6. attempt' \in [Attempts -> AttemptRow]
    <3> HIDE DEF row
    <3> QED  BY <2>1, <2>5 DEF IInv, TypeOK
  <2>7. s \in HandlerState /\ s.pc = "createCheckoutSession"
    <3>1. "createCheckoutSession" \in PC
      BY DEF PC
    <3> QED  BY <3>1, IdleHandlerType, SetFields DEF IdleHandler
  <2>8. delta[h] = NoDelta
    BY <2>1, FieldTypes DEF MayStart, Coherent, InTransaction
  <2> HIDE DEF s
  <2>9. Coherent(s, delta[h])
    BY <2>7, <2>8 DEF Coherent, InTransaction, NoDelta
  <2> QED  BY <2>1, <2>6, <2>7, <2>9, AttemptsPreserve DEF s
<1>2. ASSUME NEW a \in Attempts, NEW status \in WebhookStatuses,
             ReceiveWebhook(h, a, status)
      PROVE  IInv'
  <2> DEFINE pc == IF status = "approved" THEN "claim" ELSE "overwrite"
             s == [IdleHandler EXCEPT !.pc = pc, !.actor = attempt[a].client,
                                      !.attempt = a, !.webhook = status]
  <2>1. /\ pc \in PC
        /\ attempt[a].client \in Clients \cup {NULL}
        /\ status \in AttemptStatus
    BY WebhookStatusesAreStatuses DEF PC, IInv, TypeOK, AttemptRow
  <2>2. s \in HandlerState
    <3> HIDE DEF pc
    <3> QED  BY <2>1, IdleHandlerType, SetFields
  <2>3. s.pc \in {"claim", "overwrite"} /\ s.attempt = a
    BY DEF IdleHandler
  <2>4. delta[h] = NoDelta
    BY <1>2, FieldTypes DEF ReceiveWebhook, Coherent, InTransaction
  <2>5. handler' = [handler EXCEPT ![h] = s] /\ UNCHANGED <<dbVars, delta, locks>>
    BY <1>2 DEF ReceiveWebhook
  <2> HIDE DEF s
  <2>6. Coherent(s, delta[h])
    BY <2>3, <2>4 DEF Coherent, InTransaction, NoDelta
  <2> QED  BY <2>2, <2>5, <2>6, ReadPreserves
<1> QED  BY <1>1, <1>2 DEF PaymentRequest

(* Every statement of a payment.                                           *)
LEMMA PaymentStepPreserves ==
  ASSUME IInv, NEW h \in Handlers, PaymentStep(h)
  PROVE  IInv'
<1> DEFINE a == handler[h].attempt
<1>1. a \in Attempts => attempt[a] \in AttemptRow
  BY DEF IInv, TypeOK
<1>2. \A x \in AttemptRow, status \in AttemptStatus : [x EXCEPT !.status = status] \in AttemptRow
  BY DEF AttemptRow
<1>3. handler[h].pc \notin InTransaction => Coherent(IdleHandler, delta[h])
  BY FieldTypes, IdleHandlerType DEF Coherent
<1>4. CASE StoreReference(h)
  <2>1. a \in Attempts => [attempt[a] EXCEPT !.referenced = TRUE] \in AttemptRow
    BY <1>1 DEF AttemptRow
  <2>2. Coherent(IdleHandler, delta[h])
    BY <1>3, <1>4 DEF StoreReference, InTransaction
  <2> QED  BY <1>4, <2>1, <2>2, IdleHandlerType, WriteAttemptPreserves DEF StoreReference
<1>5. CASE FailSession(h)
  <2>1. a \in Attempts => [attempt[a] EXCEPT !.status = "failed"] \in AttemptRow
    BY <1>1, <1>2 DEF AttemptStatus
  <2>2. Coherent(IdleHandler, delta[h])
    BY <1>3, <1>5 DEF FailSession, InTransaction
  <2> QED  BY <1>5, <2>1, <2>2, IdleHandlerType, WriteAttemptPreserves DEF FailSession
<1>6. CASE OverwriteStatus(h)
  <2>1. MapWebhookStatus(handler[h].webhook) \in AttemptStatus
    BY DEF MapWebhookStatus, AttemptStatus
  <2>2. a \in Attempts => [attempt[a] EXCEPT
          !.status = MapWebhookStatus(handler[h].webhook)] \in AttemptRow
    BY <1>1, <1>2, <2>1
  <2>3. Coherent(IdleHandler, delta[h])
    BY <1>3, <1>6 DEF OverwriteStatus, InTransaction
  <2> QED  BY <1>6, <2>2, <2>3, IdleHandlerType, WriteAttemptPreserves DEF OverwriteStatus
<1>7. CASE Claim(h)
  <2> DEFINE s == [handler[h] EXCEPT !.pc = "recheckCart", !.dto = attempt[a].dto,
                                     !.want = attempt[a].items]
  <2>1. /\ handler[h].pc = "claim"
        /\ WriteAttempt(h, [attempt[a] EXCEPT !.status = "processing"], s)
    BY <1>7 DEF Claim
  <2>2. a \in Attempts
    BY <2>1, FieldTypes DEF Coherent
  <2>3. /\ attempt[a].dto \in Dto
        /\ attempt[a].items \in [Books -> 0..MaxCopies]
        /\ attempt[a].items \in [Books -> Nat]
    BY <1>1, <2>2, BoundsAreNaturals DEF AttemptRow
  <2>4. s \in HandlerState /\ s.pc = "recheckCart" /\ s.want = attempt[a].items
    <3>1. "recheckCart" \in PC
      BY DEF PC
    <3>2. s \in HandlerState
      BY <2>3, <3>1, FieldTypes, SetFields
    <3> QED  BY <3>2, FieldTypes DEF HandlerState
  <2>5. delta[h] = NoDelta
    BY <2>1, FieldTypes DEF Coherent, InTransaction
  <2>6. [attempt[a] EXCEPT !.status = "processing"] \in AttemptRow
    BY <1>1, <1>2, <2>2 DEF AttemptStatus
  <2> HIDE DEF s
  <2>7. Coherent(s, delta[h])
    BY <2>3, <2>4, <2>5 DEF Coherent, InTransaction, NoDelta
  <2> QED  BY <2>1, <2>4, <2>6, <2>7, WriteAttemptPreserves
<1>8. CASE LoseClaim(h)
  <2>1. Coherent(IdleHandler, delta[h])
    BY <1>3, <1>8 DEF LoseClaim, InTransaction
  <2> QED  BY <1>8, <2>1, IdleHandlerType, ReadPreserves DEF LoseClaim
<1>9. CASE Approve(h)
  <2>1. a \in Attempts => [attempt[a] EXCEPT
          !.status = "approved", !.purchaseId = handler[h].purchaseId] \in AttemptRow
    BY <1>1, FieldTypes DEF AttemptRow, AttemptStatus
  <2>2. Coherent(IdleHandler, delta[h])
    BY <1>3, <1>9 DEF Approve, InTransaction
  <2> QED  BY <1>9, <2>1, <2>2, IdleHandlerType, WriteAttemptPreserves DEF Approve
<1>10. CASE FailAttempt(h)
  <2>1. a \in Attempts => [attempt[a] EXCEPT !.status = "failed"] \in AttemptRow
    BY <1>1, <1>2 DEF AttemptStatus
  <2>2. Coherent(IdleHandler, delta[h])
    BY <1>3, <1>10 DEF FailAttempt, InTransaction
  <2> QED  BY <1>10, <2>1, <2>2, IdleHandlerType, WriteAttemptPreserves DEF FailAttempt
<1> QED  BY <1>4, <1>5, <1>6, <1>7, <1>8, <1>9, <1>10 DEF PaymentStep

-----------------------------------------------------------------------------
(* Time, admins, clients' recharges, and failures.                         *)

(* An admin overwrites the available copies of some books: the shelf has   *)
(* as many more or fewer.                                                  *)
LEMMA UpdateInventoryByStoreIdPreserves ==
  ASSUME IInv, NEW s \in Stores, NEW books \in SUBSET Books,
         NEW quantity \in [books -> Stocks], UpdateInventoryByStoreId(s, quantity)
  PROVE  IInv'
<1> DEFINE written == {<<b, s>> : b \in DOMAIN quantity}
<1>1. /\ inventory' = [w \in Rows |->
           IF w \in written THEN [inventory[w] EXCEPT !.available = quantity[w[1]]]
           ELSE inventory[w]]
      /\ shelf' = [w \in Rows |->
           IF w \in written THEN shelf[w] + quantity[w[1]] - inventory[w].available
           ELSE shelf[w]]
      /\ UNCHANGED <<reservation, cart, wallet, ledger, voucher, purchase, attempt,
                     added, handler, delta, locks>>
  BY DEF UpdateInventoryByStoreId
<1>2. \A w \in written : w[1] \in books /\ quantity[w[1]] \in Nat
  <2>1. \A b \in books : quantity[b] \in Nat
    BY BoundsAreNaturals
  <2>2. \A w \in written : w[1] \in books
    <3>1. DOMAIN quantity = books
      OBVIOUS
    <3> QED  BY <3>1
  <2> QED  BY <2>1, <2>2
<1>3. /\ inventory \in [Rows -> InventoryRow] /\ shelf \in [Rows -> Int]
      /\ \A w \in Rows : inventory[w].available + inventory[w].reserved = shelf[w]
      /\ \A w \in Rows : inventory[w].available \in Int /\ inventory[w].reserved \in Int
  BY DEF IInv, TypeOK, CopiesConserved, InventoryRow
<1> HIDE DEF written
<1>4. inventory' \in [Rows -> InventoryRow] /\ shelf' \in [Rows -> Int]
  BY <1>1, <1>2, <1>3 DEF InventoryRow
<1>5. CopiesConserved'
  <2> SUFFICES ASSUME NEW w \in Rows
               PROVE  inventory'[w].available + inventory'[w].reserved = shelf'[w]
    BY DEF CopiesConserved
  <2>1. CASE w \notin written
    BY <1>1, <1>3, <2>1
  <2>2. CASE w \in written
    <3> DEFINE n == quantity[w[1]]  x == inventory[w].available
               y == inventory[w].reserved  z == shelf[w]
    <3>1. n \in Nat /\ x \in Int /\ y \in Int /\ z \in Int /\ x + y = z
      BY <1>2, <1>3, <2>2
    <3>2. /\ inventory'[w].available = n /\ inventory'[w].reserved = y
          /\ shelf'[w] = z + n - x
      BY <1>1, <1>3, <2>2 DEF InventoryRow
    <3> HIDE DEF n, x, y, z
    <3>3. n + y = z + n - x
      BY <3>1
    <3> QED  BY <3>2, <3>3
  <2> QED  BY <2>1, <2>2
<1>6. LedgerExplainsWallet'
  BY <1>1 DEF IInv, LedgerExplainsWallet, Discrepancy
<1>7. TypeOK'
  BY <1>1, <1>4 DEF IInv, TypeOK
<1>8. \A h \in Handlers : Coherent(handler'[h], delta'[h])
  BY <1>1 DEF IInv
<1> QED  BY <1>5, <1>6, <1>7, <1>8 DEF IInv

(* A recharge is one more movement.                                        *)
LEMMA TopUpPreserves ==
  ASSUME IInv, NEW c \in Clients, NEW amount \in TopUpAmounts, TopUp(c, amount)
  PROVE  IInv'
<1>1. /\ RecordMovement(c, "topUp", Exact(amount), NULL, NULL)
      /\ UNCHANGED <<inventory, reservation, cart, voucher, purchase, attempt,
                     shelf, added, handler, delta, locks>>
  BY DEF TopUp
<1>2. Exact(amount) \in Int
  BY TopUpsArePositive DEF Exact
<1>3. /\ wallet' \in [Clients -> Int]
      /\ ledger' \in [Clients -> Seq(Movement)]
      /\ LedgerExplainsWallet'
  <2>1. /\ c \in Clients \cup {NULL} /\ "topUp" \in {"payment", "topUp"}
        /\ NULL \in Purchases \cup {NULL} /\ NULL \in Attempts \cup {NULL}
    OBVIOUS
  <2> QED  BY <1>1, <1>2, <2>1, RecordMovementExplains
<1>4. CopiesConserved'
  BY <1>1 DEF IInv, CopiesConserved
<1>5. TypeOK'
  BY <1>1, <1>3 DEF IInv, TypeOK
<1>6. \A h \in Handlers : Coherent(handler'[h], delta'[h])
  BY <1>1 DEF IInv
<1> QED  BY <1>3, <1>4, <1>5, <1>6 DEF IInv

(* A transaction that is aborted, for whatever reason.                     *)
LEMMA RollBackPreserves ==
  ASSUME IInv, NEW h \in Handlers, RollBack(h)
  PROVE  IInv'
BY SkipExpiredPreserves, ThrowPreserves DEF RollBack

(* Whatever happens around the handlers.                                   *)
LEMMA EnvironmentPreserves ==
  ASSUME IInv, Environment
  PROVE  IInv'
<1>1. ASSUME NEW r \in Reservations, FallDue(r)
      PROVE  IInv'
  <2>1. /\ reservation' = [reservation EXCEPT ![r].due = TRUE]
        /\ UNCHANGED <<inventory, cart, wallet, ledger, voucher, purchase, attempt,
                       shelf, added, handler, delta, locks>>
    BY <1>1 DEF FallDue
  <2>2. reservation' \in [Reservations -> ReservationRow]
    <3>1. \A row \in ReservationRow : [row EXCEPT !.due = TRUE] \in ReservationRow
      BY DEF ReservationRow
    <3> QED  BY <2>1, <3>1 DEF IInv, TypeOK
  <2>3. TypeOK'
    BY <2>1, <2>2 DEF IInv, TypeOK
  <2>4. CopiesConserved' /\ LedgerExplainsWallet'
    BY <2>1 DEF IInv, CopiesConserved, LedgerExplainsWallet, Discrepancy
  <2>5. \A h \in Handlers : Coherent(handler'[h], delta'[h])
    BY <2>1 DEF IInv
  <2> QED  BY <2>3, <2>4, <2>5 DEF IInv
<1>2. ASSUME NEW v \in Vouchers, VoucherExpires(v)
      PROVE  IInv'
  <2>1. /\ voucher' = [voucher EXCEPT ![v].expired = TRUE]
        /\ UNCHANGED <<inventory, reservation, cart, wallet, ledger, purchase,
                       attempt, shelf, added, handler, delta, locks>>
    BY <1>2 DEF VoucherExpires
  <2>2. voucher' \in [Vouchers -> VoucherRow]
    BY <2>1 DEF IInv, TypeOK, VoucherRow
  <2>3. TypeOK'
    BY <2>1, <2>2 DEF IInv, TypeOK
  <2>4. CopiesConserved' /\ LedgerExplainsWallet'
    BY <2>1 DEF IInv, CopiesConserved, LedgerExplainsWallet, Discrepancy
  <2>5. \A h \in Handlers : Coherent(handler'[h], delta'[h])
    BY <2>1 DEF IInv
  <2> QED  BY <2>3, <2>4, <2>5 DEF IInv
<1>3. ASSUME NEW h \in Handlers, Abort(h) PROVE IInv'
  BY <1>3, RollBackPreserves DEF Abort
<1>4. ASSUME NEW h \in Handlers, FailApprove(h) PROVE IInv'
  <2> DEFINE s == [handler[h] EXCEPT !.pc = "fail"]
  <2>1. /\ handler[h].pc = "approve"
        /\ handler' = [handler EXCEPT ![h] = s]
        /\ UNCHANGED <<dbVars, delta, locks>>
    BY <1>4 DEF FailApprove
  <2>2. s \in HandlerState
    BY GotoType DEF PC
  <2>3. s.pc = "fail"
    BY FieldTypes DEF HandlerState
  <2>4. delta[h] = NoDelta
    BY <2>1, FieldTypes DEF Coherent, InTransaction
  <2> HIDE DEF s
  <2>5. Coherent(s, delta[h])
    BY <2>3, <2>4 DEF Coherent, InTransaction, NoDelta
  <2> QED  BY <2>1, <2>2, <2>5, ReadPreserves
<1>5. ASSUME NEW h \in Handlers, Die(h) PROVE IInv'
  BY <1>5, RejectPreserves DEF Die
<1>6. ASSUME NEW s \in Stores, NEW books \in (SUBSET Books) \ {{}},
             NEW quantity \in [books -> Stocks], UpdateInventoryByStoreId(s, quantity)
      PROVE  IInv'
  BY <1>6, UpdateInventoryByStoreIdPreserves
<1>7. ASSUME NEW c \in Clients, NEW amount \in TopUpAmounts, TopUp(c, amount)
      PROVE  IInv'
  BY <1>7, TopUpPreserves
<1> QED  BY <1>1, <1>2, <1>3, <1>4, <1>5, <1>6, <1>7 DEF Environment

-----------------------------------------------------------------------------
(* The invariant.                                                          *)

(* An open shop, without reservations, movements, purchases or payments.   *)
LEMMA InitInv == DbInit => IInv
<1> SUFFICES ASSUME DbInit PROVE IInv
  OBVIOUS
<1>1. /\ inventory \in [Rows -> InventoryRow]
      /\ shelf \in [Rows -> Int]
      /\ CopiesConserved
  BY BoundsAreNaturals DEF DbInit, InventoryRow, CopiesConserved
<1>2. reservation \in [Reservations -> ReservationRow]
  BY DEF DbInit, ReservationRow, ReservationStatus, NoReservation
<1>3. cart \in [Clients -> CartRow] /\ added \in [Clients -> [Books -> Nat]]
  BY BoundsAreNaturals DEF DbInit, CartRow
<1>4. /\ wallet \in [Clients -> Int]
      /\ ledger \in [Clients -> Seq(Movement)]
      /\ LedgerExplainsWallet
  BY DEF DbInit, LedgerExplainsWallet
<1>5. voucher \in [Vouchers -> VoucherRow]
  BY DEF DbInit, VoucherRow
<1>6. purchase \in [Purchases -> PurchaseRow]
  BY ToCentsType DEF DbInit, PurchaseRow, NoPurchase, NoBooks
<1>7. attempt \in [Attempts -> AttemptRow]
  BY BoundsAreNaturals DEF DbInit, AttemptRow, NoAttempt, AttemptStatus, NoBooks, NoDto, Dto
<1>8. /\ handler \in [Handlers -> HandlerState]
      /\ delta \in [Handlers -> [Rows -> DeltaRow]]
      /\ \A h \in Handlers : Coherent(handler[h], delta[h])
  BY IdleHandlerType, NoDeltaType DEF DbInit
<1>9. locks \in [Handlers -> SUBSET Lockable]
  BY DEF DbInit
<1> QED  BY <1>1, <1>2, <1>3, <1>4, <1>5, <1>6, <1>7, <1>8, <1>9 DEF IInv, TypeOK

(* A handler that takes up a request, or goes on with one.                 *)
LEMMA HandlerPreserves ==
  ASSUME IInv, NEW h \in Handlers, Request(h) \/ Step(h)
  PROVE  IInv'
<1>1. CASE Request(h)
  BY <1>1, CartRequestPreserves, ReservationRequestPreserves, PurchaseRequestPreserves,
     PaymentRequestPreserves DEF Request
<1>2. CASE Step(h)
  BY <1>2, CartStepPreserves, ReservationStepPreserves, PurchaseStepPreserves,
     PaymentStepPreserves, RollBackPreserves DEF Step, BreakDeadlock
<1> QED  BY <1>1, <1>2

(* A step that changes nothing.                                            *)
LEMMA StutterPreserves ==
  ASSUME IInv, UNCHANGED vars
  PROVE  IInv'
<1>1. UNCHANGED <<inventory, reservation, cart, wallet, ledger, voucher, purchase,
                  attempt, shelf, added, handler, delta, locks>>
  BY DEF vars, dbVars
<1>2. TypeOK'
  BY <1>1 DEF IInv, TypeOK
<1>3. CopiesConserved' /\ LedgerExplainsWallet'
  BY <1>1 DEF IInv, CopiesConserved, LedgerExplainsWallet, Discrepancy
<1>4. \A h \in Handlers : Coherent(handler'[h], delta'[h])
  BY <1>1 DEF IInv
<1> QED  BY <1>2, <1>3, <1>4 DEF IInv

(* IInv is inductive: what every theorem below rests on.                   *)
THEOREM Invariance == Spec => []IInv
<1>1. IInv /\ [Next]_vars => IInv'
  <2> SUFFICES ASSUME IInv, [Next]_vars PROVE IInv'
    OBVIOUS
  <2>1. ASSUME NEW h \in Handlers, Request(h) \/ Step(h) PROVE IInv'
    BY <2>1, HandlerPreserves
  <2>2. CASE Environment
    BY <2>2, EnvironmentPreserves
  <2>3. CASE UNCHANGED vars
    BY <2>3, StutterPreserves
  <2> QED  BY <2>1, <2>2, <2>3 DEF Next
<1> QED  BY <1>1, InitInv, PTL DEF Spec

(* Every table and every handler keeps its type, in every interleaving of  *)
(* any number of requests.                                                 *)
THEOREM TypeCorrect == Spec => []TypeOK
<1>1. IInv => TypeOK
  BY DEF IInv
<1> QED  BY <1>1, Invariance, PTL

(* No copy appears or vanishes: what the reservations, cancellations, cron *)
(* ticks and purchases of any number of clients do to a stock row keeps    *)
(* available and reserved copies equal to those on the shelf.              *)
THEOREM StockConserved == Spec => []CopiesConserved
<1>1. IInv => CopiesConserved
  BY DEF IInv
<1> QED  BY <1>1, Invariance, PTL

(* The ledger explains the wallet, whatever movements race.                *)
THEOREM LedgerCorrect == Spec => []LedgerExplainsWallet
<1>1. IInv => LedgerExplainsWallet
  BY DEF IInv
<1> QED  BY <1>1, Invariance, PTL
=============================================================================
