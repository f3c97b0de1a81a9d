----------------------- MODULE OrderCapacityProofs ------------------------
(***************************************************************************)
(* Proofs about OrderAccounting, for every set of days and any number of   *)
(* orders: on a day without threads and without repeated returns, what is  *)
(* pending on a side is what its orders may still trade, and the orders    *)
(* keep to the limits of the day and, whatever the position queries        *)
(* answer, to what could be sold when it began.                            *)
(*                                                                         *)
(* All is about sums over the orders of a side.  The sums are folds; the   *)
(* first part proves what is needed of them, for every finite set, by      *)
(* looking at a smallest subset for which it would be false.               *)
(***************************************************************************)
EXTENDS OrderAccountingProofs, FiniteSetTheorems

(* One element of a set, the one the fold takes first.                     *)
First(s) == CHOOSE x \in s : TRUE

(* F is the table that the fold fills over the subsets of S.               *)
IsTable(F, f, S) ==
  F = [s \in SUBSET S |->
         IF s = {} THEN 0 ELSE f[First(s)] + F[s \ {First(s)}]]

LEMMA SumTable ==
  ASSUME NEW f, NEW S
  PROVE  SumOver(f, S) = (CHOOSE F : IsTable(F, f, S))[S]
BY DEF SumOver, FoldFunctionOnSet, MapThenFoldSet, IsTable, First

(* A non-empty set of subsets of a finite set has a smallest one.          *)
LEMMA SmallestSet ==
  ASSUME NEW S, IsFiniteSet(S), NEW T \in SUBSET (SUBSET S), T # {}
  PROVE  \E s \in T : \A t \in T : t \subseteq s => t = s
<1>1. IsWellFoundedOn(StrictSubsetOrdering(S), SUBSET S)
  BY FS_FiniteSubsetsOfFinite, FS_StrictSubsetOrderingWellFounded
<1>2. PICK s \in T : \A t \in T : ~ (<<t, s>> \in StrictSubsetOrdering(S))
  BY <1>1, WFMin
<1> QED
  BY <1>2 DEF StrictSubsetOrdering

(* Two tables agree where both are filled from the same values.            *)
LEMMA TablesAgree ==
  ASSUME NEW W, IsFiniteSet(W), NEW U, NEW V, W \subseteq U, W \subseteq V,
         NEW f, NEW g, \A x \in W : f[x] = g[x],
         NEW F, NEW G, IsTable(F, f, U), IsTable(G, g, V)
  PROVE  F[W] = G[W]
<1> DEFINE Bad == {s \in SUBSET W : F[s] # G[s]}
<1>1. CASE Bad # {}
  <2>0. Bad \in SUBSET (SUBSET W)
    OBVIOUS
  <2> HIDE DEF Bad
  <2>1. PICK s \in Bad : \A t \in Bad : t \subseteq s => t = s
    BY <1>1, <2>0, SmallestSet
  <2> USE DEF Bad
  <2>2. s \in SUBSET U /\ s \in SUBSET V
    OBVIOUS
  <2>3. CASE s = {}
    BY <2>2, <2>3 DEF IsTable
  <2>4. CASE s # {}
    <3> DEFINE x == First(s)
    <3>1. x \in s
      BY <2>4 DEF First
    <3> HIDE DEF x
    <3>2. F[s] = f[x] + F[s \ {x}] /\ G[s] = g[x] + G[s \ {x}]
      BY <2>2, <2>4 DEF IsTable, x
    <3>3. s \ {x} \notin Bad
      BY <2>1, <3>1
    <3>4. F[s \ {x}] = G[s \ {x}] /\ f[x] = g[x]
      BY <3>1, <3>3
    <3> QED
      BY <3>2, <3>4
  <2> QED
    BY <2>3, <2>4
<1>2. CASE Bad = {}
  BY <1>2
<1> QED
  BY <1>1, <1>2

(* The table exists: below the smallest set without one every sum is known.*)
LEMMA TableExists ==
  ASSUME NEW S, IsFiniteSet(S), NEW f
  PROVE  \E F : IsTable(F, f, S)
<1> DEFINE Bad == {s \in SUBSET S : ~ \E F : IsTable(F, f, s)}
<1>1. CASE Bad # {}
  <2>0. Bad \in SUBSET (SUBSET S)
    OBVIOUS
  <2> HIDE DEF Bad
  <2>1. PICK s \in Bad : \A t \in Bad : t \subseteq s => t = s
    BY <1>1, <2>0, SmallestSet
  <2> USE DEF Bad
  <2>2. ASSUME NEW u \in SUBSET s, u # s
        PROVE  IsTable(CHOOSE F : IsTable(F, f, u), f, u)
    <3>1. \E F : IsTable(F, f, u)
      BY <2>1, <2>2
    <3> QED
      BY <3>1
  <2> DEFINE F == [t \in SUBSET s |->
                     IF t = {} THEN 0
                     ELSE f[First(t)] + SumOver(f, t \ {First(t)})]
  <2>3. ASSUME NEW t \in SUBSET s, t # {}
        PROVE  F[t \ {First(t)}] = SumOver(f, t \ {First(t)})
    <3> DEFINE u == t \ {First(t)}
    <3>1. u \in SUBSET s /\ u # s /\ First(t) \in t
      BY <2>3 DEF First
    <3> DEFINE A == CHOOSE G : IsTable(G, f, u)
    <3>2. IsTable(A, f, u) /\ SumOver(f, u) = A[u]
      BY <2>2, <3>1, SumTable
    <3> HIDE DEF A, u
    <3>3. CASE u = {}
      <4>1. A[u] = 0 /\ F[u] = 0
        BY <3>1, <3>2, <3>3 DEF IsTable
      <4> QED
        BY <3>2, <4>1 DEF u
    <3>4. CASE u # {}
      <4> DEFINE y == First(u)
                 v == u \ {y}
                 B == CHOOSE G : IsTable(G, f, v)
      <4>1. y \in u /\ v \in SUBSET s /\ v # s
        BY <3>1, <3>4 DEF First
      <4>2. IsTable(B, f, v) /\ SumOver(f, v) = B[v]
        BY <2>2, <4>1, SumTable
      <4>3. IsFiniteSet(v)
        BY <3>1, FS_Subset
      <4>4. A[u] = f[y] + A[v] /\ F[u] = f[y] + SumOver(f, v)
        BY <3>1, <3>2, <3>4 DEF IsTable
      <4> HIDE DEF B, v, y
      <4>5. A[v] = B[v]
        BY <3>2, <4>2, <4>3, TablesAgree, v \subseteq u DEF v
      <4> QED
        BY <3>2, <4>2, <4>4, <4>5 DEF u
    <3> QED
      BY <3>3, <3>4
  <2>4. IsTable(F, f, s)
    <3> HIDE DEF F
    <3>1. F = [t \in SUBSET s |-> IF t = {} THEN 0 ELSE f[First(t)] + F[t \ {First(t)}]]
      BY <2>3 DEF F
    <3> QED
      BY <3>1 DEF IsTable
  <2> QED
    BY <2>1, <2>4
<1>2. CASE Bad = {}
  BY <1>2
<1> QED
  BY <1>1, <1>2

(* The equation of the sum, and that it only looks at the values in S.     *)
LEMMA SumEmpty == ASSUME NEW f PROVE SumOver(f, {}) = 0
<1>1. IsTable(CHOOSE F : IsTable(F, f, {}), f, {})
  BY FS_EmptySet, TableExists
<1> QED
  BY <1>1, SumTable DEF IsTable

LEMMA SumAgree ==
  ASSUME NEW S, IsFiniteSet(S), NEW f, NEW g, \A x \in S : f[x] = g[x]
  PROVE  SumOver(f, S) = SumOver(g, S)
<1> DEFINE F == CHOOSE G : IsTable(G, f, S)
           H == CHOOSE G : IsTable(G, g, S)
<1>1. IsTable(F, f, S) /\ IsTable(H, g, S)
  BY TableExists
<1> HIDE DEF F, H
<1>2. F[S] = H[S]
  BY <1>1, TablesAgree
<1> QED
  BY <1>2, SumTable DEF F, H

LEMMA SumFirst ==
  ASSUME NEW S, IsFiniteSet(S), S # {}, NEW f
  PROVE  First(S) \in S /\ SumOver(f, S) = f[First(S)] + SumOver(f, S \ {First(S)})
<1> DEFINE x == First(S)
           T == S \ {x}
           F == CHOOSE G : IsTable(G, f, S)
           H == CHOOSE G : IsTable(G, f, T)
<1>1. x \in S /\ IsFiniteSet(T) /\ T \subseteq S
  BY FS_Subset DEF First
<1>2. IsTable(F, f, S) /\ IsTable(H, f, T)
  BY <1>1, TableExists
<1>3. SumOver(f, S) = F[S] /\ SumOver(f, T) = H[T]
  BY SumTable
<1>4. F[S] = f[x] + F[T]
  BY <1>2 DEF IsTable
<1> HIDE DEF F, H, T
<1>5. F[T] = H[T]
  BY <1>1, <1>2, TablesAgree
<1> QED
  BY <1>1, <1>3, <1>4, <1>5 DEF T

(* The smallest set with a sum that is wrong does not exist.               *)
LEMMA SumType ==
  ASSUME NEW S, IsFiniteSet(S), NEW f, \A x \in S : f[x] \in Int
  PROVE  SumOver(f, S) \in Int
<1> DEFINE Bad == {s \in SUBSET S : SumOver(f, s) \notin Int}
<1>1. CASE Bad # {}
  <2>0. Bad \in SUBSET (SUBSET S)
    OBVIOUS
  <2> HIDE DEF Bad
  <2>1. PICK s \in Bad : \A t \in Bad : t \subseteq s => t = s
    BY <1>1, <2>0, SmallestSet
  <2> USE DEF Bad
  <2>2. s # {} /\ IsFiniteSet(s)
    <3>1. SumOver(f, s) # 0
      OBVIOUS
    <3> QED
      BY <3>1, SumEmpty, FS_Subset
  <2>3. PICK x \in s : SumOver(f, s) = f[x] + SumOver(f, s \ {x})
    BY <2>2, SumFirst
  <2>4. SumOver(f, s \ {x}) \in Int
    BY <2>1
  <2> QED
    BY <2>3, <2>4
<1>2. CASE Bad = {}
  BY <1>2
<1> QED
  BY <1>1, <1>2

(* Any element may be taken out first.                                     *)
LEMMA SumRemove ==
  ASSUME NEW S, IsFiniteSet(S), NEW f, \A x \in S : f[x] \in Int, NEW x \in S
  PROVE  SumOver(f, S) = f[x] + SumOver(f, S \ {x})
<1> DEFINE Bad == {s \in SUBSET S : \E y \in s : SumOver(f, s) # f[y] + SumOver(f, s \ {y})}
<1>1. CASE Bad # {}
  <2>0. Bad \in SUBSET (SUBSET S)
    OBVIOUS
  <2> HIDE DEF Bad
  <2>1. PICK s \in Bad : \A t \in Bad : t \subseteq s => t = s
    BY <1>1, <2>0, SmallestSet
  <2> USE DEF Bad
  <2>2. PICK y \in s : SumOver(f, s) # f[y] + SumOver(f, s \ {y})
    BY <2>1
  <2>3. s # {} /\ IsFiniteSet(s)
    BY <2>2, FS_Subset
  <2>4. PICK z \in s : SumOver(f, s) = f[z] + SumOver(f, s \ {z})
    BY <2>3, SumFirst
  <2>5. z # y
    BY <2>2, <2>4
  <2>6. s \ {z} \notin Bad /\ s \ {y} \notin Bad
    BY <2>1
  <2>7. /\ SumOver(f, s \ {z}) = f[y] + SumOver(f, (s \ {z}) \ {y})
        /\ SumOver(f, s \ {y}) = f[z] + SumOver(f, (s \ {y}) \ {z})
    BY <2>5, <2>6
  <2>8. (s \ {z}) \ {y} = (s \ {y}) \ {z}
    OBVIOUS
  <2>9. /\ f[y] \in Int /\ f[z] \in Int
        /\ SumOver(f, (s \ {y}) \ {z}) \in Int
    <3>1. IsFiniteSet((s \ {y}) \ {z})
      BY <2>3, FS_Subset
    <3> QED
      BY <3>1, SumType
  <2>10. SumOver(f, (s \ {z}) \ {y}) = SumOver(f, (s \ {y}) \ {z})
    BY <2>8
  <2> HIDE DEF Bad
  <2> QED
    BY <2>2, <2>4, <2>7, <2>9, <2>10
<1>2. CASE Bad = {}
  BY <1>2
<1> QED
  BY <1>1, <1>2

LEMMA SumAdd ==
  ASSUME NEW S, IsFiniteSet(S), NEW x, x \notin S, NEW f,
         \A y \in S \cup {x} : f[y] \in Int
  PROVE  SumOver(f, S \cup {x}) = f[x] + SumOver(f, S)
<1>1. IsFiniteSet(S \cup {x}) /\ (S \cup {x}) \ {x} = S
  BY FS_AddElement
<1>2. x \in S \cup {x}
  OBVIOUS
<1>3. SumOver(f, S \cup {x}) = f[x] + SumOver(f, (S \cup {x}) \ {x})
  BY <1>1, <1>2, SumRemove
<1> QED
  BY <1>1, <1>3

(* One value changes.                                                      *)
LEMMA SumChange ==
  ASSUME NEW S, IsFiniteSet(S), NEW x \in S, NEW f, NEW g,
         \A y \in S : f[y] \in Int /\ g[y] \in Int,
         \A y \in S \ {x} : g[y] = f[y]
  PROVE  SumOver(g, S) = SumOver(f, S) - f[x] + g[x]
<1>1. IsFiniteSet(S \ {x})
  BY FS_Subset
<1>2. /\ SumOver(f, S) = f[x] + SumOver(f, S \ {x})
      /\ SumOver(g, S) = g[x] + SumOver(g, S \ {x})
  BY SumRemove
<1>3. SumOver(f, S \ {x}) = SumOver(g, S \ {x})
  BY <1>1, SumAgree
<1>4. f[x] \in Int /\ g[x] \in Int /\ SumOver(f, S \ {x}) \in Int
  BY <1>1, SumType
<1> QED
  BY <1>2, <1>3, <1>4

(* The sum of smaller values is smaller; of two sums, the sum of the sums. *)
LEMMA SumLeq ==
  ASSUME NEW S, IsFiniteSet(S), NEW f, NEW g,
         \A x \in S : f[x] \in Int /\ g[x] \in Int /\ f[x] <= g[x]
  PROVE  SumOver(f, S) <= SumOver(g, S)
<1> DEFINE Bad == {s \in SUBSET S : ~(SumOver(f, s) <= SumOver(g, s))}
<1>1. CASE Bad # {}
  <2>0. Bad \in SUBSET (SUBSET S)
    OBVIOUS
  <2> HIDE DEF Bad
  <2>1. PICK s \in Bad : \A t \in Bad : t \subseteq s => t = s
    BY <1>1, <2>0, SmallestSet
  <2> USE DEF Bad
  <2>2. IsFiniteSet(s)
    BY FS_Subset
  <2>3. s # {}
    <3>1. CASE s = {}
      <4>1. SumOver(f, s) = 0 /\ SumOver(g, s) = 0
        BY <3>1, SumEmpty
      <4> QED
        BY <4>1
    <3> QED
      BY <3>1
  <2>4. PICK x : x \in s
    BY <2>3
  <2>5. /\ SumOver(f, s) = f[x] + SumOver(f, s \ {x})
        /\ SumOver(g, s) = g[x] + SumOver(g, s \ {x})
    BY <2>2, <2>4, SumRemove
  <2>6. SumOver(f, s \ {x}) <= SumOver(g, s \ {x})
    BY <2>1, <2>4
  <2>7. SumOver(f, s \ {x}) \in Int /\ SumOver(g, s \ {x}) \in Int
    <3>1. IsFiniteSet(s \ {x})
      BY <2>2, FS_Subset
    <3> QED
      BY <3>1, SumType
  <2>8. f[x] \in Int /\ g[x] \in Int /\ f[x] <= g[x]
    BY <2>4
  <2>9. ~(SumOver(f, s) <= SumOver(g, s))
    OBVIOUS
  <2> HIDE DEF Bad
  <2> QED
    BY <2>5, <2>6, <2>7, <2>8, <2>9
<1>2. CASE Bad = {}
  BY <1>2
<1> QED
  BY <1>1, <1>2

LEMMA SumPlus ==
  ASSUME NEW S, IsFiniteSet(S), NEW f, NEW g, NEW h,
         \A x \in S : f[x] \in Int /\ g[x] \in Int /\ h[x] = f[x] + g[x]
  PROVE  SumOver(h, S) = SumOver(f, S) + SumOver(g, S)
<1> DEFINE Bad == {s \in SUBSET S : SumOver(h, s) # SumOver(f, s) + SumOver(g, s)}
<1>1. CASE Bad # {}
  <2>0. Bad \in SUBSET (SUBSET S)
    OBVIOUS
  <2> HIDE DEF Bad
  <2>1. PICK s \in Bad : \A t \in Bad : t \subseteq s => t = s
    BY <1>1, <2>0, SmallestSet
  <2> USE DEF Bad
  <2>2. IsFiniteSet(s)
    BY FS_Subset
  <2>3. s # {}
    <3>1. CASE s = {}
      <4>1. SumOver(f, s) = 0 /\ SumOver(g, s) = 0 /\ SumOver(h, s) = 0
        BY <3>1, SumEmpty
      <4> QED
        BY <4>1
    <3> QED
      BY <3>1
  <2>4. PICK x : x \in s
    BY <2>3
  <2>5. f[x] \in Int /\ g[x] \in Int /\ h[x] = f[x] + g[x] /\ \A y \in s : h[y] \in Int
    BY <2>4
  <2>6. /\ SumOver(f, s) = f[x] + SumOver(f, s \ {x})
        /\ SumOver(g, s) = g[x] + SumOver(g, s \ {x})
        /\ SumOver(h, s) = h[x] + SumOver(h, s \ {x})
    BY <2>2, <2>4, <2>5, SumRemove
  <2>7. SumOver(h, s \ {x}) = SumOver(f, s \ {x}) + SumOver(g, s \ {x})
    BY <2>1, <2>4
  <2>8. SumOver(f, s \ {x}) \in Int /\ SumOver(g, s \ {x}) \in Int
    <3>1. IsFiniteSet(s \ {x})
      BY <2>2, FS_Subset
    <3> QED
      BY <3>1, SumType
  <2>9. SumOver(h, s) # SumOver(f, s) + SumOver(g, s)
    OBVIOUS
  <2> HIDE DEF Bad
  <2> QED
    BY <2>5, <2>6, <2>7, <2>8, <2>9
<1>2. CASE Bad = {}
  BY <1>2
<1> QED
  BY <1>1, <1>2

LEMMA SumZero ==
  ASSUME NEW S, IsFiniteSet(S), NEW f, \A x \in S : f[x] = 0
  PROVE  SumOver(f, S) = 0
<1>1. \A x \in S : f[x] \in Int /\ f[x] = f[x] + f[x]
  OBVIOUS
<1>2. SumOver(f, S) \in Int
  BY <1>1, SumType
<1>3. SumOver(f, S) = SumOver(f, S) + SumOver(f, S)
  BY <1>1, SumPlus
<1>4. \A n \in Int : n = n + n => n = 0
  OBVIOUS
<1> QED
  BY <1>2, <1>3, <1>4

(* No value of a sum of naturals is larger than the sum.                   *)
LEMMA SumNat ==
  ASSUME NEW S, IsFiniteSet(S), NEW f, \A x \in S : f[x] \in Nat
  PROVE  SumOver(f, S) \in Nat /\ \A x \in S : f[x] <= SumOver(f, S)
<1> DEFINE z == [x \in S |-> 0]
<1>1. ASSUME NEW T \in SUBSET S PROVE SumOver(f, T) \in Nat
  <2>1. IsFiniteSet(T) /\ \A x \in T : f[x] \in Int /\ z[x] \in Int /\ z[x] <= f[x] /\ z[x] = 0
    BY FS_Subset
  <2> HIDE DEF z
  <2>2. SumOver(z, T) <= SumOver(f, T) /\ SumOver(z, T) = 0 /\ SumOver(f, T) \in Int
    BY <2>1, SumLeq, SumZero, SumType
  <2> QED
    BY <2>2
<1>2. ASSUME NEW x \in S PROVE f[x] <= SumOver(f, S)
  <2>1. SumOver(f, S) = f[x] + SumOver(f, S \ {x})
    BY SumRemove
  <2>2. SumOver(f, S \ {x}) \in Nat /\ f[x] \in Nat
    BY <1>1
  <2> QED
    BY <2>1, <2>2
<1> QED
  BY <1>1, <1>2

-----------------------------------------------------------------------------
(* The orders of the day that the accounting can speak of exactly.         *)
Quiet == ~day.threaded /\ resends = 0 /\ OneKeyEach

(* What an order takes as far as the strategy knows: all of it, until the  *)
(* strategy has been told of its end.                                      *)
View(o) == IF ToldEnded(o) THEN Reported(o) ELSE order[o].qty

DueSum(s) == SumOver([o \in Orders |-> Outstanding(o)], Sent(s))
ToldSum(s) == SumOver([o \in Orders |-> Reported(o)], Sent(s))
ViewSum(s) == SumOver([o \in Orders |-> View(o)], Sent(s))
CountedSum(s) == SumOver(counted, Sent(s))

Start == day.total - Static
Sellable == Smaller(day.available, day.total)

(* An order's last report, and no other, speaks of its end; before it, a   *)
(* report leaves what is not traded.                                       *)
ShapeOf(o) ==
  /\ order[o].cum <= order[o].qty
  /\ \A i \in 1..Len(rep[o]) :
       IF rep[o][i].status \in Ended
       THEN /\ i = Len(rep[o]) /\ order[o].state = "ended"
            /\ rep[o][i].cum = order[o].cum /\ rep[o][i].leaves = 0
       ELSE rep[o][i].leaves = order[o].qty - rep[o][i].cum

ShapeInv == \A o \in Orders : ShapeOf(o)

(* What the tables say of the end and of what is left.                     *)
KnownInv ==
  /\ \A k \in Keys : over[k] => ToldEnded(k[1])
  /\ Quiet => \A k \in Keys :
       leaves[k] >= 0 => leaves[k] = order[k[1]].qty - traded[k]

(* Without threads a load and its store are not torn apart.                *)
TurnInv ==
  /\ cb.at # "idle" => cb.order \in 1..sent
  /\ cb.at = "released" => cb.release = 0
  /\ queries = 0 => query.at = "none"
  /\ ~day.threaded =>
       /\ sig.at = "idle" \/ cb.at = "idle"
       /\ sig.at = "loaded" => sig.seen = pending[order[sig.order].side]
       /\ cb.at = "loaded" => cb.seen = pending[order[cb.order].side]

Reserving(s) ==
  IF sig.at # "idle" /\ order[sig.order].side = s THEN order[sig.order].qty ELSE 0
Releasing(s) ==
  IF cb.at = "loaded" /\ order[cb.order].side = s THEN cb.release ELSE 0

ReservedInv ==
  Quiet => \A s \in Sides : pending[s] + Reserving(s) = DueSum(s) + Releasing(s)

PositionInv ==
  Quiet /\ queries = 0 =>
    /\ pi = Start + CountedSum("buy") - CountedSum("sell")
    /\ shortable = Sellable - CountedSum("sell")

OppositeSides(a, b) ==
  Working(a) /\ Working(b) /\ order[a].side # order[b].side

LimitInv ==
  Quiet /\ queries = 0 =>
    /\ ViewSum("sell") <= Sellable
    /\ Start + ToldSum("buy") - ViewSum("sell") >= Smaller(Start, -LargestLimit)
    /\ Start + ViewSum("buy") - ToldSum("sell")
         <= Larger(Start, Smaller(day.available, LargestLimit))
    /\ \A a, b \in 1..sent : ~OppositeSides(a, b)

AInv == ShapeInv /\ KnownInv /\ TurnInv /\ ReservedInv /\ PositionInv /\ LimitInv

-----------------------------------------------------------------------------
(* Lemmas about what is summed.                                            *)

LEMMA SentFacts ==
  ASSUME IInv, NEW s \in Sides
  PROVE  IsFiniteSet(Sent(s)) /\ Sent(s) \subseteq Orders /\ sent \in Nat
<1>1. sent \in 0..MaxOrders /\ MaxOrders \in Nat
  BY OrderAssumption DEF IInv, TypeOK
<1>2. IsFiniteSet(1..sent) /\ Sent(s) \subseteq 1..sent
  BY <1>1, FS_Interval DEF Sent
<1>3. 1..sent \subseteq Orders /\ sent \in Nat
  BY <1>1 DEF Orders
<1> QED
  BY <1>2, <1>3, FS_Subset

(* What the strategy knows of an order, and what it is.                    *)
LEMMA ViewFacts ==
  ASSUME IInv, ShapeInv, NEW o \in Orders
  PROVE  /\ Reported(o) \in Nat /\ order[o].cum \in Nat /\ order[o].qty \in Nat
         /\ Reported(o) <= order[o].cum /\ order[o].cum <= order[o].qty
         /\ Outstanding(o) \in Nat /\ View(o) \in Nat /\ Exposure(o) \in Nat
         /\ View(o) = Reported(o) + Outstanding(o)
         /\ Reported(o) <= View(o) /\ Exposure(o) <= View(o)
         /\ Working(o) => Outstanding(o) > 0
<1>1. /\ order[o] \in OrderType /\ rep[o] \in Seq(ReportType) /\ got[o] \in Nat
      /\ ReportsOf(o) /\ OrderOf(o) /\ ShapeOf(o)
  BY DEF IInv, TypeOK, OrderType, ReportInv, OrderInv, ShapeInv
<1>2. /\ order[o].cum \in Nat /\ order[o].qty \in Nat /\ order[o].cum <= order[o].qty
      /\ Len(rep[o]) \in Nat
      /\ \A i \in 1..Len(rep[o]) : rep[o][i].cum \in Nat
  <2>1. \A i \in 1..Len(rep[o]) : rep[o][i] \in ReportType
    BY <1>1
  <2> QED
    BY <1>1, <2>1 DEF OrderType, ReportType, ShapeOf
<1>3. got[o] <= Len(rep[o]) /\ (got[o] # 0 => got[o] \in 1..Len(rep[o]))
  BY <1>1, <1>2 DEF ReportsOf
<1>4. Reported(o) \in Nat /\ Reported(o) <= order[o].cum
  BY <1>1, <1>2, <1>3 DEF Reported, ReportsOf
<1>5. CASE ToldEnded(o)
  <2>1. PICK i \in 1..got[o] : rep[o][i].status \in Ended
    BY <1>5 DEF ToldEnded
  <2>2. i \in 1..Len(rep[o]) /\ i \in Nat
    BY <1>1, <1>2, <1>3, <2>1
  <2>3. /\ i = Len(rep[o]) /\ order[o].state = "ended" /\ rep[o][i].cum = order[o].cum
    BY <1>1, <2>1, <2>2 DEF ShapeOf
  <2>4. got[o] = i /\ got[o] # 0
    BY <1>1, <1>2, <1>3, <2>1, <2>3
  <2>5. Reported(o) = order[o].cum
    BY <2>3, <2>4 DEF Reported
  <2>6. Outstanding(o) = 0 /\ View(o) = Reported(o) /\ Exposure(o) = order[o].cum
        /\ ~Working(o)
    BY <1>5, <2>3 DEF Outstanding, View, Exposure, Working
  <2> QED
    BY <1>2, <1>4, <2>5, <2>6
<1>6. CASE ~ToldEnded(o)
  <2>1. Outstanding(o) = order[o].qty - Reported(o) /\ View(o) = order[o].qty
    BY <1>6 DEF Outstanding, View
  <2>2. Exposure(o) = order[o].qty \/ Exposure(o) = order[o].cum
    BY DEF Exposure
  <2>3. Working(o) => order[o].cum < order[o].qty
    BY <1>1 DEF Working, OrderOf
  <2> QED
    BY <1>2, <1>4, <2>1, <2>2, <2>3
<1> QED
  BY <1>5, <1>6

(* The sums over a side are naturals, in the order of their summands.      *)
LEMMA SideFacts ==
  ASSUME IInv, ShapeInv, NEW s \in Sides
  PROVE  /\ DueSum(s) \in Nat /\ ToldSum(s) \in Nat /\ ViewSum(s) \in Nat
         /\ CountedSum(s) \in Nat /\ Exposed(s) \in Nat /\ Filled(s) \in Nat
         /\ ViewSum(s) = ToldSum(s) + DueSum(s)
         /\ Exposed(s) <= ViewSum(s) /\ ToldSum(s) <= Filled(s)
         /\ \A o \in Sent(s) : Outstanding(o) <= DueSum(s)
         /\ OneKeyEach => CountedSum(s) <= ToldSum(s)
<1> DEFINE due == [o \in Orders |-> Outstanding(o)]
           told == [o \in Orders |-> Reported(o)]
           view == [o \in Orders |-> View(o)]
           exposure == [o \in Orders |-> Exposure(o)]
           filled == [o \in Orders |-> order[o].cum]
           S == Sent(s)
<1>1. IsFiniteSet(S) /\ S \subseteq Orders
  BY SentFacts
<1>2. \A o \in S : /\ due[o] \in Nat /\ told[o] \in Nat /\ view[o] \in Nat
                   /\ exposure[o] \in Nat /\ filled[o] \in Nat /\ counted[o] \in Nat
                   /\ view[o] = told[o] + due[o] /\ exposure[o] <= view[o]
                   /\ told[o] <= filled[o] /\ due[o] = Outstanding(o)
                   /\ told[o] = Reported(o)
  BY <1>1, ViewFacts DEF IInv, TypeOK
<1>3. OneKeyEach => \A o \in S : counted[o] <= told[o]
  <2> SUFFICES ASSUME OneKeyEach, NEW o \in S PROVE counted[o] <= told[o]
    OBVIOUS
  <2>1. counted[o] + Unstored(o) = Reported(o)
    BY <1>1, FillsCounted DEF FillsCountedOnce, OneKeyEach
  <2>2. Unstored(o) \in Nat
    BY DEF Unstored, IInv, TypeOK
  <2>3. counted[o] \in Nat /\ told[o] = Reported(o)
    BY <1>2
  <2> HIDE DEF told
  <2> QED
    BY <2>1, <2>2, <2>3
<1>4. /\ DueSum(s) = SumOver(due, S) /\ ToldSum(s) = SumOver(told, S)
      /\ ViewSum(s) = SumOver(view, S) /\ CountedSum(s) = SumOver(counted, S)
      /\ Exposed(s) = SumOver(exposure, S) /\ Filled(s) = SumOver(filled, S)
  BY DEF DueSum, ToldSum, ViewSum, CountedSum, Exposed, Filled
<1> HIDE DEF due, told, view, exposure, filled, S
<1>5. SumOver(due, S) \in Nat /\ \A o \in S : due[o] <= SumOver(due, S)
  BY <1>1, <1>2, SumNat
<1>6. SumOver(told, S) \in Nat
  BY <1>1, <1>2, SumNat
<1>7. SumOver(view, S) \in Nat
  BY <1>1, <1>2, SumNat
<1>8. SumOver(counted, S) \in Nat
  BY <1>1, <1>2, SumNat
<1>9. SumOver(exposure, S) \in Nat
  BY <1>1, <1>2, SumNat
<1>10. SumOver(filled, S) \in Nat
  BY <1>1, <1>2, SumNat
<1>11. SumOver(view, S) = SumOver(told, S) + SumOver(due, S)
  <2>1. \A o \in S : told[o] \in Int /\ due[o] \in Int /\ view[o] = told[o] + due[o]
    BY <1>2
  <2> QED
    BY <1>1, <2>1, SumPlus
<1>12. SumOver(exposure, S) <= SumOver(view, S)
  <2>1. \A o \in S : exposure[o] \in Int /\ view[o] \in Int /\ exposure[o] <= view[o]
    BY <1>2
  <2> QED
    BY <1>1, <2>1, SumLeq
<1>13. SumOver(told, S) <= SumOver(filled, S)
  <2>1. \A o \in S : told[o] \in Int /\ filled[o] \in Int /\ told[o] <= filled[o]
    BY <1>2
  <2> QED
    BY <1>1, <2>1, SumLeq
<1>14. ASSUME OneKeyEach PROVE SumOver(counted, S) <= SumOver(told, S)
  <2>1. \A o \in S : counted[o] \in Int /\ told[o] \in Int /\ counted[o] <= told[o]
    BY <1>2, <1>3, <1>14
  <2> QED
    BY <1>1, <2>1, SumLeq
<1>15. \A o \in S : Outstanding(o) <= SumOver(due, S)
  BY <1>2, <1>5
<1> QED
  BY <1>4, <1>5, <1>6, <1>7, <1>8, <1>9, <1>10, <1>11, <1>12, <1>13, <1>14, <1>15 DEF S

(* The largest limit of the day is the largest.                            *)
LEMMA LargestFacts ==
  ASSUME TypeOK
  PROVE  /\ LargestLimit \in Nat
         /\ \A p \in 1..Len(day.limits) : /\ day.limits[p] \in Nat
                                          /\ day.limits[p] <= LargestLimit
<1> DEFINE f == day.limits
           D == 1..Len(f)
           Bad == {s \in SUBSET D :
                     s # {} /\ ~ \E p \in s : \A q \in s : f[q] <= f[p]}
<1>1. /\ Len(f) \in Nat /\ D = DOMAIN f /\ IsFiniteSet(D) /\ 1 \in D
      /\ \A p \in D : f[p] \in Nat
  <2>1. f \in Seq(Nat) /\ f # <<>>
    BY OrderAssumption DEF TypeOK, DayType
  <2>2. Len(f) \in Nat /\ Len(f) > 0 /\ D = DOMAIN f
    BY <2>1
  <2>3. IsFiniteSet(D)
    BY <2>2, FS_Interval
  <2> QED
    BY <2>1, <2>2, <2>3
<1> HIDE DEF f, D
<1>2. ASSUME Bad # {} PROVE FALSE
  <2>0. Bad \in SUBSET (SUBSET D)
    OBVIOUS
  <2> HIDE DEF Bad
  <2>1. PICK s \in Bad : \A t \in Bad : t \subseteq s => t = s
    BY <1>1, <1>2, <2>0, SmallestSet
  <2> USE DEF Bad
  <2>2. PICK x \in s : s \subseteq D
    BY <2>1
  <2>3. s \ {x} \notin Bad
    BY <2>1, <2>2
  <2>4. CASE s \ {x} = {}
    <3>1. \A q \in s : f[q] <= f[x]
      BY <1>1, <2>2, <2>4
    <3> QED
      BY <2>2, <3>1
  <2>5. CASE s \ {x} # {}
    <3>1. PICK p \in s \ {x} : \A q \in s \ {x} : f[q] <= f[p]
      BY <2>3, <2>5
    <3> HIDE DEF Bad
    <3>a. f[p] \in Nat /\ f[x] \in Nat /\ \A q \in s : f[q] \in Nat
      BY <1>1, <2>2, <3>1
    <3>2. f[p] <= f[x] => \A q \in s : f[q] <= f[x]
      BY <3>1, <3>a
    <3>3. f[x] <= f[p] => \A q \in s : f[q] <= f[p]
      BY <3>1, <3>a
    <3>4. f[p] <= f[x] \/ f[x] <= f[p]
      BY <3>a
    <3> USE DEF Bad
    <3> QED
      BY <2>2, <3>2, <3>3, <3>4
  <2> QED
    BY <2>4, <2>5
<1>3. D \notin Bad /\ D # {}
  BY <1>1, <1>2
<1>4. PICK p \in D : \A q \in D : f[q] <= f[p]
  BY <1>3
<1>5. f[p] \in Range(f) /\ \A m \in Range(f) : m <= f[p]
  BY <1>1, <1>4 DEF Range
<1>6. LargestLimit \in Range(f) /\ \A m \in Range(f) : m <= LargestLimit
  BY <1>5 DEF LargestLimit, f
<1> QED
  BY <1>1, <1>6 DEF Range, D, f

-----------------------------------------------------------------------------
LEMMA InitAccounts == Init => AInv
<1> SUFFICES ASSUME Init PROVE AInv
  OBVIOUS
<1>0. IInv
  BY InitInv
<1> USE DEF Init
<1>1. /\ day.total \in Nat /\ day.available \in Nat /\ Static \in Nat
      /\ LargestLimit \in Nat
  BY <1>0, DayFacts, LargestFacts, OrderAssumption DEF IInv
<1>2. \A s \in Sides : Sent(s) = {}
  BY DEF Sent
<1>3. \A s \in Sides : DueSum(s) = 0 /\ ToldSum(s) = 0 /\ ViewSum(s) = 0 /\ CountedSum(s) = 0
  BY <1>2, SumEmpty DEF DueSum, ToldSum, ViewSum, CountedSum
<1>4. ShapeInv
  BY DEF ShapeInv, ShapeOf, Unsent
<1>5. KnownInv
  BY DEF KnownInv
<1>6. TurnInv
  BY DEF TurnInv, SigIdle, CbIdle, NoQuery
<1>7. ReservedInv
  BY <1>3 DEF ReservedInv, Reserving, Releasing, SigIdle, CbIdle
<1>8. PositionInv
  BY <1>1, <1>3 DEF PositionInv, Start, Sellable, Smaller, Sides
<1>9. LimitInv
  <2>1. Start \in Int /\ Sellable \in Nat
    BY <1>1 DEF Start, Sellable, Smaller
  <2>2. /\ ViewSum("sell") <= Sellable
        /\ Start + ToldSum("buy") - ViewSum("sell") >= Smaller(Start, -LargestLimit)
        /\ Start + ViewSum("buy") - ToldSum("sell")
             <= Larger(Start, Smaller(day.available, LargestLimit))
    BY <1>1, <1>3, <2>1 DEF Smaller, Larger, Sides
  <2> QED
    BY <2>2 DEF LimitInv
<1> QED
  BY <1>4, <1>5, <1>6, <1>7, <1>8, <1>9 DEF AInv

(* What the runs check follows.                                            *)
LEMMA AccountsKept ==
  ASSUME IInv, AInv PROVE PendingIsOutstanding /\ CapacityRespected
<1>1. PendingIsOutstanding
  <2> SUFFICES ASSUME ~day.threaded, resends = 0, OneKeyEach, AtRest, NEW s \in Sides
               PROVE  pending[s] = DueSum(s)
    BY DEF PendingIsOutstanding, DueSum
  <2>1. Reserving(s) = 0 /\ Releasing(s) = 0
    BY DEF AtRest, Reserving, Releasing
  <2>2. pending[s] + Reserving(s) = DueSum(s) + Releasing(s)
    BY DEF AInv, ReservedInv, Quiet
  <2>3. pending[s] \in Nat /\ DueSum(s) \in Nat
    BY SideFacts DEF AInv, IInv, TypeOK
  <2> QED
    BY <2>1, <2>2, <2>3
<1>2. CapacityRespected
  <2> SUFFICES ASSUME ~day.threaded, resends = 0, queries = 0, OneKeyEach
               PROVE  /\ Start + Filled("buy") - Exposed("sell")
                           >= Smaller(Start, -LargestLimit)
                      /\ Start + Exposed("buy") - Filled("sell")
                           <= Larger(Start, Smaller(day.available, LargestLimit))
                      /\ ~(\E a, b \in 1..sent : OppositeSides(a, b))
    BY DEF CapacityRespected, Start, OppositeSides
  <2>1. /\ Start + ToldSum("buy") - ViewSum("sell") >= Smaller(Start, -LargestLimit)
        /\ Start + ViewSum("buy") - ToldSum("sell")
             <= Larger(Start, Smaller(day.available, LargestLimit))
        /\ \A a, b \in 1..sent : ~OppositeSides(a, b)
    BY DEF AInv, LimitInv, Quiet
  <2>2. \A s \in Sides :
          /\ ToldSum(s) \in Nat /\ ViewSum(s) \in Nat /\ Exposed(s) \in Nat
          /\ Filled(s) \in Nat /\ Exposed(s) <= ViewSum(s) /\ ToldSum(s) <= Filled(s)
    BY SideFacts DEF AInv
  <2>3. "buy" \in Sides /\ "sell" \in Sides
    BY DEF Sides
  <2>4. /\ Start \in Int /\ Smaller(Start, -LargestLimit) \in Int
        /\ Larger(Start, Smaller(day.available, LargestLimit)) \in Int
    <3>1. /\ day.total \in Nat /\ day.available \in Nat /\ Static \in Nat
          /\ LargestLimit \in Nat
      BY DayFacts, LargestFacts, OrderAssumption DEF IInv
    <3> QED
      BY <3>1 DEF Start, Smaller, Larger
  <2> HIDE DEF Start
  <2>5. Start + Filled("buy") - Exposed("sell") >= Smaller(Start, -LargestLimit)
    BY <2>1, <2>2, <2>3, <2>4
  <2>6. Start + Exposed("buy") - Filled("sell")
          <= Larger(Start, Smaller(day.available, LargestLimit))
    BY <2>1, <2>2, <2>3, <2>4
  <2> QED
    BY <2>1, <2>5, <2>6
<1> QED
  BY <1>1, <1>2

-----------------------------------------------------------------------------
(* The broker: what it does the strategy does not know of yet.             *)

Kept(p) ==
  /\ order'[p].side = order[p].side /\ order'[p].qty = order[p].qty
  /\ Reported(p)' = Reported(p) /\ (ToldEnded(p)' <=> ToldEnded(p))
  /\ Working(p)' => Working(p)

LEMMA SumsKept ==
  ASSUME IInv, sent' = sent, \A p \in Orders : Kept(p), NEW s \in Sides
  PROVE  /\ Sent(s)' = Sent(s) /\ DueSum(s)' = DueSum(s) /\ ToldSum(s)' = ToldSum(s)
         /\ ViewSum(s)' = ViewSum(s)
         /\ counted' = counted => CountedSum(s)' = CountedSum(s)
<1>1. 1..sent \subseteq Orders
  BY OrderAssumption DEF IInv, TypeOK, Orders
<1>2. Sent(s)' = Sent(s)
  BY <1>1 DEF Sent, Kept
<1>3. \A p \in Orders : Outstanding(p)' = Outstanding(p)
  BY DEF Kept, Outstanding
<1>4. \A p \in Orders : View(p)' = View(p)
  BY DEF Kept, View
<1>5. [o \in Orders |-> Outstanding(o)'] = [o \in Orders |-> Outstanding(o)]
  BY <1>3
<1>6. [o \in Orders |-> View(o)'] = [o \in Orders |-> View(o)]
  BY <1>4
<1>7. [o \in Orders |-> Reported(o)'] = [o \in Orders |-> Reported(o)]
  BY DEF Kept
<1>8. DueSum(s)' = DueSum(s)
  BY <1>2, <1>5 DEF DueSum
<1>9. ViewSum(s)' = ViewSum(s)
  BY <1>2, <1>6 DEF ViewSum
<1>10. ToldSum(s)' = ToldSum(s)
  BY <1>2, <1>7 DEF ToldSum
<1> QED
  BY <1>2, <1>8, <1>9, <1>10 DEF CountedSum

LEMMA AccountsUntouched ==
  ASSUME IInv, AInv, IInv', ShapeInv', \A p \in Orders : Kept(p),
         UNCHANGED <<day, account, tables, sig, cb, sent, resends, counted>>,
         (queries' = queries /\ query' = query) \/ queries' > 0
  PROVE  AInv'
<1>0. /\ day' = day /\ pi' = pi /\ shortable' = shortable /\ pending' = pending
      /\ traded' = traded /\ leaves' = leaves /\ over' = over /\ sig' = sig /\ cb' = cb
      /\ sent' = sent /\ resends' = resends /\ counted' = counted
  BY DEF account, tables
<1>1. \A s \in Sides : /\ Sent(s)' = Sent(s) /\ DueSum(s)' = DueSum(s)
                       /\ ToldSum(s)' = ToldSum(s) /\ ViewSum(s)' = ViewSum(s)
                       /\ CountedSum(s)' = CountedSum(s)
  BY <1>0, SumsKept
<1>2. Quiet' <=> Quiet
  BY <1>0 DEF Quiet, OneKeyEach, TwoKeys, Met
<1>3. KnownInv'
  <2>1. \A k \in Keys : k[1] \in Orders
    BY KeyOf
  <2> QED
    BY <1>0, <1>2, <2>1 DEF AInv, KnownInv, Kept
<1>4. TurnInv'
  <2>1. /\ cb.at # "idle" => cb.order \in Orders
        /\ sig.at # "idle" => sig.order \in Orders
    BY DEF IInv, TypeOK
  <2>2. queries' = 0 => query'.at = "none"
    BY DEF AInv, TurnInv
  <2> QED
    BY <1>0, <2>1, <2>2 DEF AInv, TurnInv, Kept
<1>5. ReservedInv'
  <2>1. \A s \in Sides : Reserving(s)' = Reserving(s) /\ Releasing(s)' = Releasing(s)
    <3>1. /\ cb.at # "idle" => cb.order \in Orders
          /\ sig.at # "idle" => sig.order \in Orders
      BY DEF IInv, TypeOK
    <3> QED
      BY <1>0, <3>1 DEF Reserving, Releasing, Kept
  <2> QED
    BY <1>0, <1>1, <1>2, <2>1 DEF AInv, ReservedInv
<1>6. Start' = Start /\ Sellable' = Sellable /\ LargestLimit' = LargestLimit
  BY <1>0 DEF Start, Sellable, LargestLimit
<1>7. "buy" \in Sides /\ "sell" \in Sides
  BY DEF Sides
<1>8. queries' = 0 => queries = 0
  OBVIOUS
<1>9. PositionInv'
  BY <1>0, <1>1, <1>2, <1>6, <1>7, <1>8 DEF AInv, PositionInv
<1>10. LimitInv'
  <2>1. ASSUME Quiet, queries = 0 , NEW a \in 1..sent, NEW b \in 1..sent
        PROVE  ~OppositeSides(a, b)'
    <3>1. a \in Orders /\ b \in Orders
      BY OrderAssumption DEF IInv, TypeOK, Orders
    <3>2. ~OppositeSides(a, b)
      BY <2>1 DEF AInv, LimitInv
    <3> QED
      BY <3>1, <3>2 DEF OppositeSides, Kept
  <2> HIDE DEF OppositeSides
  <2> QED
    BY <1>0, <1>1, <1>2, <1>6, <1>7, <1>8, <2>1 DEF AInv, LimitInv
<1> QED
  BY <1>3, <1>4, <1>5, <1>9, <1>10 DEF AInv

(* A report is added which the strategy has not got.                       *)
LEMMA ReportAdded ==
  ASSUME IInv, ShapeInv, NEW o \in Orders, NEW n \in OrderType, NEW r \in ReportType,
         order' = [order EXCEPT ![o] = n],
         rep' = [rep EXCEPT ![o] = Append(@, r)], got' = got,
         Working(o), n.side = order[o].side, n.qty = order[o].qty,
         n.cum <= n.qty, r.cum = n.cum,
         IF r.status \in Ended THEN n.state = "ended" /\ r.leaves = 0
                               ELSE r.leaves = n.qty - n.cum
  PROVE  ShapeInv' /\ \A p \in Orders : Kept(p)
<1>1. /\ order \in [Orders -> OrderType] /\ rep \in [Orders -> Seq(ReportType)]
      /\ got \in [Orders -> Nat]
  BY DEF IInv, TypeOK, OrderType
<1>2. /\ rep[o] \in Seq(ReportType) /\ Len(rep[o]) \in Nat
      /\ Len(Append(rep[o], r)) = Len(rep[o]) + 1
      /\ \A i \in 1..Len(rep[o]) : Append(rep[o], r)[i] = rep[o][i]
      /\ Append(rep[o], r)[Len(rep[o]) + 1] = r
  <2>1. rep[o] \in Seq(ReportType)
    BY <1>1
  <2> QED
    BY <2>1
<1>3. /\ rep'[o] = Append(rep[o], r) /\ order'[o] = n
      /\ \A p \in Orders : p # o => rep'[p] = rep[p] /\ order'[p] = order[p]
  BY <1>1
<1>4. \A i \in 1..Len(rep[o]) : /\ rep[o][i].status \notin Ended
                                /\ rep[o][i].leaves = order[o].qty - rep[o][i].cum
  BY DEF ShapeInv, ShapeOf, Working
<1>5. ShapeOf(o)'
  <2>1. ASSUME NEW i \in 1..(Len(rep[o]) + 1)
        PROVE  IF rep'[o][i].status \in Ended
               THEN /\ i = Len(rep[o]) + 1 /\ n.state = "ended"
                    /\ rep'[o][i].cum = n.cum /\ rep'[o][i].leaves = 0
               ELSE rep'[o][i].leaves = n.qty - rep'[o][i].cum
    <3>1. CASE i \in 1..Len(rep[o])
      BY <1>2, <1>3, <1>4, <3>1
    <3>2. CASE i = Len(rep[o]) + 1
      BY <1>2, <1>3, <3>2
    <3> QED
      BY <1>2, <3>1, <3>2
  <2> QED
    BY <1>2, <1>3, <2>1 DEF ShapeOf
<1>6. ShapeInv'
  <2> SUFFICES ASSUME NEW p \in Orders, p # o PROVE ShapeOf(p)'
    BY <1>5 DEF ShapeInv
  <2> QED
    BY <1>3 DEF ShapeInv, ShapeOf
<1>7. ASSUME NEW p \in Orders PROVE Kept(p)
  <2>1. /\ got[p] \in Nat /\ got[p] <= Len(rep[p])
    BY <1>1 DEF IInv, ReportInv, ReportsOf
  <2>2. \A i \in 1..got[p] : rep'[p][i] = rep[p][i]
    <3>1. CASE p = o
      <4>1. \A i \in 1..got[p] : i \in 1..Len(rep[o])
        BY <1>2, <2>1, <3>1
      <4> QED
        BY <1>2, <1>3, <3>1, <4>1
    <3>2. CASE p # o
      BY <1>3, <3>2
    <3> QED
      BY <3>1, <3>2
  <2>3. got[p] # 0 => got[p] \in 1..got[p]
    BY <2>1
  <2>4. Reported(p)' = Reported(p)
    <3>1. got[p] # 0 => rep'[p][got[p]] = rep[p][got[p]]
      BY <2>2, <2>3
    <3>2. got'[p] = got[p]
      OBVIOUS
    <3>3. CASE got[p] = 0
      BY <3>2, <3>3 DEF Reported
    <3>4. CASE got[p] # 0
      <4>1. rep'[p][got'[p]].cum = rep[p][got[p]].cum /\ got'[p] # 0
        BY <3>1, <3>2, <3>4
      <4> QED
        BY <3>4, <4>1 DEF Reported
    <3> QED
      BY <3>3, <3>4
  <2>5. ToldEnded(p)' <=> ToldEnded(p)
    BY <2>2 DEF ToldEnded
  <2>6. order'[p].side = order[p].side /\ order'[p].qty = order[p].qty
    BY <1>3
  <2>7. Working(p)' => Working(p)
    BY <1>3 DEF Working
  <2> QED
    BY <2>4, <2>5, <2>6, <2>7 DEF Kept
<1> QED
  BY <1>6, <1>7

(* No step of the broker is seen before its report is returned.            *)
LEMMA BrokerAccounts ==
  ASSUME IInv, AInv, IInv', BrokerStep, NEW o \in Orders, NEW n \in OrderType,
         NEW r \in ReportType,
         order' = [order EXCEPT ![o] = n], rep' = [rep EXCEPT ![o] = Append(@, r)],
         Working(o), n.side = order[o].side, n.qty = order[o].qty,
         n.cum <= n.qty, r.cum = n.cum,
         IF r.status \in Ended THEN n.state = "ended" /\ r.leaves = 0
                               ELSE r.leaves = n.qty - n.cum
  PROVE  AInv'
<1>1. ShapeInv /\ got' = got
  BY DEF AInv, BrokerStep
<1>2. ShapeInv' /\ \A p \in Orders : Kept(p)
  BY <1>1, ReportAdded
<1> QED
  BY <1>2, AccountsUntouched DEF BrokerStep

LEMMA AcceptAccounts ==
  ASSUME IInv, AInv, IInv', NEW o \in Orders, Accept(o) PROVE AInv'
<1> DEFINE n == [order[o] EXCEPT !.state = "open"]
           r == [status |-> "new", cum |-> 0, leaves |-> order[o].qty, last |-> 0]
<1>1. order[o] \in OrderType /\ OrderOf(o) /\ order[o].state = "sent" /\ Working(o)
  BY OrderFacts DEF Accept, Working
<1>2. /\ n \in OrderType /\ n.side = order[o].side /\ n.qty = order[o].qty
      /\ n.cum = 0 /\ order[o].qty \in Nat
  BY <1>1 DEF OrderOf, OrderType
<1>3. /\ r \in ReportType /\ r.cum = 0 /\ r.status \notin Ended /\ r.leaves = order[o].qty
  BY <1>2 DEF ReportType, Ended
<1>4. /\ order' = [order EXCEPT ![o] = n] /\ rep' = [rep EXCEPT ![o] = Append(@, r)]
      /\ BrokerStep
  BY DEF Accept, Report
<1> HIDE DEF n, r
<1>5. n.cum <= n.qty /\ r.leaves = n.qty - n.cum /\ r.cum = n.cum
  BY <1>2, <1>3
<1> QED
  BY <1>1, <1>2, <1>3, <1>4, <1>5, BrokerAccounts

LEMMA RejectAccounts ==
  ASSUME IInv, AInv, IInv', NEW o \in Orders, Reject(o) PROVE AInv'
<1> DEFINE n == [order[o] EXCEPT !.state = "ended"]
           r == [status |-> "error", cum |-> 0, leaves |-> 0, last |-> 0]
<1>1. order[o] \in OrderType /\ OrderOf(o) /\ order[o].state = "sent" /\ Working(o)
  BY OrderFacts DEF Reject, Working
<1>2. /\ n \in OrderType /\ n.side = order[o].side /\ n.qty = order[o].qty
      /\ n.cum = 0 /\ order[o].qty \in Nat /\ n.state = "ended"
  BY <1>1 DEF OrderOf, OrderType
<1>3. /\ r \in ReportType /\ r.cum = 0 /\ r.leaves = 0
  BY <1>2 DEF ReportType
<1>4. /\ order' = [order EXCEPT ![o] = n] /\ rep' = [rep EXCEPT ![o] = Append(@, r)]
      /\ BrokerStep
  BY DEF Reject, Report
<1>6. r.status \in Ended
  BY DEF Ended
<1> HIDE DEF n, r
<1>5. n.cum <= n.qty /\ r.cum = n.cum
  BY <1>2, <1>3
<1> QED
  BY <1>1, <1>2, <1>3, <1>4, <1>5, <1>6, BrokerAccounts

LEMMA WithdrawAccounts ==
  ASSUME IInv, AInv, IInv', NEW o \in Orders, Withdraw(o) PROVE AInv'
<1> DEFINE n == [order[o] EXCEPT !.state = "ended"]
           r == [status |-> "canceled", cum |-> order[o].cum, leaves |-> 0, last |-> 0]
<1>1. order[o] \in OrderType /\ order[o].state = "open" /\ Working(o)
      /\ order[o].cum <= order[o].qty
  BY OrderFacts DEF Withdraw, Working, AInv, ShapeInv, ShapeOf
<1>2. /\ n \in OrderType /\ n.side = order[o].side /\ n.qty = order[o].qty
      /\ n.cum = order[o].cum /\ order[o].cum \in Nat /\ n.state = "ended"
  BY <1>1 DEF OrderType
<1>3. /\ r \in ReportType /\ r.cum = order[o].cum /\ r.leaves = 0
  BY <1>2 DEF ReportType
<1>4. /\ order' = [order EXCEPT ![o] = n] /\ rep' = [rep EXCEPT ![o] = Append(@, r)]
      /\ BrokerStep
  BY DEF Withdraw, Report
<1>6. r.status \in Ended
  BY DEF Ended
<1> HIDE DEF n, r
<1>5. n.cum <= n.qty /\ r.cum = n.cum
  BY <1>1, <1>2, <1>3
<1> QED
  BY <1>1, <1>2, <1>3, <1>4, <1>5, <1>6, BrokerAccounts

LEMMA FillAccounts ==
  ASSUME IInv, AInv, IInv', NEW o \in Orders, Fill(o) PROVE AInv'
<1> DEFINE cum == order[o].cum + 1
           left == order[o].qty - cum
           n == [order[o] EXCEPT !.cum = cum,
                                 !.state = IF left = 0 THEN "ended" ELSE "open"]
           r == [status |-> IF left = 0 THEN "filled" ELSE "part", cum |-> cum,
                 leaves |-> left, last |-> 1]
<1>1. order[o] \in OrderType /\ OrderOf(o) /\ order[o].state = "open" /\ Working(o)
  BY OrderFacts DEF Fill, Working
<1>2. cum \in Nat /\ left \in Nat /\ order[o].qty \in Nat /\ cum <= order[o].qty
  BY <1>1 DEF OrderOf, OrderType
<1>3. /\ order' = [order EXCEPT ![o] = n] /\ rep' = [rep EXCEPT ![o] = Append(@, r)]
      /\ BrokerStep
  BY DEF Fill, Report
<1>4. left = order[o].qty - cum
  OBVIOUS
<1> HIDE DEF left, cum
<1>5. /\ n \in OrderType /\ n.state = (IF left = 0 THEN "ended" ELSE "open")
      /\ n.cum = cum /\ n.qty = order[o].qty /\ n.side = order[o].side
  BY <1>1, <1>2 DEF OrderType
<1>6. /\ r \in ReportType /\ r.cum = cum /\ r.leaves = left
      /\ r.status = IF left = 0 THEN "filled" ELSE "part"
  BY <1>2 DEF ReportType
<1> HIDE DEF n, r
<1>7. IF r.status \in Ended THEN n.state = "ended" /\ r.leaves = 0
                            ELSE r.leaves = n.qty - n.cum
  BY <1>2, <1>4, <1>5, <1>6 DEF Ended
<1>8. n.cum <= n.qty /\ r.cum = n.cum
  BY <1>2, <1>5, <1>6
<1> QED
  BY <1>1, <1>3, <1>5, <1>6, <1>7, <1>8, BrokerAccounts

(* Reports, and what has been returned of them, stay; so does an order,    *)
(* which may no longer be working.                                         *)
LEMMA OrdersKept ==
  ASSUME IInv, ShapeInv, UNCHANGED <<rep, got>>,
         \A p \in Orders :
           \/ order'[p] = order[p]
           \/ /\ order'[p].side = order[p].side /\ order'[p].qty = order[p].qty
              /\ order'[p].cum = order[p].cum
              /\ order[p].state = "sent" /\ order'[p].state = "refused"
  PROVE  ShapeInv' /\ \A p \in Orders : Kept(p)
<1>1. ASSUME NEW p \in Orders PROVE ShapeOf(p)' /\ Kept(p)
  <2>1. ShapeOf(p)
    BY DEF ShapeInv
  <2>2. ShapeOf(p)'
    <3>1. CASE order'[p] = order[p]
      BY <2>1, <3>1 DEF ShapeOf
    <3>2. CASE /\ order'[p].side = order[p].side /\ order'[p].qty = order[p].qty
               /\ order'[p].cum = order[p].cum
               /\ order[p].state = "sent" /\ order'[p].state = "refused"
      BY <2>1, <3>2 DEF ShapeOf
    <3> QED
      BY <3>1, <3>2
  <2>3. Reported(p)' = Reported(p) /\ (ToldEnded(p)' <=> ToldEnded(p))
    BY DEF Reported, ToldEnded
  <2>4. Working(p)' => Working(p)
    BY DEF Working
  <2> QED
    BY <2>2, <2>3, <2>4 DEF Kept
<1> QED
  BY <1>1 DEF ShapeInv

LEMMA RespondAccounts ==
  ASSUME IInv, AInv, IInv', NEW o \in Orders, Respond(o) PROVE AInv'
<1>1. order \in [Orders -> OrderType] /\ ShapeInv
  BY DEF IInv, TypeOK, OrderType, AInv
<1>2. \A p \in Orders :
        \/ order'[p] = order[p]
        \/ /\ order'[p].side = order[p].side /\ order'[p].qty = order[p].qty
           /\ order'[p].cum = order[p].cum
           /\ order[p].state = "sent" /\ order'[p].state = "refused"
  <2>1. CASE order' = order
    BY <2>1
  <2>2. CASE order[o].state = "sent" /\ order' = [order EXCEPT ![o].state = "refused"]
    <3>1. /\ order'[o].side = order[o].side /\ order'[o].qty = order[o].qty
          /\ order'[o].cum = order[o].cum /\ order'[o].state = "refused"
      BY <1>1, <2>2 DEF OrderType
    <3>2. \A p \in Orders : p # o => order'[p] = order[p]
      BY <1>1, <2>2
    <3> QED
      BY <2>2, <3>1, <3>2
  <2> QED
    BY <2>1, <2>2 DEF Respond
<1>3. ShapeInv' /\ \A p \in Orders : Kept(p)
  BY <1>1, <1>2, OrdersKept DEF Respond, BrokerStep
<1> QED
  BY <1>3, AccountsUntouched DEF Respond, BrokerStep

LEMMA CancelFiresAccounts ==
  ASSUME IInv, AInv, IInv', NEW o \in Orders, CancelFires(o) PROVE AInv'
<1>1. ShapeInv' /\ \A p \in Orders : Kept(p)
  BY OrdersKept DEF AInv, CancelFires, broker, gateway
<1> QED
  BY <1>1, AccountsUntouched DEF CancelFires, broker, gateway

LEMMA QueryPositionsAccounts ==
  ASSUME IInv, AInv, IInv', QueryPositions PROVE AInv'
<1>1. ShapeInv' /\ \A p \in Orders : Kept(p)
  BY OrdersKept DEF AInv, QueryPositions, gateway
<1>2. queries' > 0
  BY DEF IInv, TypeOK, QueryPositions
<1> QED
  BY <1>1, <1>2, AccountsUntouched DEF QueryPositions, gateway

-----------------------------------------------------------------------------
(* A new order.                                                            *)

LEMMA SumGrow ==
  ASSUME NEW S, IsFiniteSet(S), NEW x, x \notin S, NEW f, NEW g,
         \A y \in S : f[y] \in Int /\ g[y] = f[y], g[x] \in Int
  PROVE  SumOver(g, S \cup {x}) = g[x] + SumOver(f, S)
<1>1. SumOver(g, S \cup {x}) = g[x] + SumOver(g, S)
  <2>1. \A y \in S \cup {x} : g[y] \in Int
    OBVIOUS
  <2> QED
    BY <2>1, SumAdd
<1>2. SumOver(g, S) = SumOver(f, S)
  BY SumAgree
<1> QED
  BY <1>1, <1>2

(* Between two returns pi has been moved by what was reported.             *)
LEMMA CountedAtRest ==
  ASSUME IInv, OneKeyEach, cb.at = "idle", NEW s \in Sides
  PROVE  CountedSum(s) = ToldSum(s)
<1>1. IsFiniteSet(Sent(s)) /\ Sent(s) \subseteq Orders
  BY SentFacts
<1>2. \A o \in Sent(s) : counted[o] = [p \in Orders |-> Reported(p)][o]
  <2> SUFFICES ASSUME NEW o \in Sent(s) PROVE counted[o] = Reported(o)
    BY <1>1
  <2>1. o \in Orders /\ Unstored(o) = 0
    BY <1>1 DEF Unstored
  <2>2. counted[o] + Unstored(o) = Reported(o)
    BY <2>1, FillsCounted DEF FillsCountedOnce, OneKeyEach
  <2>3. counted[o] \in Nat
    BY <2>1 DEF IInv, TypeOK
  <2> QED
    BY <2>1, <2>2, <2>3
<1> QED
  BY <1>1, <1>2, SumAgree DEF CountedSum, ToldSum

(* The capacity is one of a limit of the day, and the order keeps to it.   *)
LEMMA SubmitFacts ==
  ASSUME IInv, NEW s \in Sides, Submit(s)
  PROVE  /\ sent \in Nat /\ sent + 1 \in Orders /\ sent' = sent + 1
         /\ \E q \in Nat, limit \in Nat :
              /\ q > 0 /\ q <= Capacity(s, limit) /\ limit <= LargestLimit
              /\ order' = [order EXCEPT ![sent + 1] =
                   [side |-> s, qty |-> q, cum |-> 0, state |-> "sent"]]
<1>1. /\ day.limits \in Seq(Nat) /\ Len(day.limits) \in Nat /\ day.lots \in Nat
      /\ phase \in 1..Len(day.limits) /\ day.orders \in 0..MaxOrders
      /\ sent \in 0..MaxOrders /\ MaxOrders \in Nat
  BY DayFacts, OrderAssumption DEF IInv, TypeOK
<1>2. sent \in Nat /\ sent + 1 \in Orders /\ sent' = sent + 1
  <2>1. sent < day.orders /\ sent' = sent + 1
    BY DEF Submit
  <2> QED
    BY <1>1, <2>1 DEF Orders
<1>3. PICK p \in phase..Len(day.limits) :
        \E q \in 1..Smaller(day.lots, Capacity(s, day.limits[p])) :
          order' = [order EXCEPT ![sent + 1] =
                      [side |-> s, qty |-> q, cum |-> 0, state |-> "sent"]]
  BY DEF Submit
<1>4. PICK q \in 1..Smaller(day.lots, Capacity(s, day.limits[p])) :
        order' = [order EXCEPT ![sent + 1] =
                    [side |-> s, qty |-> q, cum |-> 0, state |-> "sent"]]
  BY <1>3
<1>5. p \in 1..Len(day.limits)
  BY <1>1
<1>6. day.limits[p] \in Nat /\ day.limits[p] <= LargestLimit
  BY <1>5, LargestFacts DEF IInv
<1>7. Capacity(s, day.limits[p]) \in Nat
  BY <1>6, CapacityFacts DEF IInv
<1>8. q \in Nat /\ q > 0 /\ q <= Capacity(s, day.limits[p])
  <2>1. PICK m \in Nat : m = Capacity(s, day.limits[p])
    BY <1>7
  <2>2. Smaller(day.lots, m) \in Nat /\ Smaller(day.lots, m) <= m
    BY <1>1 DEF Smaller
  <2>3. q \in 1..Smaller(day.lots, m)
    BY <2>1
  <2> QED
    BY <2>1, <2>2, <2>3
<1> QED
  BY <1>2, <1>4, <1>6, <1>8

(* The new order is outstanding, and nothing else changes.                 *)
LEMMA SubmitSums ==
  ASSUME IInv, AInv, IInv', NEW s \in Sides, Submit(s), NEW q \in Nat,
         order' = [order EXCEPT ![sent + 1] =
                     [side |-> s, qty |-> q, cum |-> 0, state |-> "sent"]]
  PROVE  /\ ~(sent + 1 \in 1..sent) /\ 1..(sent + 1) = 1..sent \cup {sent + 1}
         /\ \A p \in Orders : p # sent + 1 => order'[p] = order[p]
         /\ rep[sent + 1] = <<>> /\ got[sent + 1] = 0
         /\ order'[sent + 1] = [side |-> s, qty |-> q, cum |-> 0, state |-> "sent"]
         /\ \A t \in Sides :
              LET n == IF t = s THEN q ELSE 0
              IN /\ DueSum(t)' = DueSum(t) + n /\ ViewSum(t)' = ViewSum(t) + n
                 /\ ToldSum(t)' = ToldSum(t)
                 /\ OneKeyEach => CountedSum(t)' = CountedSum(t)
<1>0. PICK x : x = sent + 1
  OBVIOUS
<1>1. sent \in Nat /\ x \in Orders /\ sent' = x
  BY <1>0, SubmitFacts
<1>2. /\ order \in [Orders -> OrderType] /\ rep' = rep /\ got' = got /\ counted' = counted
      /\ OrderOf(x) /\ got[x] \in Nat /\ ReportsOf(x) /\ counted[x] \in Nat
      /\ ShapeInv
  BY <1>1 DEF IInv, AInv, TypeOK, OrderType, OrderInv, ReportInv, Submit, gateway
<1>3. /\ order'[x] = [side |-> s, qty |-> q, cum |-> 0, state |-> "sent"]
      /\ \A p \in Orders : p # x => order'[p] = order[p]
  BY <1>0, <1>1, <1>2
<1>4. x > sent /\ x \notin 1..sent /\ 1..x = 1..sent \cup {x}
  BY <1>0, <1>1
<1>5. rep[x] = <<>> /\ got[x] = 0
  BY <1>2, <1>4 DEF OrderOf, Unsent, ReportsOf
<1>6. Reported(x) = 0 /\ \A p \in Orders : Reported(p)' = Reported(p)
  BY <1>2, <1>5 DEF Reported
<1>7. ~ToldEnded(x) /\ \A p \in Orders : ToldEnded(p)' <=> ToldEnded(p)
  BY <1>2, <1>5 DEF ToldEnded
<1>8. Outstanding(x)' = q /\ View(x)' = q
  <2>1. Reported(x)' = 0 /\ ~ToldEnded(x)' /\ order'[x].qty = q
    BY <1>1, <1>3, <1>6, <1>7
  <2> QED
    BY <2>1 DEF Outstanding, View
<1>9. \A p \in Orders : p # x => Outstanding(p)' = Outstanding(p) /\ View(p)' = View(p)
  BY <1>3, <1>6, <1>7 DEF Outstanding, View
<1>10. ASSUME OneKeyEach PROVE counted[x] = 0
  <2>1. counted[x] + Unstored(x) = 0 /\ Unstored(x) \in Nat
    BY <1>1, <1>6, <1>10, FillsCounted DEF FillsCountedOnce, OneKeyEach, Unstored, IInv, TypeOK
  <2> QED
    BY <1>2, <2>1
<1>11. ASSUME NEW t \in Sides
       PROVE  LET n == IF t = s THEN q ELSE 0
              IN /\ DueSum(t)' = DueSum(t) + n /\ ViewSum(t)' = ViewSum(t) + n
                 /\ ToldSum(t)' = ToldSum(t)
                 /\ OneKeyEach => CountedSum(t)' = CountedSum(t)
  <2>1. PICK due : due = [o \in Orders |-> Outstanding(o)]
    OBVIOUS
  <2>2. PICK dueN : dueN = [o \in Orders |-> Outstanding(o)']
    OBVIOUS
  <2>3. PICK view : view = [o \in Orders |-> View(o)]
    OBVIOUS
  <2>4. PICK viewN : viewN = [o \in Orders |-> View(o)']
    OBVIOUS
  <2>5. PICK told : told = [o \in Orders |-> Reported(o)]
    OBVIOUS
  <2>6. [o \in Orders |-> Reported(o)'] = told
    BY <1>6, <2>5
  <2>7. PICK S : S = Sent(t)
    OBVIOUS
  <2>8. IsFiniteSet(S) /\ S \subseteq Orders /\ x \notin S
    BY <1>4, <2>7, SentFacts DEF Sent
  <2>9. Sent(t)' = IF t = s THEN S \cup {x} ELSE S
    <3>1. 1..sent \subseteq Orders
      BY OrderAssumption DEF IInv, TypeOK, Orders
    <3>2. 1..sent' = 1..sent \cup {x}
      BY <1>1, <1>4
    <3> QED
      BY <1>3, <1>4, <2>7, <3>1, <3>2 DEF Sent
  <2>10. /\ DueSum(t) = SumOver(due, S) /\ DueSum(t)' = SumOver(dueN, Sent(t)')
         /\ ViewSum(t) = SumOver(view, S) /\ ViewSum(t)' = SumOver(viewN, Sent(t)')
         /\ ToldSum(t) = SumOver(told, S) /\ ToldSum(t)' = SumOver(told, Sent(t)')
         /\ CountedSum(t) = SumOver(counted, S)
         /\ CountedSum(t)' = SumOver(counted, Sent(t)')
    BY <1>2, <2>1, <2>2, <2>3, <2>4, <2>5, <2>6, <2>7
       DEF DueSum, ViewSum, ToldSum, CountedSum
  <2>11. \A o \in S : /\ due[o] \in Int /\ dueN[o] = due[o]
                      /\ view[o] \in Int /\ viewN[o] = view[o]
                      /\ told[o] \in Int /\ counted[o] \in Int
    <3> SUFFICES ASSUME NEW o \in S
                 PROVE  /\ due[o] \in Int /\ dueN[o] = due[o]
                        /\ view[o] \in Int /\ viewN[o] = view[o]
                        /\ told[o] \in Int /\ counted[o] \in Int
      OBVIOUS
    <3>1. o \in Orders /\ o # x /\ counted[o] \in Nat
      BY <2>8 DEF IInv, TypeOK
    <3>2. Outstanding(o) \in Nat /\ View(o) \in Nat /\ Reported(o) \in Nat
      BY <1>2, <3>1, ViewFacts
    <3>3. Outstanding(o)' = Outstanding(o) /\ View(o)' = View(o)
      BY <1>9, <3>1
    <3> QED
      BY <2>1, <2>2, <2>3, <2>4, <2>5, <3>1, <3>2, <3>3
  <2>12. /\ dueN[x] = q /\ viewN[x] = q /\ told[x] = 0
         /\ dueN[x] \in Int /\ viewN[x] \in Int /\ told[x] \in Int
    <3>1. dueN[x] = Outstanding(x)' /\ viewN[x] = View(x)' /\ told[x] = Reported(x)
      BY <1>1, <2>2, <2>4, <2>5
    <3> QED
      BY <1>6, <1>8, <3>1
  <2>13. /\ SumOver(due, S) \in Int /\ SumOver(view, S) \in Int
         /\ SumOver(told, S) \in Int /\ SumOver(counted, S) \in Int
    <3>1. SumOver(due, S) \in Int
      BY <2>8, <2>11, SumType
    <3>2. SumOver(view, S) \in Int
      BY <2>8, <2>11, SumType
    <3>3. SumOver(told, S) \in Int
      BY <2>8, <2>11, SumType
    <3>4. SumOver(counted, S) \in Int
      BY <2>8, <2>11, SumType
    <3> QED
      BY <3>1, <3>2, <3>3, <3>4
  <2>14. CASE t = s
    <3>1. SumOver(dueN, S \cup {x}) = dueN[x] + SumOver(due, S)
      BY <2>8, <2>11, <2>12, SumGrow
    <3>2. SumOver(viewN, S \cup {x}) = viewN[x] + SumOver(view, S)
      BY <2>8, <2>11, <2>12, SumGrow
    <3>3. SumOver(told, S \cup {x}) = told[x] + SumOver(told, S)
      BY <2>8, <2>11, <2>12, SumGrow
    <3>4. ASSUME OneKeyEach
          PROVE  SumOver(counted, S \cup {x}) = counted[x] + SumOver(counted, S)
      <4>1. counted[x] \in Int
        BY <1>10, <3>4
      <4> QED
        BY <2>8, <2>11, <4>1, SumGrow
    <3>5. Sent(t)' = S \cup {x}
      BY <2>9, <2>14
    <3>6. /\ DueSum(t)' = DueSum(t) + q /\ ViewSum(t)' = ViewSum(t) + q
          /\ ToldSum(t)' = ToldSum(t)
      BY <2>10, <2>12, <2>13, <3>1, <3>2, <3>3, <3>5
    <3>7. OneKeyEach => CountedSum(t)' = CountedSum(t)
      BY <1>10, <2>10, <2>13, <3>4, <3>5
    <3> QED
      BY <2>14, <3>6, <3>7
  <2>15. CASE t # s
    <3>1. SumOver(dueN, S) = SumOver(due, S)
      BY <2>8, <2>11, SumAgree
    <3>2. SumOver(viewN, S) = SumOver(view, S)
      BY <2>8, <2>11, SumAgree
    <3>3. Sent(t)' = S
      BY <2>9, <2>15
    <3> QED
      BY <2>10, <2>13, <2>15, <3>1, <3>2, <3>3
  <2> QED
    BY <2>14, <2>15
<1> QED
  BY <1>0, <1>3, <1>4, <1>5, <1>11

(* Nothing of the other side is working when an order may be sent.         *)
LEMMA OtherSideRests ==
  ASSUME IInv, AInv, Quiet, sig.at = "idle", cb.at = "idle", NEW s \in Sides, CanSend(s),
         NEW b \in 1..sent, order[b].side # s
  PROVE  ~Working(b)
<1>1. b \in Orders
  BY OrderAssumption DEF IInv, TypeOK, Orders
<1>2. order[b].side \in Sides
  BY <1>1 DEF IInv, TypeOK
<1>3. PICK t \in Sides : t = order[b].side
  BY <1>2
<1>4. pending[t] = 0
  BY <1>3 DEF CanSend, Other, Sides
<1>5. pending[t] + Reserving(t) = DueSum(t) + Releasing(t)
  BY DEF AInv, ReservedInv
<1>6. Reserving(t) = 0 /\ Releasing(t) = 0
  BY DEF Reserving, Releasing
<1>7. DueSum(t) \in Nat /\ \A o \in Sent(t) : Outstanding(o) <= DueSum(t)
  BY SideFacts DEF AInv
<1>8. b \in Sent(t)
  BY <1>3 DEF Sent
<1>9. Outstanding(b) <= 0
  BY <1>4, <1>5, <1>6, <1>7, <1>8
<1> QED
  BY <1>1, <1>9, ViewFacts DEF AInv

LEMMA SubmitAccounts ==
  ASSUME IInv, AInv, IInv', NEW s \in Sides, Submit(s) PROVE AInv'
<1>1. PICK q \in Nat, limit \in Nat :
        /\ q > 0 /\ q <= Capacity(s, limit) /\ limit <= LargestLimit
        /\ order' = [order EXCEPT ![sent + 1] =
             [side |-> s, qty |-> q, cum |-> 0, state |-> "sent"]]
  BY SubmitFacts
<1>2. /\ day' = day /\ pi' = pi /\ shortable' = shortable /\ pending' = pending
      /\ traded' = traded /\ leaves' = leaves /\ over' = over /\ cb' = cb
      /\ rep' = rep /\ got' = got /\ resends' = resends /\ counted' = counted
      /\ queries' = queries /\ query' = query /\ sent' = sent + 1
      /\ sig.at = "idle" /\ (~day.threaded => cb.at = "idle") /\ CanSend(s)
  BY DEF Submit, account, tables, gateway, SignalTurn, IInv, TypeOK
<1>3. sig'.at = "accepted" /\ sig'.order = sent + 1
  BY DEF Submit, IInv, TypeOK
<1>4. /\ ~(sent + 1 \in 1..sent) /\ 1..(sent + 1) = 1..sent \cup {sent + 1}
      /\ \A p \in Orders : p # sent + 1 => order'[p] = order[p]
      /\ rep[sent + 1] = <<>> /\ got[sent + 1] = 0
      /\ order'[sent + 1] = [side |-> s, qty |-> q, cum |-> 0, state |-> "sent"]
      /\ \A t \in Sides :
           LET n == IF t = s THEN q ELSE 0
           IN /\ DueSum(t)' = DueSum(t) + n /\ ViewSum(t)' = ViewSum(t) + n
              /\ ToldSum(t)' = ToldSum(t)
              /\ OneKeyEach => CountedSum(t)' = CountedSum(t)
  BY <1>1, SubmitSums
<1>5. sent \in Nat /\ sent + 1 \in Orders /\ 1..sent \subseteq Orders
  <2>1. sent \in Nat /\ sent + 1 \in Orders
    BY SubmitFacts
  <2>2. 1..sent \subseteq Orders
    BY OrderAssumption DEF IInv, TypeOK, Orders
  <2> QED
    BY <2>1, <2>2
<1>6. Quiet' <=> Quiet
  BY <1>2 DEF Quiet, OneKeyEach, TwoKeys, Met
<1>7. ShapeInv'
  <2> SUFFICES ASSUME NEW p \in Orders PROVE ShapeOf(p)'
    BY DEF ShapeInv
  <2>1. CASE p = sent + 1
    <3>1. /\ order'[p].cum = 0 /\ order'[p].qty = q /\ rep'[p] = <<>>
      BY <1>2, <1>4, <2>1
    <3> QED
      BY <1>1, <3>1 DEF ShapeOf
  <2>2. CASE p # sent + 1
    BY <1>2, <1>4, <2>2 DEF AInv, ShapeInv, ShapeOf
  <2> QED
    BY <2>1, <2>2
<1>8. KnownInv'
  <2>1. \A k \in Keys : over'[k] => ToldEnded(k[1])'
    BY <1>2 DEF AInv, KnownInv, ToldEnded
  <2>2. ASSUME Quiet, NEW k \in Keys, leaves[k] >= 0
        PROVE  leaves[k] = order'[k[1]].qty - traded[k]
    <3>1. k[1] \in Orders /\ k[1] # sent + 1
      BY <1>4, <2>2, KeyOf DEF IInv, KeyInv, Met
    <3> QED
      BY <1>4, <2>2, <3>1 DEF AInv, KnownInv
  <2> QED
    BY <1>2, <1>6, <2>1, <2>2 DEF KnownInv
<1>9. TurnInv'
  <2>1. cb.at # "idle" => cb.order \in 1..(sent + 1)
    BY <1>4 DEF AInv, TurnInv
  <2> QED
    BY <1>2, <1>3, <2>1 DEF AInv, TurnInv
<1>10. ASSUME Quiet
       PROVE  /\ cb.at = "idle" /\ OneKeyEach
              /\ \A t \in Sides : /\ pending[t] = DueSum(t) /\ pending[t] \in Nat
                                  /\ CountedSum(t) = ToldSum(t)
                                  /\ ToldSum(t) \in Nat /\ ViewSum(t) \in Nat
                                  /\ ViewSum(t) = ToldSum(t) + DueSum(t)
                                  /\ CountedSum(t)' = CountedSum(t)
  <2>1. cb.at = "idle" /\ OneKeyEach
    BY <1>2, <1>10 DEF Quiet
  <2>2. ASSUME NEW t \in Sides
        PROVE  pending[t] = DueSum(t) /\ pending[t] \in Nat
    <3>1. Reserving(t) = 0 /\ Releasing(t) = 0
      BY <1>2, <2>1 DEF Reserving, Releasing
    <3>2. pending[t] + Reserving(t) = DueSum(t) + Releasing(t)
      BY <1>10 DEF AInv, ReservedInv
    <3>3. pending[t] \in Nat /\ DueSum(t) \in Nat
      BY SideFacts DEF AInv, IInv, TypeOK
    <3> QED
      BY <3>1, <3>2, <3>3
  <2>3. \A t \in Sides : CountedSum(t) = ToldSum(t)
    BY <2>1, CountedAtRest
  <2>4. \A t \in Sides : /\ ToldSum(t) \in Nat /\ ViewSum(t) \in Nat
                         /\ ViewSum(t) = ToldSum(t) + DueSum(t)
    BY SideFacts DEF AInv
  <2>5. \A t \in Sides : CountedSum(t)' = CountedSum(t)
    BY <1>4, <2>1
  <2> QED
    BY <2>1, <2>2, <2>3, <2>4, <2>5
<1>11. ReservedInv'
  <2> SUFFICES ASSUME Quiet, NEW t \in Sides
               PROVE  pending'[t] + Reserving(t)' = DueSum(t)' + Releasing(t)'
    BY <1>6 DEF ReservedInv
  <2>1. Releasing(t)' = 0
    BY <1>2, <1>10 DEF Releasing
  <2>2. Reserving(t)' = IF t = s THEN q ELSE 0
    <3>1. order'[sig'.order].side = s /\ order'[sig'.order].qty = q /\ sig'.at # "idle"
      BY <1>3, <1>4
    <3> QED
      BY <3>1 DEF Reserving
  <2>3. DueSum(t)' = DueSum(t) + (IF t = s THEN q ELSE 0)
    BY <1>4
  <2>4. pending'[t] = DueSum(t) /\ DueSum(t) \in Nat
    BY <1>2, <1>10
  <2> QED
    BY <1>1, <2>1, <2>2, <2>3, <2>4
<1>12. Start' = Start /\ Sellable' = Sellable /\ LargestLimit' = LargestLimit
  BY <1>2 DEF Start, Sellable, LargestLimit
<1>13. "buy" \in Sides /\ "sell" \in Sides
  BY DEF Sides
<1>14. PositionInv'
  BY <1>2, <1>6, <1>10, <1>12, <1>13 DEF AInv, PositionInv
<1>15. LimitInv'
  <2> SUFFICES ASSUME Quiet, queries = 0
               PROVE  /\ ViewSum("sell")' <= Sellable
                      /\ Start + ToldSum("buy")' - ViewSum("sell")'
                           >= Smaller(Start, -LargestLimit)
                      /\ Start + ViewSum("buy")' - ToldSum("sell")'
                           <= Larger(Start, Smaller(day.available, LargestLimit))
                      /\ \A a, b \in 1..(sent + 1) : ~OppositeSides(a, b)'
    BY <1>2, <1>6, <1>12 DEF LimitInv
  <2>1. /\ ViewSum("sell") <= Sellable
        /\ Start + ToldSum("buy") - ViewSum("sell") >= Smaller(Start, -LargestLimit)
        /\ Start + ViewSum("buy") - ToldSum("sell")
             <= Larger(Start, Smaller(day.available, LargestLimit))
        /\ \A a, b \in 1..sent : ~OppositeSides(a, b)
    BY DEF AInv, LimitInv
  <2>2. /\ Start \in Int /\ Sellable \in Nat /\ Sellable <= day.available
        /\ day.available \in Nat /\ LargestLimit \in Nat
    <3>1. /\ day.total \in Nat /\ day.available \in Nat /\ Static \in Nat
          /\ LargestLimit \in Nat
      BY DayFacts, LargestFacts, OrderAssumption DEF IInv
    <3> QED
      BY <3>1 DEF Start, Sellable, Smaller
  <2>3. /\ pi = Start + ToldSum("buy") - ToldSum("sell")
        /\ shortable = Sellable - ToldSum("sell")
    BY <1>10, <1>13 DEF AInv, PositionInv
  <2>4. /\ ToldSum("buy")' = ToldSum("buy") /\ ToldSum("sell")' = ToldSum("sell")
        /\ ViewSum("buy")' = ViewSum("buy") + (IF s = "buy" THEN q ELSE 0)
        /\ ViewSum("sell")' = ViewSum("sell") + (IF s = "sell" THEN q ELSE 0)
    BY <1>4, <1>13
  <2>5. /\ ToldSum("buy") \in Nat /\ ToldSum("sell") \in Nat
        /\ ViewSum("buy") = ToldSum("buy") + pending["buy"]
        /\ ViewSum("sell") = ToldSum("sell") + pending["sell"]
        /\ pending["buy"] \in Nat /\ pending["sell"] \in Nat
    BY <1>10, <1>13
  <2>6. \A a, b \in 1..(sent + 1) : ~OppositeSides(a, b)'
    <3>1. ASSUME NEW b \in 1..sent, order[b].side # s PROVE ~Working(b)'
      <4>1. ~Working(b)
        BY <1>2, <1>10, <3>1, OtherSideRests
      <4>2. b \in Orders /\ order'[b] = order[b]
        BY <1>4, <1>5
      <4> QED
        BY <4>1, <4>2 DEF Working
    <3>2. \A b \in 1..sent : order'[b] = order[b] /\ (Working(b)' <=> Working(b))
      <4>1. \A b \in 1..sent : order'[b] = order[b]
        BY <1>4, <1>5
      <4> QED
        BY <4>1 DEF Working
    <3>3. order'[sent + 1].side = s
      BY <1>4
    <3>4. \A a, b \in 1..sent : ~(Working(a)' /\ Working(b)' /\ order'[a].side # order'[b].side)
      BY <2>1, <3>2 DEF OppositeSides
    <3>5. \A b \in 1..sent : ~(Working(b)' /\ order'[b].side # s)
      BY <3>1, <3>2
    <3>6. ASSUME NEW a \in 1..(sent + 1), NEW b \in 1..(sent + 1)
          PROVE  ~(Working(a)' /\ Working(b)' /\ order'[a].side # order'[b].side)
      BY <1>4, <3>3, <3>4, <3>5
    <3> QED
      BY <3>6 DEF OppositeSides
  <2> HIDE DEF Start, Sellable
  <2>7. CASE s = "buy"
    <3>1. q <= NotNegative(Smaller(shortable, limit) - pi - pending["buy"])
      BY <1>1, <2>7 DEF Capacity, MaxCanBuy
    <3>2. pi \in Int /\ shortable \in Int
      BY DEF IInv, TypeOK
    <3>3. q <= Smaller(shortable, limit) - pi - pending["buy"]
      BY <1>1, <2>5, <3>1, <3>2 DEF NotNegative, Larger, Smaller
    <3>4. pi + pending["buy"] + q <= shortable /\ pi + pending["buy"] + q <= limit
      BY <1>1, <2>5, <3>2, <3>3 DEF Smaller
    <3>5. Start + ViewSum("buy")' - ToldSum("sell") = pi + pending["buy"] + q
      BY <1>1, <2>2, <2>3, <2>4, <2>5, <2>7
    <3>6. pi + pending["buy"] + q <= Smaller(day.available, LargestLimit)
      BY <1>1, <2>2, <2>3, <2>5, <3>2, <3>4 DEF Smaller
    <3>7. Start + ViewSum("buy")' - ToldSum("sell")
            <= Larger(Start, Smaller(day.available, LargestLimit))
      <4>1. /\ pi + pending["buy"] + q \in Int
            /\ Smaller(day.available, LargestLimit) \in Int
        BY <1>1, <2>2, <2>5, <3>2 DEF Smaller
      <4> QED
        BY <2>2, <3>5, <3>6, <4>1 DEF Larger
    <3>8. ViewSum("sell")' = ViewSum("sell")
      BY <2>4, <2>5, <2>7
    <3> QED
      BY <2>1, <2>4, <2>6, <3>7, <3>8
  <2>8. CASE s = "sell"
    <3>1. q <= NotNegative(Smaller(Smaller(shortable, limit + pi), Static + pi)
                             - pending["sell"])
      BY <1>1, <2>8 DEF Capacity, MaxCanSell
    <3>2. pi \in Int /\ shortable \in Int /\ Static \in Nat
      BY OrderAssumption DEF IInv, TypeOK
    <3>3. pending["sell"] + q <= shortable /\ pending["sell"] + q <= limit + pi
      BY <1>1, <2>5, <3>1, <3>2 DEF NotNegative, Larger, Smaller
    <3>4. ViewSum("sell")' = ToldSum("sell") + pending["sell"] + q
      BY <1>1, <2>4, <2>5, <2>8
    <3>5. ViewSum("sell")' <= Sellable
      BY <1>1, <2>2, <2>3, <2>5, <3>3, <3>4
    <3>6. Start + ToldSum("buy") - ViewSum("sell")' >= -limit
      BY <1>1, <2>2, <2>3, <2>5, <3>2, <3>3, <3>4
    <3>7. Start + ToldSum("buy") - ViewSum("sell")' >= Smaller(Start, -LargestLimit)
      <4>1. Start + ToldSum("buy") - ViewSum("sell")' \in Int
        BY <1>1, <2>2, <2>5, <3>4
      <4> QED
        BY <1>1, <2>2, <3>6, <4>1 DEF Smaller
    <3>8. ViewSum("buy")' = ViewSum("buy")
      BY <2>4, <2>5, <2>8
    <3> QED
      BY <2>1, <2>4, <2>6, <3>5, <3>7, <3>8
  <2> QED
    BY <2>7, <2>8 DEF Sides
<1> QED
  BY <1>7, <1>8, <1>9, <1>11, <1>14, <1>15 DEF AInv

-----------------------------------------------------------------------------
(* The two threads.                                                        *)

(* The steps that only move the account.                                   *)
LEMMA OrdersUntouched ==
  ASSUME IInv, AInv,
         UNCHANGED <<day, traded, leaves, over, sent, order, rep, got, resends, queries>>
  PROVE  /\ ShapeInv' /\ KnownInv' /\ LimitInv' /\ (Quiet' <=> Quiet)
         /\ Start' = Start /\ Sellable' = Sellable
         /\ \A s \in Sides :
              /\ Sent(s)' = Sent(s) /\ DueSum(s)' = DueSum(s) /\ ToldSum(s)' = ToldSum(s)
              /\ ViewSum(s)' = ViewSum(s)
              /\ counted' = counted => CountedSum(s)' = CountedSum(s)
<1>1. ShapeInv' /\ \A p \in Orders : Kept(p)
  BY OrdersKept DEF AInv
<1>2. \A s \in Sides :
        /\ Sent(s)' = Sent(s) /\ DueSum(s)' = DueSum(s) /\ ToldSum(s)' = ToldSum(s)
        /\ ViewSum(s)' = ViewSum(s)
        /\ counted' = counted => CountedSum(s)' = CountedSum(s)
  BY <1>1, SumsKept
<1>3. Quiet' <=> Quiet
  BY DEF Quiet, OneKeyEach, TwoKeys, Met
<1>4. KnownInv'
  BY <1>3 DEF AInv, KnownInv, ToldEnded
<1>5. Start' = Start /\ Sellable' = Sellable /\ LargestLimit' = LargestLimit
  BY DEF Start, Sellable, LargestLimit
<1>6. \A a, b \in 1..sent : OppositeSides(a, b)' <=> OppositeSides(a, b)
  BY DEF OppositeSides, Working
<1>7. "buy" \in Sides /\ "sell" \in Sides
  BY DEF Sides
<1>8. LimitInv'
  BY <1>2, <1>3, <1>5, <1>6, <1>7 DEF AInv, LimitInv
<1> QED
  BY <1>1, <1>2, <1>3, <1>4, <1>5, <1>8

LEMMA SignalStepAccounts == ASSUME IInv, AInv, SignalStep PROVE AInv'
<1> USE DEF SignalStep
<1>1. /\ UNCHANGED <<day, traded, leaves, over, sent, order, rep, got, resends, queries>>
      /\ UNCHANGED <<pi, shortable, cb, query, counted>>
  BY DEF LoadReserve, StoreReserve, account, tables, broker, gateway
<1>2. /\ ShapeInv' /\ KnownInv' /\ LimitInv' /\ (Quiet' <=> Quiet)
      /\ Start' = Start /\ Sellable' = Sellable
      /\ \A s \in Sides : DueSum(s)' = DueSum(s) /\ CountedSum(s)' = CountedSum(s)
  BY <1>1, OrdersUntouched
<1>3. /\ sig \in [at : {"idle", "accepted", "loaded"}, order : Nat, seen : Nat]
      /\ sig.order \in Orders /\ sig.at # "idle"
      /\ order[sig.order].side \in Sides /\ order[sig.order].qty \in Nat
      /\ pending \in [Sides -> Nat]
  BY DEF IInv, TypeOK, LoadReserve, StoreReserve
<1>4. PICK t \in Sides : t = order[sig.order].side
  BY <1>3
<1>5. PICK q \in Nat : q = order[sig.order].qty
  BY <1>3
<1>6. PositionInv'
  BY <1>1, <1>2 DEF AInv, PositionInv, Sides
<1>7. CASE LoadReserve
  <2>1. pending' = pending /\ sig'.at = "loaded" /\ sig'.order = sig.order
        /\ sig'.seen = pending[t]
    BY <1>3, <1>4, <1>7 DEF LoadReserve, account
  <2>2. TurnInv'
    BY <1>1, <1>3, <1>4, <2>1 DEF AInv, TurnInv
  <2>3. \A s \in Sides : Reserving(s)' = Reserving(s) /\ Releasing(s)' = Releasing(s)
    BY <1>1, <1>3, <2>1 DEF Reserving, Releasing
  <2>4. ReservedInv'
    BY <1>2, <2>1, <2>3 DEF AInv, ReservedInv
  <2> QED
    BY <1>2, <1>6, <2>2, <2>4 DEF AInv
<1>8. CASE StoreReserve
  <2>1. /\ pending' = [pending EXCEPT ![t] = sig.seen + q]
        /\ sig' = SigIdle /\ sig.at = "loaded"
    BY <1>4, <1>5, <1>8 DEF StoreReserve
  <2>2. TurnInv'
    BY <1>1, <1>3, <2>1 DEF AInv, TurnInv, SigIdle
  <2>3. ReservedInv'
    <3> SUFFICES ASSUME Quiet, NEW s \in Sides
                 PROVE  pending'[s] + Reserving(s)' = DueSum(s)' + Releasing(s)'
      BY <1>2 DEF ReservedInv
    <3>1. sig.seen = pending[t] /\ cb.at = "idle"
      BY <1>3, <1>4, <2>1 DEF AInv, TurnInv, Quiet
    <3>2. Releasing(s) = 0 /\ Releasing(s)' = 0 /\ Reserving(s)' = 0
      BY <1>1, <2>1, <3>1 DEF Reserving, Releasing, SigIdle
    <3>3. Reserving(s) = IF s = t THEN q ELSE 0
      BY <1>3, <1>4, <1>5 DEF Reserving
    <3>4. pending'[s] = IF s = t THEN pending[s] + q ELSE pending[s]
      BY <1>3, <2>1, <3>1
    <3>5. pending[s] + Reserving(s) = DueSum(s) + Releasing(s)
      BY DEF AInv, ReservedInv
    <3>6. pending[s] \in Nat /\ DueSum(s) \in Nat /\ DueSum(s)' = DueSum(s)
      BY <1>2, <1>3, SideFacts DEF AInv
    <3> QED
      BY <3>2, <3>3, <3>4, <3>5, <3>6
  <2> QED
    BY <1>2, <1>6, <2>2, <2>3 DEF AInv
<1> QED
  BY <1>7, <1>8

LEMMA OnwardRelease ==
  ASSUME NEW c \in CbType
  PROVE  /\ Onward(c).at = "loaded" <=> c.release > 0
         /\ Onward(c).at = "loaded" => /\ Onward(c).release = c.release
                                       /\ Onward(c).seen = c.seen
                                       /\ Onward(c).order = c.order
         /\ Onward(c).at = "released" => Onward(c).release = 0
<1>0. c.release \in Nat
  BY DEF CbType
<1>1. CASE c.release > 0
  <2>1. Onward(c) = [c EXCEPT !.at = "loaded"]
    BY <1>1 DEF Onward
  <2> QED
    BY <1>1, <2>1 DEF CbType
<1>2. CASE ~(c.release > 0)
  <2>1. Onward(c) \in {[c EXCEPT !.at = "released"], [c EXCEPT !.at = "trade"], CbIdle}
    BY <1>2 DEF Onward
  <2>2. Onward(c).at # "loaded"
    BY <2>1 DEF CbType, CbIdle
  <2>3. Onward(c).at = "released" => Onward(c).release = 0
    BY <1>0, <1>2, <2>1 DEF CbType, CbIdle
  <2> QED
    BY <1>2, <2>2, <2>3
<1> QED
  BY <1>1, <1>2

LEMMA StoreReleaseAccounts == ASSUME IInv, AInv, StoreRelease PROVE AInv'
<1>1. /\ UNCHANGED <<day, traded, leaves, over, sent, order, rep, got, resends, queries>>
      /\ UNCHANGED <<pi, shortable, sig, query, counted>> /\ cb.at = "loaded"
  BY DEF StoreRelease, tables, broker, gateway
<1>2. /\ ShapeInv' /\ KnownInv' /\ LimitInv' /\ (Quiet' <=> Quiet)
      /\ Start' = Start /\ Sellable' = Sellable
      /\ \A s \in Sides : DueSum(s)' = DueSum(s) /\ CountedSum(s)' = CountedSum(s)
  BY <1>1, OrdersUntouched
<1>3. /\ cb \in CbType /\ cb.order \in Orders /\ order[cb.order] \in OrderType
      /\ pending \in [Sides -> Nat]
  BY <1>1, CallbackFacts
<1>4. /\ order[cb.order].side \in Sides /\ cb.release \in Nat
  BY <1>3 DEF OrderType, CbType
<1>5. PICK t \in Sides : t = order[cb.order].side
  BY <1>4
<1>6. PICK n \in Nat : n = cb.release
  BY <1>4
<1> DEFINE c == [cb EXCEPT !.release = 0, !.seen = 0]
<1>7. c \in CbType /\ c.order = cb.order /\ c.release = 0
  BY <1>3 DEF CbType
<1>8. cb' = Onward(c) /\ pending' = [pending EXCEPT ![t] = NotNegative(cb.seen - n)]
  BY <1>5, <1>6 DEF StoreRelease
<1> HIDE DEF c
<1>9. /\ cb'.at # "loaded" /\ (cb'.at # "idle" => cb'.order = cb.order)
      /\ cb'.at = "released" => cb'.release = 0
  BY <1>7, <1>8, OnwardFacts, OnwardRelease
<1>10. PositionInv'
  BY <1>1, <1>2 DEF AInv, PositionInv, Sides
<1>11. TurnInv'
  BY <1>1, <1>9 DEF AInv, TurnInv
<1>12. ReservedInv'
  <2> SUFFICES ASSUME Quiet, NEW s \in Sides
               PROVE  pending'[s] + Reserving(s)' = DueSum(s)' + Releasing(s)'
    BY <1>2 DEF ReservedInv
  <2>1. cb.seen = pending[t] /\ sig.at = "idle"
    BY <1>1, <1>5 DEF AInv, TurnInv, Quiet
  <2>2. Releasing(s)' = 0 /\ Reserving(s)' = 0 /\ Reserving(s) = 0
    BY <1>1, <1>9, <2>1 DEF Reserving, Releasing
  <2>3. Releasing(s) = IF s = t THEN n ELSE 0
    BY <1>1, <1>5, <1>6 DEF Releasing
  <2>4. pending[s] + Reserving(s) = DueSum(s) + Releasing(s)
    BY DEF AInv, ReservedInv
  <2>5. pending[s] \in Nat /\ DueSum(s) \in Nat /\ DueSum(s)' = DueSum(s)
    BY <1>2, <1>3, SideFacts DEF AInv
  <2>6. CASE s = t
    <3>1. pending[s] = DueSum(s) + n
      BY <2>2, <2>3, <2>4, <2>5, <2>6
    <3>2. pending'[s] = NotNegative(pending[s] - n)
      BY <1>3, <1>8, <2>1, <2>6
    <3>3. NotNegative(pending[s] - n) = DueSum(s)
      BY <2>5, <3>1 DEF NotNegative, Larger
    <3> QED
      BY <2>2, <2>5, <3>2, <3>3
  <2>7. CASE s # t
    <3>1. pending'[s] = pending[s]
      BY <1>3, <1>8, <2>7
    <3> QED
      BY <2>2, <2>3, <2>4, <2>5, <2>7, <3>1
  <2> QED
    BY <2>6, <2>7
<1> QED
  BY <1>2, <1>10, <1>11, <1>12 DEF AInv

(* What the return at hand has still to count.                             *)
LEMMA CountedAtHand ==
  ASSUME IInv, OneKeyEach, cb.at \in {"loaded", "released"}, cb.order \in 1..sent,
         NEW s \in Sides
  PROVE  /\ CountedSum(s) + (IF order[cb.order].side = s THEN cb.delta ELSE 0) = ToldSum(s)
         /\ \A f : (\A o \in Orders :
                      f[o] = counted[o] + (IF o = cb.order THEN cb.delta ELSE 0))
                   => SumOver(f, Sent(s)) = ToldSum(s)
<1>1. IsFiniteSet(Sent(s)) /\ Sent(s) \subseteq Orders
  BY SentFacts
<1>2. cb.delta \in Nat /\ counted \in [Orders -> Nat] /\ cb.order \in Orders
  BY DEF IInv, TypeOK
<1>3. \A o \in Orders : counted[o] + (IF o = cb.order THEN cb.delta ELSE 0) = Reported(o)
  BY FillsCounted DEF FillsCountedOnce, OneKeyEach, Unstored
<1>4. PICK told : told = [o \in Orders |-> Reported(o)]
  OBVIOUS
<1>5. ToldSum(s) = SumOver(told, Sent(s))
  BY <1>4 DEF ToldSum
<1>6. \A o \in Sent(s) : /\ told[o] \in Int /\ counted[o] \in Int
                         /\ told[o] = counted[o] + (IF o = cb.order THEN cb.delta ELSE 0)
  BY <1>1, <1>2, <1>3, <1>4
<1>7. SumOver(told, Sent(s)) \in Int
  BY <1>1, <1>6, SumType
<1>8. SumOver(counted, Sent(s)) \in Int
  BY <1>1, <1>6, SumType
<1>9. ASSUME order[cb.order].side = s PROVE CountedSum(s) + cb.delta = ToldSum(s)
  <2>1. cb.order \in Sent(s)
    BY <1>9 DEF Sent
  <2>2. \A y \in Sent(s) \ {cb.order} : told[y] = counted[y]
    BY <1>6
  <2>3. SumOver(told, Sent(s))
          = SumOver(counted, Sent(s)) - counted[cb.order] + told[cb.order]
    BY <1>1, <1>6, <2>1, <2>2, SumChange
  <2>4. told[cb.order] = counted[cb.order] + cb.delta /\ counted[cb.order] \in Int
    BY <1>6, <2>1
  <2> QED
    BY <1>2, <1>5, <1>7, <1>8, <1>9, <2>3, <2>4 DEF CountedSum
<1>10. ASSUME order[cb.order].side # s PROVE CountedSum(s) = ToldSum(s)
  <2>1. \A o \in Sent(s) : counted[o] = told[o]
    BY <1>6, <1>10 DEF Sent
  <2>2. SumOver(counted, Sent(s)) = SumOver(told, Sent(s))
    BY <1>1, <2>1, SumAgree
  <2> QED
    BY <1>5, <1>7, <1>10, <2>2 DEF CountedSum
<1>12. CountedSum(s) + (IF order[cb.order].side = s THEN cb.delta ELSE 0) = ToldSum(s)
  BY <1>8, <1>9, <1>10 DEF CountedSum
<1>11. ASSUME NEW f, \A o \in Orders :
                       f[o] = counted[o] + (IF o = cb.order THEN cb.delta ELSE 0)
       PROVE  SumOver(f, Sent(s)) = ToldSum(s)
  <2>1. \A o \in Sent(s) : f[o] = told[o]
    BY <1>1, <1>6, <1>11
  <2> QED
    BY <1>1, <1>5, <2>1, SumAgree
<1> QED
  BY <1>11, <1>12

LEMMA StorePositionAccounts == ASSUME IInv, AInv, StorePosition PROVE AInv'
<1>1. /\ UNCHANGED <<day, traded, leaves, over, sent, order, rep, got, resends, queries>>
      /\ UNCHANGED <<pending, sig, query>> /\ cb.at = "released"
  BY DEF StorePosition, tables, broker, gateway
<1>2. /\ ShapeInv' /\ KnownInv' /\ LimitInv' /\ (Quiet' <=> Quiet)
      /\ Start' = Start /\ Sellable' = Sellable
      /\ \A s \in Sides : DueSum(s)' = DueSum(s) /\ Sent(s)' = Sent(s)
  BY <1>1, OrdersUntouched
<1>3. /\ cb \in CbType /\ cb.order \in Orders /\ order[cb.order] \in OrderType
      /\ pi \in Int /\ shortable \in Int /\ counted \in [Orders -> Nat]
      /\ cb.order \in 1..sent
  BY <1>1, CallbackFacts DEF AInv, TurnInv
<1>4. cb.delta \in Nat /\ order[cb.order].side \in Sides
  BY <1>3 DEF CbType, OrderType
<1> DEFINE c == [cb EXCEPT !.delta = 0]
<1>5. c \in CbType /\ c.order = cb.order /\ c.release = cb.release
  BY <1>3 DEF CbType
<1>6. cb' = Onward(c)
  BY DEF StorePosition
<1> HIDE DEF c
<1>7. (cb'.at # "idle" => cb'.order = cb.order)
  BY <1>5, <1>6, OnwardFacts
<1>8. cb.release = 0
  BY <1>1 DEF AInv, TurnInv
<1>9. cb'.at # "loaded" /\ (cb'.at = "released" => cb'.release = 0)
  BY <1>5, <1>6, <1>8, OnwardRelease
<1>10. TurnInv'
  BY <1>1, <1>3, <1>7, <1>9 DEF AInv, TurnInv
<1>11. ReservedInv'
  <2>1. \A s \in Sides : Reserving(s)' = Reserving(s) /\ Releasing(s)' = Releasing(s)
    BY <1>1, <1>9 DEF Reserving, Releasing
  <2> QED
    BY <1>1, <1>2, <2>1 DEF AInv, ReservedInv
<1>12. PositionInv'
  <2> SUFFICES ASSUME Quiet, queries = 0
               PROVE  /\ pi' = Start + CountedSum("buy")' - CountedSum("sell")'
                      /\ shortable' = Sellable - CountedSum("sell")'
    BY <1>1, <1>2 DEF PositionInv
  <2>1. /\ pi = Start + CountedSum("buy") - CountedSum("sell")
        /\ shortable = Sellable - CountedSum("sell")
    BY DEF AInv, PositionInv
  <2>2. \A s \in Sides :
          CountedSum(s) + (IF order[cb.order].side = s THEN cb.delta ELSE 0) = ToldSum(s)
    BY <1>1, <1>3, CountedAtHand DEF Quiet
  <2>3. \A s \in Sides : CountedSum(s)' = ToldSum(s)
    <3>1. counted' = [counted EXCEPT ![cb.order] = counted[cb.order] + cb.delta]
      BY DEF StorePosition, Traded
    <3>2. \A o \in Orders :
            counted'[o] = counted[o] + (IF o = cb.order THEN cb.delta ELSE 0)
      BY <1>3, <1>4, <3>1
    <3>3. \A s \in Sides : SumOver(counted', Sent(s)) = ToldSum(s)
      BY <1>1, <1>3, <3>2, CountedAtHand DEF Quiet
    <3> QED
      BY <1>2, <3>3 DEF CountedSum
  <2>4. \A s \in Sides : /\ CountedSum(s) \in Nat /\ ToldSum(s) \in Nat
                         /\ ToldSum(s) <= ViewSum(s) /\ ViewSum(s) \in Nat
    <3>1. \A s \in Sides : /\ CountedSum(s) \in Nat /\ ToldSum(s) \in Nat
                           /\ DueSum(s) \in Nat /\ ViewSum(s) \in Nat
                           /\ ViewSum(s) = ToldSum(s) + DueSum(s)
      BY SideFacts DEF AInv
    <3> QED
      BY <3>1
  <2>5. /\ "buy" \in Sides /\ "sell" \in Sides
        /\ order[cb.order].side = "buy" \/ order[cb.order].side = "sell"
    BY <1>4 DEF Sides
  <2>6. Start \in Int /\ Sellable \in Int /\ ViewSum("sell") <= Sellable
    <3>1. day.total \in Nat /\ day.available \in Nat /\ Static \in Nat
      BY DayFacts, OrderAssumption DEF IInv
    <3> QED
      BY <3>1 DEF Start, Sellable, Smaller, AInv, LimitInv
  <2> HIDE DEF Start, Sellable
  <2>7. CASE order[cb.order].side = "buy"
    <3>1. pi' = pi + cb.delta /\ shortable' = shortable
      BY <2>7 DEF StorePosition, Traded
    <3>2. /\ CountedSum("buy") + cb.delta = ToldSum("buy")
          /\ CountedSum("sell") = ToldSum("sell")
      BY <2>2, <2>4, <2>5, <2>7
    <3> QED
      BY <1>4, <2>1, <2>3, <2>4, <2>5, <2>6, <3>1, <3>2
  <2>8. CASE order[cb.order].side = "sell"
    <3>1. pi' = pi - cb.delta /\ shortable' = NotNegative(shortable - cb.delta)
      BY <2>8 DEF StorePosition, Traded
    <3>2. /\ CountedSum("sell") + cb.delta = ToldSum("sell")
          /\ CountedSum("buy") = ToldSum("buy")
      BY <2>2, <2>4, <2>5, <2>8
    <3>3. shortable - cb.delta = Sellable - ToldSum("sell")
      BY <1>4, <2>1, <2>4, <2>5, <2>6, <3>2
    <3>4. Sellable - ToldSum("sell") >= 0
      BY <2>4, <2>5, <2>6
    <3>5. shortable' = Sellable - ToldSum("sell")
      BY <2>4, <2>5, <2>6, <3>1, <3>3, <3>4 DEF NotNegative, Larger
    <3>6. pi' = Start + ToldSum("buy") - ToldSum("sell")
      BY <1>4, <2>1, <2>4, <2>5, <2>6, <3>1, <3>2
    <3> QED
      BY <2>3, <2>5, <3>5, <3>6
  <2> QED
    BY <2>5, <2>7, <2>8
<1> QED
  BY <1>2, <1>10, <1>11, <1>12 DEF AInv

LEMMA OnRtnTradeAccounts == ASSUME IInv, AInv, OnRtnTrade PROVE AInv'
<1>1. /\ UNCHANGED <<day, traded, leaves, over, sent, order, rep, got, resends, queries>>
      /\ UNCHANGED <<pi, shortable, pending, sig, query, counted>>
      /\ cb' = CbIdle /\ cb.at = "trade"
  BY TradeSeen DEF OnRtnTrade, account, tables, broker, gateway
<1>2. /\ ShapeInv' /\ KnownInv' /\ LimitInv' /\ (Quiet' <=> Quiet)
      /\ Start' = Start /\ Sellable' = Sellable
      /\ \A s \in Sides : DueSum(s)' = DueSum(s) /\ CountedSum(s)' = CountedSum(s)
  BY <1>1, OrdersUntouched
<1>3. CbIdle.at = "idle"
  BY DEF CbIdle
<1>4. TurnInv'
  BY <1>1, <1>3 DEF AInv, TurnInv
<1>5. \A s \in Sides : Reserving(s)' = Reserving(s) /\ Releasing(s)' = Releasing(s)
  BY <1>1, <1>3 DEF Reserving, Releasing
<1>6. ReservedInv'
  BY <1>1, <1>2, <1>5 DEF AInv, ReservedInv
<1>7. PositionInv'
  BY <1>1, <1>2 DEF AInv, PositionInv, Sides
<1> QED
  BY <1>2, <1>4, <1>6, <1>7 DEF AInv

LEMMA OnRtnPosOptionAccounts == ASSUME IInv, AInv, OnRtnPosOption PROVE AInv'
<1>1. /\ UNCHANGED <<day, traded, leaves, over, sent, order, rep, got, resends, queries>>
      /\ UNCHANGED <<pending, sig, cb, counted>> /\ query.at = "answered"
      /\ query' = NoQuery
  BY DEF OnRtnPosOption, tables, gateway
<1>2. /\ ShapeInv' /\ KnownInv' /\ LimitInv' /\ (Quiet' <=> Quiet)
      /\ \A s \in Sides : DueSum(s)' = DueSum(s)
  BY <1>1, OrdersUntouched
<1>3. queries # 0 /\ PositionInv'
  BY <1>1 DEF AInv, TurnInv, PositionInv
<1>4. TurnInv'
  BY <1>1 DEF AInv, TurnInv, NoQuery
<1>5. \A s \in Sides : Reserving(s)' = Reserving(s) /\ Releasing(s)' = Releasing(s)
  BY <1>1 DEF Reserving, Releasing
<1>6. ReservedInv'
  BY <1>1, <1>2, <1>5 DEF AInv, ReservedInv
<1> QED
  BY <1>2, <1>3, <1>4, <1>6 DEF AInv

-----------------------------------------------------------------------------
(* A return.                                                               *)

(* What it does to the tables and leaves to do, whatever return it is.     *)
LEMMA ReturnStep ==
  ASSUME IInv, NEW o \in Orders, NEW i \in 1..Len(rep[o]), OnRtnOrder(o, i),
         NEW k, k = <<o, Route(o)>>, NEW r, r = rep[o][i]
  PROVE  \E d \in CbType :
           /\ cb' = Onward(d) /\ d.order = o
           /\ \/ Repeated(k, r) /\ d.release = 0 /\ UNCHANGED tables
              \/ /\ ~Repeated(k, r) /\ d.release = PendingRelease(k, r)
                 /\ d.seen = pending[order[o].side]
                 /\ traded' = [traded EXCEPT ![k] = traded[k] + TradedDelta(k, r)]
                 /\ leaves' = [leaves EXCEPT ![k] =
                                 IF r.status \in Ended THEN -1 ELSE r.leaves]
                 /\ over' = [over EXCEPT ![k] = over[k] \/ r.status \in Ended]
<1> DEFINE h == [cb EXCEPT !.order = o, !.report = i, !.key = Route(o),
                           !.trade = TradeQty(o, r)]
           c == [h EXCEPT !.release = PendingRelease(k, r),
                          !.delta = TradedDelta(k, r),
                          !.seen = pending[order[o].side]]
<1>1. /\ r \in ReportType /\ i \in Nat
      /\ TradedDelta(k, r) \in Nat
      /\ Larger(traded[k], r.cum) = traded[k] + TradedDelta(k, r)
      /\ PendingRelease(k, r) \in Nat /\ TradeQty(o, r) \in Nat
  BY ReturnFacts
<1>2. cb = CbIdle /\ cb \in CbType /\ cb.release = 0
  BY DEF IInv, TypeOK, CallbackInv, CbIdle, CbType, OnRtnOrder, CallbackTurn
<1>3. o \in Nat /\ Route(o) \in {"request", "reference"} /\ pending[order[o].side] \in Nat
  <2>1. pending \in [Sides -> Nat] /\ order[o] \in OrderType
    BY DEF IInv, TypeOK, OrderType
  <2>2. pending[order[o].side] \in Nat
    BY <2>1 DEF OrderType
  <2> QED
    BY <2>2, OrderAssumption DEF Orders, Route
<1>4. h \in CbType /\ h.order = o /\ h.release = 0
  BY <1>1, <1>2, <1>3 DEF CbType
<1>5. \/ Repeated(k, r) /\ cb' = Onward(h) /\ UNCHANGED tables
      \/ /\ ~Repeated(k, r) /\ cb' = Onward(c)
         /\ traded' = [traded EXCEPT ![k] = Larger(@, r.cum)]
         /\ leaves' = [leaves EXCEPT ![k] =
                         IF r.status \in Ended THEN -1 ELSE r.leaves]
         /\ over' = [over EXCEPT ![k] = @ \/ r.status \in Ended]
  BY DEF OnRtnOrder
<1> HIDE DEF h
<1>6. /\ c \in CbType /\ c.order = o /\ c.release = PendingRelease(k, r)
      /\ c.seen = pending[order[o].side]
  BY <1>1, <1>3, <1>4, ZenonT(30) DEF CbType
<1> HIDE DEF c
<1>7. CASE Repeated(k, r) /\ cb' = Onward(h) /\ UNCHANGED tables
  BY <1>4, <1>7
<1>8. CASE /\ ~Repeated(k, r) /\ cb' = Onward(c)
           /\ traded' = [traded EXCEPT ![k] = Larger(@, r.cum)]
           /\ leaves' = [leaves EXCEPT ![k] =
                           IF r.status \in Ended THEN -1 ELSE r.leaves]
           /\ over' = [over EXCEPT ![k] = @ \/ r.status \in Ended]
  <2>1. traded' = [traded EXCEPT ![k] = traded[k] + TradedDelta(k, r)]
    BY <1>1, <1>8
  <2>2. over' = [over EXCEPT ![k] = over[k] \/ r.status \in Ended]
    BY <1>8
  <2> QED
    BY <1>6, <1>8, <2>1, <2>2
<1> QED
  BY <1>5, <1>7, <1>8

(* A key that was met stays met, and the key of a return is met.           *)
LEMMA MetGrows ==
  ASSUME IInv, NEW o \in Orders, NEW i \in 1..Len(rep[o]), OnRtnOrder(o, i),
         NEW k, k = <<o, Route(o)>>
  PROVE  Met(k)' /\ \A x \in Keys : Met(x) => Met(x)'
<1>1. PICK r : r = rep[o][i]
  OBVIOUS
<1>2. /\ r \in ReportType /\ k \in Keys
      /\ leaves \in [Keys -> Nat \cup {-1}] /\ over \in [Keys -> BOOLEAN]
  BY <1>1, ReturnFacts DEF IInv, TypeOK
<1>3. CASE Repeated(k, r) /\ UNCHANGED tables
  <2>1. over[k] /\ leaves' = leaves /\ over' = over
    BY <1>3 DEF Repeated, tables
  <2> QED
    BY <2>1 DEF Met
<1>4. CASE /\ leaves' = [leaves EXCEPT ![k] =
                           IF r.status \in Ended THEN -1 ELSE r.leaves]
           /\ over' = [over EXCEPT ![k] = over[k] \/ r.status \in Ended]
  <2>1. r.leaves >= 0 /\ r.leaves \in Nat
    BY <1>2 DEF ReportType
  <2>2. leaves'[k] = IF r.status \in Ended THEN -1 ELSE r.leaves
    BY <1>2, <1>4
  <2>3. r.status \in Ended => over'[k]
    BY <1>2, <1>4, Zenon
  <2>4. \A x \in Keys : x # k => leaves'[x] = leaves[x] /\ over'[x] = over[x]
    BY <1>2, <1>4, Zenon
  <2>5. Met(k)'
    BY <2>1, <2>2, <2>3 DEF Met
  <2> QED
    BY <2>4, <2>5 DEF Met
<1> QED
  BY <1>1, <1>3, <1>4, ReturnStep

(* On a quiet day a return is the next one of its order, the first that    *)
(* tells of the end if it does, and what it releases is what it leaves     *)
(* less outstanding.                                                       *)
LEMMA QuietReturn ==
  ASSUME IInv, AInv, Quiet, NEW o \in Orders, NEW i \in 1..Len(rep[o]), i = got[o] + 1,
         got' = [got EXCEPT ![o] = @ + 1], OnRtnOrder(o, i),
         NEW k, k = <<o, Route(o)>>, NEW r, r = rep[o][i],
         \A x \in Keys : x[1] = o /\ x # k => ~Met(x)
  PROVE  /\ ~Repeated(k, r) /\ ~ToldEnded(o) /\ (ToldEnded(o)' <=> r.status \in Ended)
         /\ Reported(o)' = r.cum /\ Reported(o) <= r.cum /\ r.cum <= order[o].qty
         /\ r.cum \in Nat /\ Reported(o) \in Nat
         /\ traded[k] = Reported(o)
         /\ r.status \notin Ended => r.leaves = order[o].qty - r.cum
         /\ PendingRelease(k, r) = IF r.status \in Ended THEN order[o].qty - Reported(o)
                                   ELSE r.cum - Reported(o)
<1>1. /\ got \in [Orders -> Nat] /\ rep[o] \in Seq(ReportType) /\ ReportsOf(o)
      /\ ShapeOf(o) /\ order[o] \in OrderType /\ got[o] \in Nat /\ rep' = rep
  BY DEF IInv, TypeOK, OrderType, ReportInv, AInv, ShapeInv, OnRtnOrder, broker
<1>2. /\ Len(rep[o]) \in Nat /\ r \in ReportType /\ k \in Keys /\ k[1] = o
      /\ traded[k] \in Nat /\ leaves[k] \in Nat \cup {-1}
  BY <1>1, ReturnFacts
<1>3. r.cum \in Nat /\ r.leaves \in Nat /\ order[o].qty \in Nat /\ order[o].cum \in Nat
  BY <1>1, <1>2 DEF ReportType, OrderType
<1>4. got'[o] = i /\ i \in Nat /\ i # 0
  BY <1>1
<1>5. Reported(o)' = r.cum
  BY <1>1, <1>4 DEF Reported
<1>6. Reported(o) \in Nat /\ Reported(o) <= r.cum
  <2>1. CASE got[o] = 0
    BY <1>3, <2>1 DEF Reported
  <2>2. CASE got[o] # 0
    <3>1. got[o] \in 1..i
      BY <1>1, <1>4, <2>2
    <3>2. rep[o][got[o]].cum <= r.cum
      BY <1>1, <3>1 DEF ReportsOf
    <3> QED
      BY <2>2, <3>2, ViewFacts DEF Reported, AInv
  <2> QED
    BY <2>1, <2>2
<1>7. r.cum <= order[o].qty
  <2>1. r.cum <= order[o].cum /\ order[o].cum <= order[o].qty
    BY <1>1 DEF ReportsOf, ShapeOf
  <2> QED
    BY <1>3, <2>1
<1>8. ~ToldEnded(o) /\ (ToldEnded(o)' <=> r.status \in Ended)
  <2>1. \A j \in 1..got[o] : j \in 1..Len(rep[o]) /\ j # Len(rep[o])
    BY <1>1, <1>2
  <2>2. \A j \in 1..got[o] : rep[o][j].status \notin Ended
    BY <1>1, <2>1 DEF ShapeOf
  <2>3. \A j \in 1..i : j \in 1..got[o] \/ j = i
    BY <1>1, <1>4
  <2>4. i \in 1..i
    BY <1>4
  <2> QED
    BY <1>1, <1>4, <2>2, <2>3, <2>4 DEF ToldEnded
<1>9. ~over[k]
  BY <1>2, <1>8 DEF AInv, KnownInv
<1>10. /\ traded[k] = Reported(o)
       /\ leaves[k] >= 0 => leaves[k] = order[o].qty - Reported(o)
       /\ leaves[k] < 0 => Reported(o) = 0
  <2>1. CASE got[o] = 0
    <3>1. ~Met(k) /\ traded[k] = 0 /\ Reported(o) = 0
      BY <1>2, <2>1 DEF IInv, KeyInv, Reported
    <3> QED
      BY <1>2, <3>1 DEF Met
  <2>2. CASE got[o] # 0
    <3>1. TradedOf(o) /\ ~TwoKeys(o)
      BY DEF IInv, TradedInv, Quiet, OneKeyEach
    <3>2. Met(k)
      <4>1. Met(<<o, "request">>) \/ Met(<<o, "reference">>)
        BY <1>1, <2>2, <3>1 DEF TradedOf
      <4>2. <<o, "request">>[1] = o /\ <<o, "reference">>[1] = o
        OBVIOUS
      <4> QED
        BY <4>1, <4>2, KeyFacts
    <3>3. traded[k] = Reported(o)
      BY <1>2, <3>1, <3>2 DEF TradedOf
    <3>4. leaves[k] >= 0
      BY <1>9, <3>2 DEF Met
    <3>5. leaves[k] = order[o].qty - traded[k]
      BY <1>2, <3>4 DEF AInv, KnownInv
    <3> QED
      BY <3>3, <3>4, <3>5, <1>2
  <2> QED
    BY <2>1, <2>2
<1>11. /\ r.status \in Ended => r.leaves = 0
       /\ r.status \notin Ended => r.leaves = order[o].qty - r.cum
  BY <1>1 DEF ShapeOf
<1>12. TradedDelta(k, r) = r.cum - Reported(o)
  BY <1>3, <1>6, <1>10 DEF TradedDelta, NotNegative, Larger
<1>13. PendingRelease(k, r) = IF r.status \in Ended THEN order[o].qty - Reported(o)
                              ELSE r.cum - Reported(o)
  <2>1. CASE r.status \notin Ended
    <3>1. CancelDelta(k, r) = 0
      <4>1. CASE leaves[k] >= 0
        <5>1. PICK a \in Nat, c \in Nat, q \in Nat :
                /\ a = Reported(o) /\ c = r.cum /\ q = order[o].qty
          BY <1>3, <1>6
        <5>2. leaves[k] = q - a /\ r.leaves = q - c /\ TradedDelta(k, r) = c - a
          BY <1>10, <1>11, <1>12, <2>1, <4>1, <5>1
        <5>3. leaves[k] - r.leaves - TradedDelta(k, r) = 0
          BY <5>2
        <5> QED
          BY <4>1, <5>3 DEF CancelDelta, NotNegative, Larger
      <4>2. CASE ~(leaves[k] >= 0)
        BY <4>2 DEF CancelDelta
      <4> QED
        BY <4>1, <4>2
    <3> QED
      BY <1>3, <1>6, <1>12, <2>1, <3>1 DEF PendingRelease
  <2>2. CASE r.status \in Ended
    <3>1. r.leaves = 0 /\ order[k[1]].qty = order[o].qty
      BY <1>2, <1>11, <2>2
    <3>2. PICK a \in Nat, c \in Nat, q \in Nat :
            /\ a = Reported(o) /\ c = r.cum /\ q = order[o].qty
      BY <1>3, <1>6
    <3>3. a <= c /\ c <= q /\ traded[k] = a /\ TradedDelta(k, r) = c - a
      BY <1>6, <1>7, <1>10, <1>12, <3>2
    <3>4. CASE leaves[k] >= 0
      <4>1. leaves[k] = q - a
        BY <1>10, <3>2, <3>4
      <4>2. TerminalRelease(k, r) = q - a
        BY <3>4, <4>1 DEF TerminalRelease
      <4>3. q - c \in Nat /\ q - a \in Nat
        BY <3>3
      <4>4. leaves[k] - r.leaves - TradedDelta(k, r) = q - c
        BY <3>1, <3>3, <4>1
      <4>5. CancelDelta(k, r) = NotNegative(q - c)
        BY <3>4, <4>4 DEF CancelDelta
      <4>6. CancelDelta(k, r) = q - c
        BY <4>3, <4>5 DEF NotNegative, Larger
      <4>7. PendingRelease(k, r) = Larger((c - a) + (q - c), q - a)
        BY <2>2, <3>3, <4>2, <4>6 DEF PendingRelease
      <4>8. (c - a) + (q - c) = q - a
        OBVIOUS
      <4>9. PendingRelease(k, r) = q - a
        BY <4>3, <4>7, <4>8 DEF Larger
      <4> QED
        BY <2>2, <3>2, <4>9
    <3>5. CASE ~(leaves[k] >= 0)
      <4>1. a = 0 /\ CancelDelta(k, r) = 0
        BY <1>2, <1>10, <3>2, <3>5 DEF CancelDelta
      <4>2. TerminalRelease(k, r) = Larger(0 + c, q - 0)
        BY <3>1, <3>2, <3>3, <3>5, <4>1 DEF TerminalRelease
      <4>3. Larger(0 + c, q - 0) = q
        BY <3>3 DEF Larger
      <4>4. PendingRelease(k, r) = Larger((c - 0) + 0, q)
        BY <2>2, <3>3, <4>1, <4>2, <4>3 DEF PendingRelease
      <4>5. Larger((c - 0) + 0, q) = q
        BY <3>3 DEF Larger
      <4> QED
        BY <2>2, <3>2, <4>1, <4>4, <4>5
    <3> QED
      BY <3>4, <3>5
  <2> QED
    BY <2>1, <2>2
<1>14. ~Repeated(k, r)
  BY <1>9 DEF Repeated
<1> QED
  BY <1>3, <1>5, <1>6, <1>7, <1>8, <1>10, <1>11, <1>13, <1>14

(* One order of a side takes n lots less, as far as the strategy knows.    *)
LEMMA ReturnSums ==
  ASSUME IInv, AInv, NEW o \in Orders, o \in 1..sent, UNCHANGED <<sent, order, rep>>,
         \A p \in Orders : p # o => got'[p] = got[p],
         NEW n \in Nat, Outstanding(o)' \in Nat, Outstanding(o)' + n = Outstanding(o),
         Reported(o)' \in Nat, Reported(o) <= Reported(o)',
         View(o)' \in Nat, View(o)' <= View(o), NEW t \in Sides
  PROVE  /\ Sent(t)' = Sent(t)
         /\ DueSum(t)' + (IF t = order[o].side THEN n ELSE 0) = DueSum(t)
         /\ ToldSum(t)' \in Nat /\ ToldSum(t) <= ToldSum(t)'
         /\ ViewSum(t)' \in Nat /\ ViewSum(t)' <= ViewSum(t)
<1>1. PICK due : due = [p \in Orders |-> Outstanding(p)]
  OBVIOUS
<1>2. PICK dueN : dueN = [p \in Orders |-> Outstanding(p)']
  OBVIOUS
<1>3. PICK view : view = [p \in Orders |-> View(p)]
  OBVIOUS
<1>4. PICK viewN : viewN = [p \in Orders |-> View(p)']
  OBVIOUS
<1>5. PICK told : told = [p \in Orders |-> Reported(p)]
  OBVIOUS
<1>6. PICK toldN : toldN = [p \in Orders |-> Reported(p)']
  OBVIOUS
<1>7. PICK S : S = Sent(t)
  OBVIOUS
<1>8. IsFiniteSet(S) /\ S \subseteq Orders
  BY <1>7, SentFacts
<1>9. Sent(t)' = S
  BY <1>7 DEF Sent
<1>10. /\ DueSum(t) = SumOver(due, S) /\ DueSum(t)' = SumOver(dueN, S)
       /\ ViewSum(t) = SumOver(view, S) /\ ViewSum(t)' = SumOver(viewN, S)
       /\ ToldSum(t) = SumOver(told, S) /\ ToldSum(t)' = SumOver(toldN, S)
  BY <1>1, <1>2, <1>3, <1>4, <1>5, <1>6, <1>7, <1>9 DEF DueSum, ViewSum, ToldSum
<1>11. ASSUME NEW p \in Orders, p # o
       PROVE  /\ Outstanding(p)' = Outstanding(p) /\ View(p)' = View(p)
              /\ Reported(p)' = Reported(p)
  <2>1. got'[p] = got[p] /\ rep' = rep /\ order' = order
    BY <1>11
  <2>2. Reported(p)' = Reported(p)
    BY <2>1 DEF Reported
  <2>3. ToldEnded(p)' <=> ToldEnded(p)
    BY <2>1 DEF ToldEnded
  <2> QED
    BY <2>1, <2>2, <2>3 DEF Outstanding, View
<1>12. \A p \in S : /\ due[p] \in Nat /\ view[p] \in Nat /\ told[p] \in Nat
                    /\ dueN[p] \in Nat /\ viewN[p] \in Nat /\ toldN[p] \in Nat
                    /\ p # o => dueN[p] = due[p]
                    /\ viewN[p] <= view[p] /\ told[p] <= toldN[p]
  <2> SUFFICES ASSUME NEW p \in S
               PROVE  /\ due[p] \in Nat /\ view[p] \in Nat /\ told[p] \in Nat
                      /\ dueN[p] \in Nat /\ viewN[p] \in Nat /\ toldN[p] \in Nat
                      /\ p # o => dueN[p] = due[p]
                      /\ viewN[p] <= view[p] /\ told[p] <= toldN[p]
    OBVIOUS
  <2>1. p \in Orders
    BY <1>8
  <2>2. Outstanding(p) \in Nat /\ View(p) \in Nat /\ Reported(p) \in Nat
    BY <2>1, ViewFacts DEF AInv
  <2>3. /\ due[p] = Outstanding(p) /\ dueN[p] = Outstanding(p)'
        /\ view[p] = View(p) /\ viewN[p] = View(p)'
        /\ told[p] = Reported(p) /\ toldN[p] = Reported(p)'
    BY <2>1, <1>1, <1>2, <1>3, <1>4, <1>5, <1>6
  <2>4. CASE p = o
    BY <2>2, <2>3, <2>4
  <2>5. CASE p # o
    BY <1>11, <2>1, <2>2, <2>3, <2>5
  <2> QED
    BY <2>4, <2>5
<1>13. SumOver(due, S) \in Nat
  BY <1>8, <1>12, SumNat
<1>14. SumOver(dueN, S) \in Nat
  BY <1>8, <1>12, SumNat
<1>15. SumOver(viewN, S) \in Nat
  BY <1>8, <1>12, SumNat
<1>16. SumOver(toldN, S) \in Nat
  BY <1>8, <1>12, SumNat
<1>17. SumOver(viewN, S) <= SumOver(view, S)
  <2>1. \A p \in S : viewN[p] \in Int /\ view[p] \in Int /\ viewN[p] <= view[p]
    BY <1>12
  <2> QED
    BY <1>8, <2>1, SumLeq
<1>18. SumOver(told, S) <= SumOver(toldN, S)
  <2>1. \A p \in S : told[p] \in Int /\ toldN[p] \in Int /\ told[p] <= toldN[p]
    BY <1>12
  <2> QED
    BY <1>8, <2>1, SumLeq
<1>19. SumOver(dueN, S) + (IF t = order[o].side THEN n ELSE 0) = SumOver(due, S)
  <2>1. CASE t = order[o].side
    <3>1. o \in S
      BY <1>7, <2>1 DEF Sent
    <3>2. \A p \in S : due[p] \in Int /\ dueN[p] \in Int
      BY <1>12
    <3>3. \A p \in S \ {o} : dueN[p] = due[p]
      BY <1>12
    <3>4. IsFiniteSet(S)
      BY <1>8
    <3>5. SumOver(dueN, S) = SumOver(due, S) - due[o] + dueN[o]
      <4>1. IsFiniteSet(S \ {o})
        BY <3>4, FS_Subset
      <4>2. SumOver(due, S) = due[o] + SumOver(due, S \ {o})
        BY <3>1, <3>2, <3>4, SumRemove
      <4>3. SumOver(dueN, S) = dueN[o] + SumOver(dueN, S \ {o})
        BY <3>1, <3>2, <3>4, SumRemove
      <4>4. SumOver(due, S \ {o}) = SumOver(dueN, S \ {o})
        BY <3>3, <4>1, SumAgree
      <4>5. SumOver(due, S \ {o}) \in Int
        BY <3>2, <4>1, SumType
      <4>6. due[o] \in Int /\ dueN[o] \in Int
        BY <3>1, <3>2
      <4> QED
        BY <4>2, <4>3, <4>4, <4>5, <4>6
    <3>6. dueN[o] + n = due[o] /\ dueN[o] \in Int /\ due[o] \in Int
      BY <1>1, <1>2, <3>1, <3>2
    <3> QED
      BY <1>13, <1>14, <2>1, <3>5, <3>6
  <2>2. CASE t # order[o].side
    <3>1. o \notin S
      BY <1>7, <2>2 DEF Sent
    <3>2. \A p \in S : dueN[p] = due[p]
      BY <1>12, <3>1
    <3>3. SumOver(dueN, S) = SumOver(due, S)
      BY <1>8, <3>2, SumAgree
    <3> QED
      BY <1>13, <2>2, <3>3
  <2> QED
    BY <2>1, <2>2
<1> QED
  BY <1>7, <1>9, <1>10, <1>15, <1>16, <1>17, <1>18, <1>19

LEMMA ReturnAccounts ==
  ASSUME IInv, AInv, IInv', NEW o \in Orders, NEW i \in 1..Len(rep[o]), OnRtnOrder(o, i),
         \/ i = got[o] + 1 /\ got' = [got EXCEPT ![o] = @ + 1] /\ resends' = resends
         \/ i <= got[o] /\ got' = got /\ resends' > 0
  PROVE  AInv'
<1>1. PICK k : k = <<o, Route(o)>>
  OBVIOUS
<1>2. PICK r : r = rep[o][i]
  OBVIOUS
<1>3. /\ UNCHANGED <<day, pi, shortable, pending, sig, sent, order, rep, query, queries,
                     counted>>
      /\ cb.at = "idle" /\ (~day.threaded => sig.at = "idle")
  BY DEF OnRtnOrder, account, broker, CallbackTurn
<1>4. PICK d \in CbType :
        /\ cb' = Onward(d) /\ d.order = o
        /\ \/ Repeated(k, r) /\ d.release = 0 /\ UNCHANGED tables
           \/ /\ ~Repeated(k, r) /\ d.release = PendingRelease(k, r)
              /\ d.seen = pending[order[o].side]
              /\ traded' = [traded EXCEPT ![k] = traded[k] + TradedDelta(k, r)]
              /\ leaves' = [leaves EXCEPT ![k] =
                              IF r.status \in Ended THEN -1 ELSE r.leaves]
              /\ over' = [over EXCEPT ![k] = over[k] \/ r.status \in Ended]
  BY <1>1, <1>2, ReturnStep
<1>5. /\ cb'.at = "loaded" <=> d.release > 0
      /\ cb'.at = "loaded" => cb'.release = d.release /\ cb'.seen = d.seen
      /\ cb'.at = "released" => cb'.release = 0
      /\ cb'.at # "idle" => cb'.order = o
  BY <1>4, OnwardRelease, OnwardFacts
<1>6. /\ k \in Keys /\ k[1] = o /\ r \in ReportType /\ i \in Nat
      /\ got \in [Orders -> Nat] /\ order[o] \in OrderType /\ sent \in Nat
      /\ traded \in [Keys -> Nat] /\ leaves \in [Keys -> Nat \cup {-1}]
      /\ over \in [Keys -> BOOLEAN]
  <2>1. sent \in Nat
    BY OrderAssumption DEF IInv, TypeOK
  <2> QED
    BY <1>1, <1>2, <2>1, ReturnFacts DEF IInv, TypeOK, OrderType
<1>7. o \in 1..sent
  <2>1. OrderOf(o) /\ rep[o] \in Seq(ReportType) /\ o \in 1..MaxOrders
    BY DEF IInv, OrderInv, TypeOK, Orders
  <2>2. rep[o] # <<>>
    BY <2>1
  <2> QED
    BY <1>6, <2>1, <2>2, OrderAssumption DEF OrderOf, Unsent
<1>8. ShapeInv'
  BY <1>3 DEF AInv, ShapeInv, ShapeOf
<1>9. \A p \in Orders : got[p] <= got'[p] /\ got'[p] \in Nat /\ (p # o => got'[p] = got[p])
  BY <1>6
<1>10. i \in 1..got'[o]
  BY <1>6
<1>11. TurnInv'
  <2>1. ASSUME ~day.threaded, cb'.at = "loaded"
        PROVE  cb'.seen = pending[order[cb'.order].side]
    <3>1. d.release > 0 /\ cb'.order = o /\ cb'.seen = d.seen
      BY <1>5, <2>1
    <3> QED
      BY <1>4, <3>1
  <2> QED
    BY <1>3, <1>5, <1>7, <2>1 DEF AInv, TurnInv
<1>12. \A x \in Keys : over'[x] => ToldEnded(x[1])'
  <2> SUFFICES ASSUME NEW x \in Keys, over'[x] PROVE ToldEnded(x[1])'
    OBVIOUS
  <2>1. CASE over[x]
    <3>1. x[1] \in Orders /\ ToldEnded(x[1])
      BY <2>1, KeyOf DEF AInv, KnownInv
    <3>2. PICK j \in 1..got[x[1]] : rep[x[1]][j].status \in Ended
      BY <3>1 DEF ToldEnded
    <3>3. j \in 1..got'[x[1]]
      BY <1>6, <1>9, <3>1, <3>2
    <3> QED
      BY <1>3, <3>2, <3>3 DEF ToldEnded
  <2>2. CASE ~over[x]
    <3>1. x = k /\ r.status \in Ended
      <4>1. over' # over
        BY <2>2
      <4>2. over' = [over EXCEPT ![k] = over[k] \/ r.status \in Ended]
        BY <1>4, <4>1 DEF tables
      <4> QED
        BY <1>6, <2>2, <4>2, Zenon
    <3> QED
      BY <1>2, <1>3, <1>6, <1>10, <3>1 DEF ToldEnded
  <2> QED
    BY <2>1, <2>2
(* What is left holds only of a quiet day, which the step leaves quiet.    *)
<1>13. ASSUME Quiet'
       PROVE  /\ Quiet /\ \A x \in Keys : x[1] = o /\ x # k => ~Met(x) /\ ~Met(x)'
              /\ i = got[o] + 1 /\ got' = [got EXCEPT ![o] = @ + 1]
  <2>1. resends \in Nat /\ resends' = 0 /\ ~day.threaded /\ OneKeyEach'
    BY <1>3, <1>13 DEF Quiet, IInv, TypeOK
  <2>2. Met(k)' /\ \A x \in Keys : Met(x) => Met(x)'
    BY <1>1, MetGrows
  <2>3. OneKeyEach
    BY <2>1, <2>2, KeyFacts DEF OneKeyEach, TwoKeys
  <2>4. ASSUME NEW x \in Keys, x[1] = o, x # k PROVE ~Met(x)'
    <3>1. /\ x = <<o, "request">> \/ x = <<o, "reference">>
          /\ k = <<o, "request">> \/ k = <<o, "reference">>
      BY <1>6, <2>4, KeyOf
    <3>2. ~(Met(<<o, "request">>)' /\ Met(<<o, "reference">>)')
      BY <2>1 DEF OneKeyEach, TwoKeys
    <3> QED
      BY <2>2, <2>4, <3>1, <3>2
  <2> QED
    BY <2>1, <2>2, <2>3, <2>4 DEF Quiet
<1>14. ASSUME Quiet'
       PROVE  /\ ~Repeated(k, r) /\ ~ToldEnded(o) /\ (ToldEnded(o)' <=> r.status \in Ended)
              /\ Reported(o)' = r.cum /\ Reported(o) <= r.cum /\ r.cum <= order[o].qty
              /\ r.cum \in Nat /\ Reported(o) \in Nat /\ order[o].qty \in Nat
              /\ traded[k] = Reported(o)
              /\ r.status \notin Ended => r.leaves = order[o].qty - r.cum
              /\ PendingRelease(k, r) = IF r.status \in Ended THEN order[o].qty - Reported(o)
                                        ELSE r.cum - Reported(o)
  <2>1. order[o].qty \in Nat
    BY <1>6 DEF OrderType
  <2> QED
    BY <1>1, <1>2, <1>13, <1>14, <2>1, QuietReturn
<1>15. KnownInv'
  <2> SUFFICES ASSUME Quiet', NEW x \in Keys, leaves'[x] >= 0
               PROVE  leaves'[x] = order[x[1]].qty - traded'[x]
    BY <1>3, <1>12 DEF KnownInv
  <2>1. CASE x # k
    <3>1. leaves'[x] = leaves[x] /\ traded'[x] = traded[x]
      BY <1>4, <1>6, <1>14, <2>1
    <3> QED
      BY <1>13, <3>1 DEF AInv, KnownInv
  <2>2. CASE x = k
    <3>1. /\ leaves'[k] = IF r.status \in Ended THEN -1 ELSE r.leaves
          /\ traded'[k] = traded[k] + TradedDelta(k, r)
      BY <1>4, <1>6, <1>14
    <3>2. r.status \notin Ended /\ leaves'[k] = order[o].qty - r.cum
      BY <1>14, <2>2, <3>1
    <3>3. traded'[k] = r.cum
      BY <1>14, <3>1 DEF TradedDelta, NotNegative, Larger
    <3> QED
      BY <1>6, <2>2, <3>2, <3>3
  <2> QED
    BY <2>1, <2>2
<1>16. ASSUME Quiet', NEW t \in Sides
       PROVE  LET n == PendingRelease(k, r)
              IN /\ n \in Nat /\ Sent(t)' = Sent(t)
                 /\ DueSum(t)' + (IF t = order[o].side THEN n ELSE 0) = DueSum(t)
                 /\ ToldSum(t)' \in Nat /\ ToldSum(t) <= ToldSum(t)'
                 /\ ViewSum(t)' \in Nat /\ ViewSum(t)' <= ViewSum(t)
  <2>1. PICK n : n = PendingRelease(k, r)
    OBVIOUS
  <2>2. n \in Nat
    BY <1>16, <1>14, <2>1
  <2>3. /\ Outstanding(o) = order[o].qty - Reported(o) /\ View(o) = order[o].qty
        /\ Outstanding(o)' = (IF r.status \in Ended THEN 0 ELSE order[o].qty - r.cum)
        /\ View(o)' = (IF r.status \in Ended THEN r.cum ELSE order[o].qty)
        /\ Reported(o)' = r.cum
    BY <1>3, <1>16, <1>14 DEF Outstanding, View
  <2>4. /\ Outstanding(o)' \in Nat /\ Outstanding(o)' + n = Outstanding(o)
        /\ Reported(o)' \in Nat /\ Reported(o) <= Reported(o)'
        /\ View(o)' \in Nat /\ View(o)' <= View(o)
    <3>1. PICK a, c, q \in Nat : a = Reported(o) /\ c = r.cum /\ q = order[o].qty
      BY <1>16, <1>14
    <3>2. a <= c /\ c <= q
      BY <1>16, <1>14, <3>1
    <3>3. /\ Reported(o)' = c /\ Outstanding(o) = q - a /\ View(o) = q
          /\ Outstanding(o)' = (IF r.status \in Ended THEN 0 ELSE q - c)
          /\ View(o)' = (IF r.status \in Ended THEN c ELSE q)
      BY <2>3, <3>1
    <3>4. n = IF r.status \in Ended THEN q - a ELSE c - a
      BY <1>16, <1>14, <2>1, <3>1
    <3>5. CASE r.status \in Ended
      <4>1. Outstanding(o)' = 0 /\ View(o)' = c /\ n = q - a
        BY <3>3, <3>4, <3>5
      <4> QED
        BY <3>1, <3>2, <3>3, <4>1
    <3>6. CASE r.status \notin Ended
      <4>1. Outstanding(o)' = q - c /\ View(o)' = q /\ n = c - a
        BY <3>3, <3>4, <3>6
      <4>2. q - c \in Nat /\ (q - c) + (c - a) = q - a
        BY <3>2
      <4>3. Outstanding(o)' \in Nat /\ Outstanding(o)' + n = Outstanding(o)
        BY <3>3, <4>1, <4>2
      <4>4. Reported(o)' \in Nat /\ Reported(o) <= Reported(o)'
        BY <3>1, <3>2, <3>3
      <4>5. View(o)' \in Nat /\ View(o)' <= View(o)
        BY <3>3, <4>1
      <4> QED
        BY <4>3, <4>4, <4>5
    <3> QED
      BY <3>5, <3>6
  <2>5. /\ Sent(t)' = Sent(t)
        /\ DueSum(t)' + (IF t = order[o].side THEN n ELSE 0) = DueSum(t)
        /\ ToldSum(t)' \in Nat /\ ToldSum(t) <= ToldSum(t)'
        /\ ViewSum(t)' \in Nat /\ ViewSum(t)' <= ViewSum(t)
    BY <1>3, <1>7, <1>9, <2>2, <2>4, ReturnSums
  <2> QED
    BY <2>1, <2>2, <2>5
<1>17. ReservedInv'
  <2> SUFFICES ASSUME Quiet', NEW t \in Sides
               PROVE  pending[t] + Reserving(t)' = DueSum(t)' + Releasing(t)'
    BY <1>3 DEF ReservedInv
  <2>1. PICK n : n = PendingRelease(k, r)
    OBVIOUS
  <2>2. /\ n \in Nat /\ DueSum(t)' + (IF t = order[o].side THEN n ELSE 0) = DueSum(t)
    BY <1>16, <2>1
  <2>3. sig.at = "idle" /\ Quiet
    BY <1>3, <1>13 DEF Quiet
  <2>4. Reserving(t)' = 0 /\ Reserving(t) = 0 /\ Releasing(t) = 0
    BY <1>3, <2>3 DEF Reserving, Releasing
  <2>5. d.release = n
    BY <1>4, <1>14, <2>1
  <2>6. Releasing(t)' = IF t = order[o].side THEN n ELSE 0
    BY <1>3, <1>5, <2>2, <2>5 DEF Releasing
  <2>7. pending[t] + Reserving(t) = DueSum(t) + Releasing(t)
    BY <2>3 DEF AInv, ReservedInv
  <2>8. pending[t] \in Nat /\ DueSum(t) \in Nat
    BY SideFacts DEF AInv, IInv, TypeOK
  <2> QED
    BY <2>2, <2>4, <2>6, <2>7, <2>8
<1>18. Start' = Start /\ Sellable' = Sellable /\ LargestLimit' = LargestLimit
  BY <1>3 DEF Start, Sellable, LargestLimit
<1>19. "buy" \in Sides /\ "sell" \in Sides
  BY DEF Sides
<1>20. PositionInv'
  <2> SUFFICES ASSUME Quiet', queries = 0
               PROVE  /\ pi = Start + CountedSum("buy")' - CountedSum("sell")'
                      /\ shortable = Sellable - CountedSum("sell")'
    BY <1>3, <1>18 DEF PositionInv
  <2>1. \A t \in Sides : CountedSum(t)' = CountedSum(t)
    BY <1>3, <1>16 DEF CountedSum
  <2> QED
    BY <1>13, <1>19, <2>1 DEF AInv, PositionInv
<1>21. LimitInv'
  <2> SUFFICES ASSUME Quiet', queries = 0
               PROVE  /\ ViewSum("sell")' <= Sellable
                      /\ Start + ToldSum("buy")' - ViewSum("sell")'
                           >= Smaller(Start, -LargestLimit)
                      /\ Start + ViewSum("buy")' - ToldSum("sell")'
                           <= Larger(Start, Smaller(day.available, LargestLimit))
                      /\ \A a, b \in 1..sent : ~OppositeSides(a, b)'
    BY <1>3, <1>18 DEF LimitInv
  <2>1. /\ ViewSum("sell") <= Sellable
        /\ Start + ToldSum("buy") - ViewSum("sell") >= Smaller(Start, -LargestLimit)
        /\ Start + ViewSum("buy") - ToldSum("sell")
             <= Larger(Start, Smaller(day.available, LargestLimit))
        /\ \A a, b \in 1..sent : ~OppositeSides(a, b)
    BY <1>13 DEF AInv, LimitInv
  <2>2. \A a, b \in 1..sent : ~OppositeSides(a, b)'
    BY <1>3, <2>1 DEF OppositeSides, Working
  <2>3. \A t \in Sides : /\ ToldSum(t)' \in Nat /\ ToldSum(t) <= ToldSum(t)'
                         /\ ViewSum(t)' \in Nat /\ ViewSum(t)' <= ViewSum(t)
    BY <1>16
  <2>4. \A t \in Sides : ToldSum(t) \in Nat /\ ViewSum(t) \in Nat
    BY SideFacts DEF AInv
  <2>5. /\ Start \in Int /\ Sellable \in Int
        /\ Smaller(Start, -LargestLimit) \in Int
        /\ Larger(Start, Smaller(day.available, LargestLimit)) \in Int
    <3>1. /\ day.total \in Nat /\ day.available \in Nat /\ Static \in Nat
          /\ LargestLimit \in Nat
      BY DayFacts, LargestFacts, OrderAssumption DEF IInv
    <3> QED
      BY <3>1 DEF Start, Sellable, Smaller, Larger
  <2>6. PICK low, high : /\ low = Smaller(Start, -LargestLimit)
                         /\ high = Larger(Start, Smaller(day.available, LargestLimit))
    OBVIOUS
  <2>7. PICK st, se : st = Start /\ se = Sellable
    OBVIOUS
  <2>8. low \in Int /\ high \in Int /\ st \in Int /\ se \in Int
    BY <2>5, <2>6, <2>7
  <2>9. /\ ViewSum("sell") <= se /\ st + ToldSum("buy") - ViewSum("sell") >= low
        /\ st + ViewSum("buy") - ToldSum("sell") <= high
    BY <2>1, <2>6, <2>7
  <2>10. PICK tb, vb, ts, vs \in Nat :
           /\ tb = ToldSum("buy") /\ vb = ViewSum("buy")
           /\ ts = ToldSum("sell") /\ vs = ViewSum("sell")
    BY <1>19, <2>4
  <2>11. PICK tbN, vbN, tsN, vsN \in Nat :
           /\ tbN = ToldSum("buy")' /\ vbN = ViewSum("buy")'
           /\ tsN = ToldSum("sell")' /\ vsN = ViewSum("sell")'
    BY <1>19, <2>3
  <2>12. tb <= tbN /\ vbN <= vb /\ ts <= tsN /\ vsN <= vs
    BY <1>19, <2>3, <2>10, <2>11
  <2>13. vs <= se /\ st + tb - vs >= low /\ st + vb - ts <= high
    BY <2>9, <2>10
  <2>14. vsN <= se /\ st + tbN - vsN >= low /\ st + vbN - tsN <= high
    BY <2>8, <2>12, <2>13
  <2> QED
    BY <2>2, <2>6, <2>7, <2>11, <2>14
<1> QED
  BY <1>8, <1>11, <1>15, <1>17, <1>20, <1>21 DEF AInv

LEMMA NextReturnAccounts ==
  ASSUME IInv, AInv, IInv', NEW o \in Orders, NextReturn(o) PROVE AInv'
<1>1. got \in [Orders -> Nat] /\ rep[o] \in Seq(ReportType)
  BY DEF IInv, TypeOK
<1>2. got[o] + 1 \in 1..Len(rep[o])
  BY <1>1 DEF NextReturn
<1> QED
  BY <1>2, ReturnAccounts DEF NextReturn

LEMMA ReturnAgainAccounts ==
  ASSUME IInv, AInv, IInv', NEW o \in Orders, ReturnAgain(o) PROVE AInv'
<1>1. /\ got[o] \in Nat /\ rep[o] \in Seq(ReportType) /\ resends \in Nat
      /\ got[o] <= Len(rep[o])
  BY DEF IInv, TypeOK, ReportInv, ReportsOf
<1>2. PICK i \in 1..got[o] : OnRtnOrder(o, i)
  BY DEF ReturnAgain
<1>3. i \in 1..Len(rep[o]) /\ i <= got[o]
  BY <1>1
<1>4. got' = got /\ resends' > 0
  BY <1>1 DEF ReturnAgain
<1> QED
  BY <1>2, <1>3, <1>4, ReturnAccounts

-----------------------------------------------------------------------------
LEMMA NextAccounts == IInv /\ AInv /\ IInv' /\ [Next]_vars => AInv'
<1> SUFFICES ASSUME IInv, AInv, IInv', [Next]_vars PROVE AInv'
  OBVIOUS
<1>1. ASSUME NEW s \in Sides, Submit(s) PROVE AInv'
  BY <1>1, SubmitAccounts
<1>2. CASE SignalStep
  BY <1>2, SignalStepAccounts
<1>3. ASSUME NEW o \in Orders,
             \/ Accept(o) \/ Reject(o) \/ Fill(o) \/ Withdraw(o) \/ Respond(o)
             \/ CancelFires(o) \/ NextReturn(o) \/ ReturnAgain(o)
      PROVE  AInv'
  BY <1>3, AcceptAccounts, RejectAccounts, FillAccounts, WithdrawAccounts, RespondAccounts,
     CancelFiresAccounts, NextReturnAccounts, ReturnAgainAccounts
<1>4. CASE CallbackStep
  BY <1>4, StoreReleaseAccounts, StorePositionAccounts, OnRtnTradeAccounts DEF CallbackStep
<1>5. CASE QueryPositions \/ OnRtnPosOption
  BY <1>5, QueryPositionsAccounts, OnRtnPosOptionAccounts
<1>6. CASE UNCHANGED vars
  <2>1. ShapeInv' /\ \A p \in Orders : Kept(p)
    BY <1>6, OrdersKept DEF AInv, vars, broker, gateway
  <2> QED
    BY <1>6, <2>1, AccountsUntouched DEF vars, broker, gateway
<1> QED
  BY <1>1, <1>2, <1>3, <1>4, <1>5, <1>6 DEF Next

THEOREM AccountsInvariance == Spec => [](IInv /\ AInv)
<1>1. IInv /\ AInv /\ [Next]_vars => (IInv /\ AInv)'
  BY NextInv, NextAccounts
<1>2. Init => IInv /\ AInv
  BY InitInv, InitAccounts
<1> QED
  BY <1>1, <1>2, PTL DEF Spec

(* For any number of orders of any size: with signals and returns on one   *)
(* thread, and no return sent twice, what is pending on a side is what its *)
(* orders may still trade as far as the strategy knows (on_rtn_order,      *)
(* handleT0).                                                              *)
THEOREM PendingExact == Spec => []PendingIsOutstanding
<1>1. IInv /\ AInv => PendingIsOutstanding
  BY AccountsKept
<1> QED
  BY <1>1, AccountsInvariance, PTL

(* For any limits of the day and any order sizes, under the same           *)
(* conditions and before the first periodic query: the position keeps to   *)
(* the largest limit, and the two sides are never open at once (MaxCanBuy, *)
(* MaxCanSell, CanBuy, CanSell).                                           *)
THEOREM CapacityKept == Spec => []CapacityRespected
<1>1. IInv /\ AInv => CapacityRespected
  BY AccountsKept
<1> QED
  BY <1>1, AccountsInvariance, PTL

-----------------------------------------------------------------------------
(* Days with position queries.  The broker holds back what is being sold;  *)
(* an answer therefore never says more than the orders of its moment left, *)
(* and what the strategy keeps as shortable never says more than what was  *)
(* not yet counted as sold.                                                *)
BookInv == book.available = day.available - Exposed("sell")

AnswerInv ==
  Quiet /\ ~crossed =>
    /\ shortable + CountedSum("sell") <= day.available
    /\ Exposed("sell") <= day.available
    /\ query.at = "answered" => query.available + Exposed("sell") <= day.available

BInv == BookInv /\ AnswerInv

(* An order takes at least what it was filled.                             *)
LEMMA ExposedFacts ==
  ASSUME IInv, AInv, NEW s \in Sides
  PROVE  /\ Exposed(s) \in Nat /\ Filled(s) \in Nat /\ ToldSum(s) \in Nat
         /\ DueSum(s) \in Nat /\ CountedSum(s) \in Nat /\ ViewSum(s) \in Nat
         /\ ToldSum(s) <= Filled(s) /\ Filled(s) <= Exposed(s)
         /\ Exposed(s) <= ViewSum(s) /\ ViewSum(s) = ToldSum(s) + DueSum(s)
<1>1. IsFiniteSet(Sent(s)) /\ Sent(s) \subseteq Orders
  BY SentFacts
<1>2. PICK filled : filled = [o \in Orders |-> order[o].cum]
  OBVIOUS
<1>3. PICK exposure : exposure = [o \in Orders |-> Exposure(o)]
  OBVIOUS
<1>4. \A o \in Orders : /\ filled[o] \in Int /\ exposure[o] \in Int
                        /\ filled[o] <= exposure[o]
  <2> SUFFICES ASSUME NEW o \in Orders
               PROVE  /\ order[o].cum \in Int /\ Exposure(o) \in Int
                      /\ order[o].cum <= Exposure(o)
    BY <1>2, <1>3
  <2>1. order[o].cum \in Nat /\ order[o].qty \in Nat /\ order[o].cum <= order[o].qty
    BY ViewFacts DEF AInv
  <2> QED
    BY <2>1 DEF Exposure
<1>5. SumOver(filled, Sent(s)) <= SumOver(exposure, Sent(s))
  BY <1>1, <1>4, SumLeq
<1>6. Filled(s) <= Exposed(s)
  BY <1>2, <1>3, <1>5 DEF Filled, Exposed
<1> QED
  BY <1>6, SideFacts DEF AInv

(* A step with one order, or with none.                                    *)
LEMMA ExposedKept ==
  ASSUME IInv, UNCHANGED <<order, sent>>, NEW s \in Sides
  PROVE  Exposed(s)' = Exposed(s)
<1>1. \A p \in Orders : Exposure(p)' = Exposure(p)
  BY DEF Exposure
<1>2. [o \in Orders |-> Exposure(o)'] = [o \in Orders |-> Exposure(o)]
  BY <1>1
<1>3. Sent(s)' = Sent(s)
  BY DEF Sent
<1> QED
  BY <1>2, <1>3 DEF Exposed

LEMMA ExposedMoves ==
  ASSUME IInv, AInv, IInv', AInv', NEW o \in Orders, order[o].state # "none", sent' = sent,
         \A p \in Orders : p # o => order'[p] = order[p],
         order'[o].side = order[o].side, NEW s \in Sides
  PROVE  Exposed(s)' = Exposed(s) + (IF order[o].side = s
                                     THEN Exposure(o)' - Exposure(o) ELSE 0)
<1>1. IsFiniteSet(Sent(s)) /\ Sent(s) \subseteq Orders /\ sent \in Nat /\ o \in Nat
  BY SentFacts DEF Orders
<1>2. o <= sent
  BY <1>1 DEF IInv, OrderInv, OrderOf, Unsent
<1>3. o \in 1..sent /\ 1..sent \subseteq Orders
  <2>1. o >= 1
    BY DEF Orders
  <2> QED
    BY <1>1, <1>2, <2>1, OrderAssumption DEF IInv, TypeOK, Orders
<1>4. \A p \in Orders : order'[p].side = order[p].side
  OBVIOUS
<1>5. Sent(s)' = Sent(s)
  BY <1>3, <1>4 DEF Sent
<1>6. PICK f : f = [p \in Orders |-> Exposure(p)]
  OBVIOUS
<1>7. PICK g : g = [p \in Orders |-> Exposure(p)']
  OBVIOUS
<1>8. \A p \in Orders : f[p] \in Nat /\ g[p] \in Nat
  <2>1. \A p \in Orders : Exposure(p) \in Nat
    BY ViewFacts DEF AInv
  <2>2. ASSUME NEW p \in Orders PROVE Exposure(p)' \in Nat
    <3>1. order'[p] \in OrderType
      BY DEF IInv, TypeOK, OrderType
    <3> QED
      BY <3>1 DEF Exposure, OrderType
  <2> QED
    BY <1>6, <1>7, <2>1, <2>2
<1>9. \A p \in Orders : p # o => g[p] = f[p]
  <2> SUFFICES ASSUME NEW p \in Orders, p # o PROVE Exposure(p)' = Exposure(p)
    BY <1>6, <1>7
  <2> QED
    BY DEF Exposure
<1>10. Exposed(s) = SumOver(f, Sent(s)) /\ Exposed(s)' = SumOver(g, Sent(s))
  BY <1>5, <1>6, <1>7 DEF Exposed
<1>11. CASE order[o].side = s
  <2>1. o \in Sent(s)
    BY <1>3, <1>11 DEF Sent
  <2>2. SumOver(g, Sent(s)) = SumOver(f, Sent(s)) - f[o] + g[o]
    BY <1>1, <1>8, <1>9, <2>1, SumChange
  <2>3. Exposed(s) \in Nat /\ f[o] \in Nat /\ g[o] \in Nat
    BY <1>8, ExposedFacts
  <2>4. f[o] = Exposure(o) /\ g[o] = Exposure(o)'
    BY <1>6, <1>7
  <2> QED
    BY <1>10, <1>11, <2>2, <2>3, <2>4
<1>12. CASE order[o].side # s
  <2>1. o \notin Sent(s)
    BY <1>12 DEF Sent
  <2>2. SumOver(g, Sent(s)) = SumOver(f, Sent(s))
    BY <1>1, <1>9, <2>1, SumAgree
  <2>3. Exposed(s) \in Nat
    BY ExposedFacts
  <2> QED
    BY <1>10, <1>12, <2>2, <2>3
<1> QED
  BY <1>11, <1>12

LEMMA AnswerTypes ==
  ASSUME IInv
  PROVE  /\ day.available \in Nat /\ day.total \in Nat /\ shortable \in Int
         /\ book.available \in Int /\ book \in [total : Int, available : Int]
         /\ query.available \in Nat /\ query.total \in Int
         /\ cb.delta \in Nat /\ "sell" \in Sides /\ "buy" \in Sides
  BY DayFacts DEF IInv, TypeOK, Sides

(* Nothing is counted; less, or as much, is held back.                     *)
LEMMA AnswersUntouched ==
  ASSUME IInv, AInv, IInv', AInv', BInv, Quiet' => Quiet,
         UNCHANGED <<day, shortable, crossed, query>>,
         CountedSum("sell")' = CountedSum("sell"),
         Exposed("sell")' \in Int, Exposed("sell")' <= Exposed("sell"),
         book'.available = book.available + Exposed("sell") - Exposed("sell")'
  PROVE  BInv'
<1>1. /\ day.available \in Nat /\ shortable \in Int /\ query.available \in Nat
      /\ "sell" \in Sides
  BY AnswerTypes
<1>2. Exposed("sell") \in Nat /\ CountedSum("sell") \in Nat
  BY <1>1, ExposedFacts
<1>3. BookInv'
  BY <1>1, <1>2 DEF BInv, BookInv
<1>4. AnswerInv'
  <2> SUFFICES ASSUME Quiet', ~crossed'
               PROVE  /\ shortable' + CountedSum("sell")' <= day'.available
                      /\ Exposed("sell")' <= day'.available
                      /\ query'.at = "answered" =>
                           query'.available + Exposed("sell")' <= day'.available
    BY DEF AnswerInv
  <2>1. /\ shortable + CountedSum("sell") <= day.available
        /\ Exposed("sell") <= day.available
        /\ query.at = "answered" => query.available + Exposed("sell") <= day.available
    BY DEF BInv, AnswerInv
  <2> QED
    BY <1>1, <1>2, <2>1
<1> QED
  BY <1>3, <1>4 DEF BInv

LEMMA AnswersIdle ==
  ASSUME IInv, AInv, IInv', AInv', BInv, Quiet' => Quiet,
         UNCHANGED <<day, shortable, crossed, query, order, sent, book, counted>>
  PROVE  BInv'
<1>1. "sell" \in Sides /\ book.available \in Int
  BY AnswerTypes
<1>2. Exposed("sell")' = Exposed("sell") /\ Exposed("sell") \in Nat
  BY <1>1, ExposedKept, ExposedFacts
<1>3. CountedSum("sell")' = CountedSum("sell")
  BY DEF CountedSum, Sent
<1> QED
  BY <1>1, <1>2, <1>3, AnswersUntouched

LEMMA BrokerAnswers ==
  ASSUME IInv, AInv, IInv', AInv', BInv, BrokerStep, NEW o \in Orders,
         order[o].state # "none", order'[o].side = order[o].side,
         \A p \in Orders : p # o => order'[p] = order[p],
         Exposure(o)' <= Exposure(o),
         book'.available = book.available + (IF order[o].side = "sell"
                                             THEN Exposure(o) - Exposure(o)' ELSE 0)
  PROVE  BInv'
<1>1. /\ UNCHANGED <<day, shortable, crossed, query, sent, counted, resends>>
      /\ UNCHANGED <<leaves, over>>
  BY DEF BrokerStep, account, tables
<1>2. "sell" \in Sides /\ book.available \in Int
  BY AnswerTypes
<1>3. Exposed("sell")' = Exposed("sell") + (IF order[o].side = "sell"
                                           THEN Exposure(o)' - Exposure(o) ELSE 0)
  BY <1>1, <1>2, ExposedMoves
<1>4. Exposed("sell") \in Nat /\ Exposure(o) \in Nat /\ Exposure(o)' \in Nat
  <2>1. Exposed("sell") \in Nat
    BY <1>2, ExposedFacts
  <2>2. Exposure(o) \in Nat
    BY ViewFacts DEF AInv
  <2>3. order'[o] \in OrderType
    BY DEF IInv, TypeOK, OrderType
  <2>4. Exposure(o)' \in Nat
    BY <2>3 DEF Exposure, OrderType
  <2> QED
    BY <2>1, <2>2, <2>4
<1>5. Quiet' => Quiet
  BY <1>1 DEF Quiet, OneKeyEach, TwoKeys, Met
<1>6. CountedSum("sell")' = CountedSum("sell")
  <2>1. 1..sent \subseteq Orders
    BY OrderAssumption DEF IInv, TypeOK, Orders
  <2>2. Sent("sell")' = Sent("sell")
    BY <1>1, <2>1 DEF Sent
  <2> QED
    BY <1>1, <2>2 DEF CountedSum
<1>7. /\ Exposed("sell")' \in Int /\ Exposed("sell")' <= Exposed("sell")
      /\ book'.available = book.available + Exposed("sell") - Exposed("sell")'
  BY <1>2, <1>3, <1>4
<1> QED
  BY <1>1, <1>5, <1>6, <1>7, AnswersUntouched

LEMMA AcceptAnswers ==
  ASSUME IInv, AInv, IInv', AInv', BInv, NEW o \in Orders, Accept(o) PROVE BInv'
<1>1. order[o] \in OrderType /\ order[o].state = "sent" /\ order \in [Orders -> OrderType]
  BY OrderFacts DEF Accept, IInv, TypeOK, OrderType
<1>2. /\ order' = [order EXCEPT ![o].state = "open"] /\ book' = book /\ BrokerStep
  BY DEF Accept
<1>3. /\ order'[o].side = order[o].side /\ order'[o].state = "open"
      /\ order'[o].qty = order[o].qty /\ order'[o].cum = order[o].cum
      /\ \A p \in Orders : p # o => order'[p] = order[p]
  BY <1>1, <1>2 DEF OrderType
<1>4. /\ Exposure(o) = order[o].qty /\ Exposure(o)' = order[o].qty
      /\ order[o].qty \in Nat /\ book.available \in Int
  BY <1>1, <1>3, AnswerTypes DEF Exposure, OrderType
<1>5. order[o].state # "none"
  BY <1>1
<1>6. /\ Exposure(o)' <= Exposure(o)
      /\ book'.available = book.available + (IF order[o].side = "sell"
                                             THEN Exposure(o) - Exposure(o)' ELSE 0)
  BY <1>2, <1>4
<1> QED
  BY <1>2, <1>3, <1>5, <1>6, BrokerAnswers

(* An order ends, and the broker gives back what it does not take.         *)
LEMMA EndAnswers ==
  ASSUME IInv, AInv, IInv', AInv', BInv, BrokerStep, NEW o \in Orders, Working(o),
         NEW e \in {"ended", "refused"}, order' = [order EXCEPT ![o].state = e],
         Freeze(order[o].side, order[o].cum - order[o].qty)
  PROVE  BInv'
<1>1. order[o] \in OrderType /\ order \in [Orders -> OrderType]
      /\ order[o].state \in {"sent", "open"}
  BY OrderFacts DEF Working, IInv, TypeOK, OrderType
<1>2. /\ order'[o].side = order[o].side /\ order'[o].state = e
      /\ order'[o].qty = order[o].qty /\ order'[o].cum = order[o].cum
      /\ \A p \in Orders : p # o => order'[p] = order[p]
  BY <1>1 DEF OrderType
<1>3. /\ order[o].qty \in Nat /\ order[o].cum \in Nat /\ order[o].cum <= order[o].qty
  BY ViewFacts DEF AInv
<1>4. Exposure(o) = order[o].qty /\ Exposure(o)' = order[o].cum
  BY <1>1, <1>2 DEF Exposure
<1>5. /\ book.available \in Int /\ book \in [total : Int, available : Int]
  BY AnswerTypes
<1>6. book'.available = book.available + (IF order[o].side = "sell"
                                          THEN order[o].qty - order[o].cum ELSE 0)
  <2>1. CASE order[o].side = "sell"
    <3>1. book' = [book EXCEPT !.available = @ - (order[o].cum - order[o].qty)]
      BY <2>1 DEF Freeze
    <3>2. book'.available = book.available - (order[o].cum - order[o].qty)
      BY <1>5, <3>1
    <3> QED
      BY <1>3, <1>5, <2>1, <3>2
  <2>2. CASE order[o].side # "sell"
    BY <1>5, <2>2 DEF Freeze
  <2> QED
    BY <2>1, <2>2
<1>7. order[o].state # "none"
  BY <1>1
<1>8. /\ Exposure(o)' <= Exposure(o)
      /\ book'.available = book.available + (IF order[o].side = "sell"
                                             THEN Exposure(o) - Exposure(o)' ELSE 0)
  BY <1>3, <1>4, <1>6
<1> QED
  BY <1>2, <1>7, <1>8, BrokerAnswers

LEMMA FillAnswers ==
  ASSUME IInv, AInv, IInv', AInv', BInv, NEW o \in Orders, Fill(o) PROVE BInv'
<1> DEFINE cum == order[o].cum + 1
           left == order[o].qty - cum
           n == [order[o] EXCEPT !.cum = cum,
                                 !.state = IF left = 0 THEN "ended" ELSE "open"]
<1>1. order[o] \in OrderType /\ order[o].state = "open" /\ order \in [Orders -> OrderType]
  BY OrderFacts DEF Fill, IInv, TypeOK, OrderType
<1>2. order' = [order EXCEPT ![o] = n] /\ BrokerStep
  BY DEF Fill
<1>3. book'.available = book.available
  <2>1. /\ book \in [total : Int, available : Int]
        /\ book' = [book EXCEPT !.total = IF order[o].side = "buy" THEN @ + 1 ELSE @ - 1]
    BY AnswerTypes DEF Fill
  <2> QED
    BY <2>1
<1>4. cum = order[o].cum + 1 /\ left = order[o].qty - cum
  OBVIOUS
<1> HIDE DEF left, cum
<1>5. /\ n.state = (IF left = 0 THEN "ended" ELSE "open")
      /\ n.cum = cum /\ n.qty = order[o].qty /\ n.side = order[o].side
  BY <1>1 DEF OrderType
<1>6. order'[o] = n /\ \A p \in Orders : p # o => order'[p] = order[p]
  BY <1>1, <1>2
<1> HIDE DEF n
<1>7. order[o].qty \in Nat /\ order[o].cum \in Nat
  BY <1>1 DEF OrderType
<1>8. Exposure(o) = order[o].qty /\ Exposure(o)' = order[o].qty
  BY <1>1, <1>4, <1>5, <1>6, <1>7 DEF Exposure
<1>9. book.available \in Int /\ order[o].state # "none" /\ order'[o].side = order[o].side
  BY <1>1, <1>5, <1>6, AnswerTypes
<1>10. /\ Exposure(o)' <= Exposure(o)
       /\ book'.available = book.available + (IF order[o].side = "sell"
                                              THEN Exposure(o) - Exposure(o)' ELSE 0)
  BY <1>3, <1>7, <1>8, <1>9
<1> QED
  BY <1>2, <1>6, <1>9, <1>10, BrokerAnswers

LEMMA BrokerEndAnswers ==
  ASSUME IInv, AInv, IInv', AInv', BInv, NEW o \in Orders,
         Reject(o) \/ Withdraw(o) \/ Respond(o)
  PROVE  BInv'
<1>1. order[o] \in OrderType /\ OrderOf(o)
  BY OrderFacts
<1>2. ASSUME order[o].state = "sent"
      PROVE  Working(o) /\ order[o].cum - order[o].qty = -order[o].qty
  BY <1>1, <1>2 DEF Working, OrderOf, OrderType
<1>3. CASE Reject(o)
  <2>1. /\ order[o].state = "sent" /\ order' = [order EXCEPT ![o].state = "ended"]
        /\ Freeze(order[o].side, -order[o].qty) /\ BrokerStep
    BY <1>3 DEF Reject
  <2> QED
    BY <1>2, <2>1, EndAnswers
<1>4. CASE Withdraw(o)
  <2>1. /\ order[o].state = "open" /\ order' = [order EXCEPT ![o].state = "ended"]
        /\ Freeze(order[o].side, order[o].cum - order[o].qty) /\ BrokerStep
    BY <1>4 DEF Withdraw
  <2> QED
    BY <2>1, EndAnswers DEF Working
<1>5. CASE Respond(o)
  <2>1. BrokerStep
    BY <1>5 DEF Respond
  <2>2. CASE order[o].state = "sent" /\ order' = [order EXCEPT ![o].state = "refused"]
             /\ Freeze(order[o].side, -order[o].qty)
    BY <1>2, <2>1, <2>2, EndAnswers
  <2>3. CASE UNCHANGED <<order, book>>
    <3>1. /\ UNCHANGED <<day, shortable, crossed, query, sent, counted, resends>>
          /\ UNCHANGED <<leaves, over>>
      BY <2>1 DEF BrokerStep, account, tables
    <3>2. Quiet' => Quiet
      BY <3>1 DEF Quiet, OneKeyEach, TwoKeys, Met
    <3> QED
      BY <2>3, <3>1, <3>2, AnswersIdle
  <2> QED
    BY <1>5, <2>2, <2>3 DEF Respond
<1> QED
  BY <1>3, <1>4, <1>5

LEMMA CancelFiresAnswers ==
  ASSUME IInv, AInv, IInv', AInv', BInv, NEW o \in Orders, CancelFires(o) PROVE BInv'
<1>1. /\ UNCHANGED <<day, shortable, crossed, query, order, sent, book, counted, resends>>
      /\ UNCHANGED <<leaves, over>>
  BY DEF CancelFires, account, tables, broker, gateway
<1>2. Quiet' => Quiet
  BY <1>1 DEF Quiet, OneKeyEach, TwoKeys, Met
<1> QED
  BY <1>1, <1>2, AnswersIdle

LEMMA SignalStepAnswers ==
  ASSUME IInv, AInv, IInv', AInv', BInv, SignalStep PROVE BInv'
<1>1. /\ UNCHANGED <<day, shortable, crossed, query, order, sent, book, counted, resends>>
      /\ UNCHANGED <<leaves, over>>
  BY DEF SignalStep, LoadReserve, StoreReserve, account, tables, broker, gateway
<1>2. Quiet' => Quiet
  BY <1>1 DEF Quiet, OneKeyEach, TwoKeys, Met
<1> QED
  BY <1>1, <1>2, AnswersIdle

LEMMA StoreReleaseAnswers ==
  ASSUME IInv, AInv, IInv', AInv', BInv, StoreRelease PROVE BInv'
<1>1. /\ UNCHANGED <<day, shortable, crossed, query, order, sent, book, counted, resends>>
      /\ UNCHANGED <<leaves, over>>
  BY DEF StoreRelease, tables, broker, gateway
<1>2. Quiet' => Quiet
  BY <1>1 DEF Quiet, OneKeyEach, TwoKeys, Met
<1> QED
  BY <1>1, <1>2, AnswersIdle

LEMMA OnRtnTradeAnswers ==
  ASSUME IInv, AInv, IInv', AInv', BInv, OnRtnTrade PROVE BInv'
<1>1. /\ UNCHANGED <<day, shortable, crossed, query, order, sent, book, counted, resends>>
      /\ UNCHANGED <<leaves, over>>
  BY TradeSeen DEF OnRtnTrade, account, tables, broker, gateway
<1>2. Quiet' => Quiet
  BY <1>1 DEF Quiet, OneKeyEach, TwoKeys, Met
<1> QED
  BY <1>1, <1>2, AnswersIdle

(* A return is counted by a later step; no return makes a day quiet again. *)
LEMMA ReturnAnswers ==
  ASSUME IInv, AInv, IInv', AInv', BInv, NEW o \in Orders, NextReturn(o) \/ ReturnAgain(o)
  PROVE  BInv'
<1>1. /\ got[o] \in Nat /\ rep[o] \in Seq(ReportType) /\ resends \in Nat
      /\ got[o] <= Len(rep[o])
  BY DEF IInv, TypeOK, ReportInv, ReportsOf
<1>2. /\ resends' = 0 => resends = 0
      /\ \E i \in 1..Len(rep[o]) : OnRtnOrder(o, i)
  <2>1. CASE NextReturn(o)
    <3>1. got[o] + 1 \in 1..Len(rep[o])
      BY <1>1, <2>1 DEF NextReturn
    <3> QED
      BY <2>1, <3>1 DEF NextReturn
  <2>2. CASE ReturnAgain(o)
    <3>1. 1..got[o] \subseteq 1..Len(rep[o])
      BY <1>1
    <3> QED
      BY <1>1, <2>2, <3>1 DEF ReturnAgain
  <2> QED
    BY <2>1, <2>2
<1>3. PICK i \in 1..Len(rep[o]) : OnRtnOrder(o, i)
  BY <1>2
<1>4. UNCHANGED <<day, shortable, crossed, query, order, sent, book, counted>>
  BY <1>3 DEF OnRtnOrder, account, broker
<1>5. \A x \in Keys : Met(x) => Met(x)'
  BY <1>3, MetGrows
<1>6. Quiet' => Quiet
  BY <1>2, <1>4, <1>5, KeyFacts DEF Quiet, OneKeyEach, TwoKeys
<1> QED
  BY <1>4, <1>6, AnswersIdle

LEMMA QueryPositionsAnswers ==
  ASSUME IInv, AInv, IInv', AInv', BInv, QueryPositions PROVE BInv'
<1>1. /\ UNCHANGED <<day, shortable, crossed, order, sent, book, counted, resends>>
      /\ UNCHANGED <<leaves, over>> /\ query'.available = NotNegative(book.available)
  BY DEF QueryPositions, account, tables, gateway
<1>2. Quiet' => Quiet
  BY <1>1 DEF Quiet, OneKeyEach, TwoKeys, Met
<1>3. /\ "sell" \in Sides /\ book.available \in Int /\ day.available \in Nat
      /\ Exposed("sell") \in Nat
  BY AnswerTypes, ExposedFacts
<1>4. Exposed("sell")' = Exposed("sell") /\ CountedSum("sell")' = CountedSum("sell")
  <2>1. CountedSum("sell")' = CountedSum("sell")
    BY <1>1 DEF CountedSum, Sent
  <2> QED
    BY <1>1, <1>3, <2>1, ExposedKept
<1>5. BookInv'
  BY <1>1, <1>4 DEF BInv, BookInv
<1>6. ASSUME Quiet', ~crossed'
      PROVE  /\ shortable' + CountedSum("sell")' <= day'.available
             /\ Exposed("sell")' <= day'.available
             /\ query'.available + Exposed("sell")' <= day'.available
  <2>1. /\ shortable + CountedSum("sell") <= day.available
        /\ Exposed("sell") <= day.available
        /\ book.available = day.available - Exposed("sell")
    BY <1>1, <1>2, <1>6 DEF BInv, AnswerInv, BookInv
  <2>2. query'.available = day.available - Exposed("sell")
    BY <1>1, <1>3, <2>1 DEF NotNegative, Larger
  <2> QED
    BY <1>1, <1>3, <1>4, <2>1, <2>2
<1> QED
  BY <1>5, <1>6 DEF BInv, AnswerInv

(* The answer is taken between two returns: what was told is counted.      *)
LEMMA OnRtnPosOptionAnswers ==
  ASSUME IInv, AInv, IInv', AInv', BInv, OnRtnPosOption PROVE BInv'
<1>1. /\ UNCHANGED <<day, crossed, order, sent, book, counted, resends, leaves, over>>
      /\ cb.at = "idle" /\ query.at = "answered" /\ query'.at = "none"
      /\ shortable' = Smaller(query.available, NotNegative(query.total))
  BY DEF OnRtnPosOption, CallbackTurn, Remaining, NoQuery, tables, gateway
<1>2. Quiet' => Quiet
  BY <1>1 DEF Quiet, OneKeyEach, TwoKeys, Met
<1>3. /\ "sell" \in Sides /\ query.available \in Nat /\ query.total \in Int
      /\ day.available \in Nat
  BY AnswerTypes
<1>4. Exposed("sell")' = Exposed("sell") /\ CountedSum("sell")' = CountedSum("sell")
  <2>1. CountedSum("sell")' = CountedSum("sell")
    BY <1>1 DEF CountedSum, Sent
  <2> QED
    BY <1>1, <1>3, <2>1, ExposedKept
<1>5. BookInv'
  BY <1>1, <1>4 DEF BInv, BookInv
<1>6. ASSUME Quiet', ~crossed'
      PROVE  /\ shortable' + CountedSum("sell")' <= day'.available
             /\ Exposed("sell")' <= day'.available
  <2>1. /\ query.available + Exposed("sell") <= day.available
        /\ Exposed("sell") <= day.available
    BY <1>1, <1>2, <1>6 DEF BInv, AnswerInv
  <2>2. CountedSum("sell") = ToldSum("sell")
    BY <1>1, <1>2, <1>3, <1>6, CountedAtRest DEF Quiet
  <2>3. /\ ToldSum("sell") \in Nat /\ Filled("sell") \in Nat /\ Exposed("sell") \in Nat
        /\ ToldSum("sell") <= Filled("sell") /\ Filled("sell") <= Exposed("sell")
    BY <1>3, ExposedFacts
  <2>4. shortable' \in Int /\ shortable' <= query.available
    BY <1>1, <1>3 DEF Smaller, NotNegative, Larger
  <2> QED
    BY <1>1, <1>3, <1>4, <2>1, <2>2, <2>3, <2>4
<1> QED
  BY <1>1, <1>5, <1>6 DEF BInv, AnswerInv

(* At the floor of shortable, what was told is no more than what is held.  *)
LEMMA StorePositionAnswers ==
  ASSUME IInv, AInv, IInv', AInv', BInv, StorePosition PROVE BInv'
<1>1. /\ UNCHANGED <<day, crossed, query, order, sent, book, resends, leaves, over>>
      /\ cb.at = "released"
  BY DEF StorePosition, tables, broker, gateway
<1>2. Quiet' => Quiet
  BY <1>1 DEF Quiet, OneKeyEach, TwoKeys, Met
<1>3. /\ "sell" \in Sides /\ day.available \in Nat /\ query.available \in Nat
      /\ shortable \in Int /\ cb.delta \in Nat /\ counted \in [Orders -> Nat]
  BY AnswerTypes DEF IInv, TypeOK
<1>4. cb.order \in Orders /\ cb.order \in 1..sent
  BY <1>1, CallbackFacts DEF AInv, TurnInv
<1>5. Exposed("sell")' = Exposed("sell")
  BY <1>1, <1>3, ExposedKept
<1>6. BookInv'
  BY <1>1, <1>5 DEF BInv, BookInv
<1>7. ASSUME Quiet', ~crossed'
      PROVE  /\ shortable' + CountedSum("sell")' <= day'.available
             /\ Exposed("sell")' <= day'.available
             /\ query'.at = "answered" =>
                  query'.available + Exposed("sell")' <= day'.available
  <2>1. /\ shortable + CountedSum("sell") <= day.available
        /\ Exposed("sell") <= day.available
        /\ query.at = "answered" => query.available + Exposed("sell") <= day.available
    BY <1>1, <1>2, <1>7 DEF BInv, AnswerInv
  <2>2. OneKeyEach
    BY <1>2, <1>7 DEF Quiet
  <2>3. CountedSum("sell") + (IF order[cb.order].side = "sell" THEN cb.delta ELSE 0)
          = ToldSum("sell")
    BY <1>1, <1>3, <1>4, <2>2, CountedAtHand
  <2>4. CountedSum("sell")' = ToldSum("sell")
    <3>1. counted' = [counted EXCEPT ![cb.order] = counted[cb.order] + cb.delta]
      BY DEF StorePosition, Traded
    <3>2. \A o \in Orders :
            counted'[o] = counted[o] + (IF o = cb.order THEN cb.delta ELSE 0)
      BY <1>3, <1>4, <3>1
    <3>3. SumOver(counted', Sent("sell")) = ToldSum("sell")
      BY <1>1, <1>3, <1>4, <2>2, <3>2, CountedAtHand
    <3>4. Sent("sell")' = Sent("sell")
      BY <1>1 DEF Sent
    <3> QED
      BY <3>3, <3>4 DEF CountedSum
  <2>5. /\ ToldSum("sell") \in Nat /\ Filled("sell") \in Nat /\ Exposed("sell") \in Nat
        /\ ToldSum("sell") <= Filled("sell") /\ Filled("sell") <= Exposed("sell")
        /\ CountedSum("sell") \in Nat
    BY <1>3, ExposedFacts
  <2>6. shortable' + ToldSum("sell") <= day.available
    <3>1. CASE order[cb.order].side = "sell"
      <4>1. shortable' = NotNegative(shortable - cb.delta)
        <5>1. order[cb.order].side # "buy"
          BY <3>1
        <5> QED
          BY <5>1 DEF StorePosition, Traded
      <4>2. shortable' = shortable - cb.delta \/ shortable' = 0
        BY <1>3, <4>1 DEF NotNegative, Larger
      <4>3. CountedSum("sell") + cb.delta = ToldSum("sell")
        BY <2>3, <3>1
      <4>4. CASE shortable' = 0
        BY <1>3, <2>1, <2>5, <4>4
      <4>5. CASE shortable' = shortable - cb.delta
        BY <1>3, <2>1, <2>5, <4>3, <4>5
      <4> QED
        BY <4>2, <4>4, <4>5
    <3>2. CASE order[cb.order].side = "buy"
      <4>1. shortable' = shortable
        BY <3>2 DEF StorePosition, Traded
      <4>2. CountedSum("sell") = ToldSum("sell")
        BY <2>3, <2>5, <3>2
      <4> QED
        BY <2>1, <4>1, <4>2
    <3>3. order[cb.order].side \in Sides
      BY <1>4 DEF IInv, TypeOK
    <3> QED
      BY <3>1, <3>2, <3>3 DEF Sides
  <2> QED
    BY <1>1, <1>5, <2>1, <2>4, <2>6
<1> QED
  BY <1>6, <1>7 DEF BInv, AnswerInv

(* An order takes no more than is neither sold nor pending.                *)
LEMMA SubmitAnswers ==
  ASSUME IInv, AInv, IInv', AInv', BInv, NEW s \in Sides, Submit(s) PROVE BInv'
<1>1. PICK q \in Nat, limit \in Nat :
        /\ q > 0 /\ q <= Capacity(s, limit)
        /\ order' = [order EXCEPT ![sent + 1] =
             [side |-> s, qty |-> q, cum |-> 0, state |-> "sent"]]
  BY SubmitFacts
<1>2. PICK x : x = sent + 1
  OBVIOUS
<1>3. /\ sent \in Nat /\ x \in Orders /\ sent' = x /\ x \notin 1..sent
      /\ 1..x = 1..sent \cup {x} /\ 1..sent \subseteq Orders
      /\ order'[x] = [side |-> s, qty |-> q, cum |-> 0, state |-> "sent"]
      /\ \A p \in Orders : p # x => order'[p] = order[p]
      /\ \A t \in Sides : OneKeyEach => CountedSum(t)' = CountedSum(t)
  <2>1. sent \in Nat /\ x \in Orders /\ sent' = x
    BY <1>2, SubmitFacts
  <2>2. 1..sent \subseteq Orders
    BY OrderAssumption DEF IInv, TypeOK, Orders
  <2> QED
    BY <1>1, <1>2, <2>1, <2>2, SubmitSums
<1>4. /\ day' = day /\ shortable' = shortable /\ query' = query
      /\ leaves' = leaves /\ over' = over /\ resends' = resends
      /\ sig.at = "idle" /\ (~day.threaded => cb.at = "idle")
      /\ crossed' = (crossed \/ query.at = "answered")
  BY DEF Submit, account, tables, gateway, SignalTurn
<1>5. Quiet' => Quiet
  BY <1>4 DEF Quiet, OneKeyEach, TwoKeys, Met
<1>6. /\ "sell" \in Sides /\ book.available \in Int /\ day.available \in Nat
      /\ book \in [total : Int, available : Int] /\ shortable \in Int
  BY AnswerTypes
<1>7. /\ Exposed("sell") \in Nat /\ DueSum("sell") \in Nat /\ ToldSum("sell") \in Nat
      /\ Exposed("sell") <= ToldSum("sell") + DueSum("sell")
  BY <1>6, ExposedFacts
<1>8. PICK n : n = IF s = "sell" THEN q ELSE 0
  OBVIOUS
<1>9. Exposed("sell")' = Exposed("sell") + n
  <2>1. PICK f : f = [o \in Orders |-> Exposure(o)]
    OBVIOUS
  <2>2. PICK g : g = [o \in Orders |-> Exposure(o)']
    OBVIOUS
  <2>3. PICK S : S = Sent("sell")
    OBVIOUS
  <2>4. IsFiniteSet(S) /\ S \subseteq Orders /\ x \notin S
    BY <1>3, <1>6, <2>3, SentFacts DEF Sent
  <2>5. Sent("sell")' = IF s = "sell" THEN S \cup {x} ELSE S
    <3>1. 1..sent' = 1..sent \cup {x}
      BY <1>3
    <3> QED
      BY <1>3, <2>3, <3>1 DEF Sent
  <2>6. \A o \in S : f[o] \in Int /\ g[o] = f[o]
    <3> SUFFICES ASSUME NEW o \in S PROVE f[o] \in Int /\ g[o] = f[o]
      OBVIOUS
    <3>1. o \in Orders /\ o # x
      BY <2>4
    <3>2. Exposure(o) \in Nat /\ Exposure(o)' = Exposure(o)
      BY <1>3, <3>1, ViewFacts DEF AInv, Exposure
    <3> QED
      BY <2>1, <2>2, <3>1, <3>2
  <2>7. g[x] = q /\ g[x] \in Int
    BY <1>3, <2>2 DEF Exposure
  <2>8. /\ Exposed("sell") = SumOver(f, S)
        /\ Exposed("sell")' = SumOver(g, Sent("sell")')
    BY <2>1, <2>2, <2>3 DEF Exposed
  <2>9. CASE s = "sell"
    <3>1. SumOver(g, S \cup {x}) = g[x] + SumOver(f, S)
      BY <2>4, <2>6, <2>7, SumGrow
    <3>2. Sent("sell")' = S \cup {x} /\ n = q
      BY <1>8, <2>5, <2>9
    <3>3. SumOver(g, Sent("sell")') = SumOver(g, S \cup {x})
      BY <3>2
    <3> QED
      BY <1>7, <2>7, <2>8, <3>1, <3>2, <3>3
  <2>10. CASE s # "sell"
    <3>1. SumOver(g, S) = SumOver(f, S)
      BY <2>4, <2>6, SumAgree
    <3> QED
      BY <1>7, <1>8, <2>5, <2>8, <2>10, <3>1
  <2> QED
    BY <2>9, <2>10
<1>10. book'.available = book.available - n
  <2>1. PICK m : /\ Freeze(s, m)
                 /\ order' = [order EXCEPT ![sent + 1] =
                      [side |-> s, qty |-> m, cum |-> 0, state |-> "sent"]]
    BY DEF Submit
  <2>2. order'[x].qty = m
    BY <1>2, <1>3, <2>1 DEF IInv, TypeOK
  <2>3. m = q
    BY <1>3, <2>2
  <2> QED
    BY <1>6, <1>8, <2>1, <2>3 DEF Freeze
<1>11. BookInv'
  BY <1>4, <1>6, <1>7, <1>8, <1>9, <1>10 DEF BInv, BookInv
<1>12. ASSUME Quiet', ~crossed'
       PROVE  /\ shortable' + CountedSum("sell")' <= day'.available
              /\ Exposed("sell")' <= day'.available
              /\ query'.at # "answered"
  <2>1. Quiet /\ OneKeyEach /\ cb.at = "idle" /\ ~crossed /\ query.at # "answered"
    BY <1>4, <1>5, <1>12 DEF Quiet
  <2>2. /\ shortable + CountedSum("sell") <= day.available
        /\ Exposed("sell") <= day.available
    BY <2>1 DEF BInv, AnswerInv
  <2>3. CountedSum("sell")' = CountedSum("sell") /\ CountedSum("sell") = ToldSum("sell")
    BY <1>3, <1>6, <2>1, CountedAtRest
  <2>4. CASE s = "sell"
    <3>1. pending["sell"] = DueSum("sell")
      <4>1. pending["sell"] + Reserving("sell") = DueSum("sell") + Releasing("sell")
        BY <1>6, <2>1 DEF AInv, ReservedInv
      <4>2. Reserving("sell") = 0 /\ Releasing("sell") = 0
        BY <1>4, <2>1 DEF Reserving, Releasing
      <4>3. pending["sell"] \in Nat
        BY <1>6 DEF IInv, TypeOK
      <4> QED
        BY <1>7, <4>1, <4>2, <4>3
    <3>2. q <= shortable - pending["sell"]
      <4>1. PICK c : c = Smaller(Smaller(shortable, limit + pi), Static + pi)
        OBVIOUS
      <4>2. c \in Int /\ c <= shortable
        <5>1. shortable \in Int /\ pi \in Int /\ Static \in Nat
          BY <1>6, OrderAssumption DEF IInv, TypeOK
        <5>2. PICK a \in Int : a = limit + pi
          BY <5>1
        <5>3. PICK b \in Int : b = Static + pi
          BY <5>1
        <5>4. c = Smaller(Smaller(shortable, a), b)
          BY <4>1, <5>2, <5>3
        <5> QED
          BY <5>1, <5>4 DEF Smaller
      <4>3. q <= NotNegative(c - pending["sell"])
        BY <1>1, <2>4, <4>1 DEF Capacity, MaxCanSell
      <4>4. pending["sell"] \in Nat
        BY <1>6 DEF IInv, TypeOK
      <4>5. q <= c - pending["sell"]
        <5>1. PICK d \in Int : d = c - pending["sell"]
          BY <4>2, <4>4
        <5>2. q <= NotNegative(d)
          BY <4>3, <5>1
        <5> QED
          BY <1>1, <5>1, <5>2 DEF NotNegative, Larger
      <4>6. shortable \in Int
        BY <1>6
      <4> QED
        BY <4>2, <4>4, <4>5, <4>6
    <3> QED
      BY <1>4, <1>6, <1>7, <1>8, <1>9, <2>1, <2>2, <2>3, <2>4, <3>1, <3>2
  <2>5. CASE s # "sell"
    BY <1>4, <1>7, <1>8, <1>9, <2>1, <2>2, <2>3, <2>5
  <2> QED
    BY <2>4, <2>5
<1> QED
  BY <1>11, <1>12 DEF BInv, AnswerInv

LEMMA InitAnswers == Init => IInv /\ AInv /\ BInv
<1> SUFFICES ASSUME Init PROVE IInv /\ AInv /\ BInv
  OBVIOUS
<1>1. IInv /\ AInv
  BY InitInv, InitAccounts
<1>2. /\ sent = 0 /\ query.at = "none" /\ book.available = day.available
      /\ shortable = Smaller(day.available, day.total)
  BY DEF Init, NoQuery
<1>3. day.available \in Nat /\ day.total \in Nat
  BY <1>1, AnswerTypes
<1>4. Sent("sell") = {}
  BY <1>2 DEF Sent
<1>5. Exposed("sell") = 0 /\ CountedSum("sell") = 0
  BY <1>4, SumEmpty DEF Exposed, CountedSum
<1>6. shortable \in Int /\ shortable <= day.available
  BY <1>2, <1>3 DEF Smaller
<1> QED
  BY <1>1, <1>2, <1>3, <1>5, <1>6 DEF BInv, BookInv, AnswerInv

LEMMA NextAnswers == IInv /\ AInv /\ IInv' /\ AInv' /\ BInv /\ [Next]_vars => BInv'
<1> SUFFICES ASSUME IInv, AInv, IInv', AInv', BInv, [Next]_vars PROVE BInv'
  OBVIOUS
<1>1. ASSUME NEW s \in Sides, Submit(s) PROVE BInv'
  BY <1>1, SubmitAnswers
<1>2. CASE SignalStep
  BY <1>2, SignalStepAnswers
<1>3. ASSUME NEW o \in Orders,
             \/ Accept(o) \/ Reject(o) \/ Fill(o) \/ Withdraw(o) \/ Respond(o)
             \/ CancelFires(o) \/ NextReturn(o) \/ ReturnAgain(o)
      PROVE  BInv'
  BY <1>3, AcceptAnswers, BrokerEndAnswers, FillAnswers, CancelFiresAnswers, ReturnAnswers
<1>4. CASE CallbackStep
  BY <1>4, StoreReleaseAnswers, StorePositionAnswers, OnRtnTradeAnswers DEF CallbackStep
<1>5. CASE QueryPositions \/ OnRtnPosOption
  BY <1>5, QueryPositionsAnswers, OnRtnPosOptionAnswers
<1>6. CASE UNCHANGED vars
  <2>1. /\ UNCHANGED <<day, shortable, crossed, query, order, sent, book, counted, resends>>
        /\ UNCHANGED <<leaves, over>>
    BY <1>6 DEF vars, account, tables, broker, gateway
  <2>2. Quiet' => Quiet
    BY <2>1 DEF Quiet, OneKeyEach, TwoKeys, Met
  <2> QED
    BY <2>1, <2>2, AnswersIdle
<1> QED
  BY <1>1, <1>2, <1>3, <1>4, <1>5, <1>6 DEF Next

(* For any number of orders of any size, any limits and any number of      *)
(* position queries: what the broker holds back is what is being sold, and *)
(* neither what the strategy keeps as shortable nor an answer on its way   *)
(* says more than what is left of the day's lots (on_rtn_pos_option,       *)
(* sync_startup_position, StorePosition's floor at 0).                     *)
THEOREM AnswersInvariance == Spec => [](IInv /\ AInv /\ BInv)
<1>1. IInv /\ AInv /\ BInv /\ [Next]_vars => (IInv /\ AInv /\ BInv)'
  BY NextInv, NextAccounts, NextAnswers
<1>2. Init => IInv /\ AInv /\ BInv
  BY InitAnswers
<1> QED
  BY <1>1, <1>2, PTL DEF Spec

(* For any number of position queries, however old their answers: with     *)
(* signals and returns on one thread, no return sent twice, and no order   *)
(* sent between a query and its answer, the orders of the day never sell   *)
(* more than could be sold when it began (sync_startup_position,           *)
(* MaxCanSell).                                                            *)
THEOREM SalesKept == Spec => []AnswersKeepSales
<1>1. IInv /\ AInv /\ BInv => AnswersKeepSales
  BY DEF BInv, AnswerInv, AnswersKeepSales, Quiet, SellsCovered
<1> QED
  BY <1>1, AnswersInvariance, PTL
=============================================================================
